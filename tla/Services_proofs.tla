-------------------------- MODULE Services_proofs --------------------------
(***************************************************************************)
(* What the links, the login service and the welcome services preserve by  *)
(* themselves: the lemmas on Receive, Emit and the ways to build an outbox *)
(* that the proofs about each service rest on; that the login service      *)
(* keeps its own state well typed and never lets a session wait for a      *)
(* logoff nobody would report to it; and that the welcome services keep    *)
(* their state, and what they send, well typed. The theorems about the     *)
(* whole system are in ShardSession_proofs and the modules that extend it. *)
(***************************************************************************)
EXTENDS LoginService, WelcomeService, SequenceTheorems, FiniteSetTheorems,
        FunctionTheorems, TLAPS

(* The links.                                                              *)

NetTyped == net \in [Links -> Seq(Message)]

(* The four kinds of link are links, and their ends are services.          *)
LEMMA LinksAre ==
  /\ <<SS, LS>> \in Links /\ <<LS, SS>> \in Links
  /\ \A s \in Shards : <<LS, s>> \in Links /\ <<s, LS>> \in Links
  /\ \A s, t \in Shards : s # t => <<s, t>> \in Links
  /\ \A f \in Fess : <<ShardOf[f], f>> \in Links /\ <<f, ShardOf[f]>> \in Links
  /\ \A l \in Links : l = <<l[1], l[2]>> /\ l[1] \in Nodes /\ l[2] \in Nodes
<1>1. \A f \in Fess : ShardOf[f] \in Shards
  BY PlacesOK
<1>2. /\ <<SS, LS>> \in Links /\ <<LS, SS>> \in Links
      /\ \A s \in Shards : <<LS, s>> \in Links /\ <<s, LS>> \in Links
      /\ \A s, t \in Shards : s # t => <<s, t>> \in Links
      /\ \A f \in Fess : <<ShardOf[f], f>> \in Links /\ <<f, ShardOf[f]>> \in Links
  BY DEF Links
<1>3. ASSUME NEW l \in Links
      PROVE  l = <<l[1], l[2]>> /\ l[1] \in Nodes /\ l[2] \in Nodes
  BY <1>1, <1>3 DEF Links, Nodes
<1>4. QED
  BY <1>2, <1>3

(* An outbox is silent, one message to one service, or two outboxes joined. *)
LEMMA SilentTyped == Silent \in Outbox
BY EmptySeq DEF Silent, Outbox

(* A message to one service is an outbox, even when the service is none. *)
LEMMA ToTyped ==
  ASSUME NEW n, NEW m \in Message
  PROVE  To(n, m) \in Outbox
<1>1. <<m>> \in Seq(Message)
  OBVIOUS
<1>2. QED
  BY <1>1, SilentTyped DEF To, Outbox

(* Two outboxes sent one after the other are an outbox. *)
LEMMA JoinTyped ==
  ASSUME NEW a \in Outbox, NEW b \in Outbox
  PROVE  (a \oplus b) \in Outbox
BY ConcatProperties DEF \oplus, Outbox

(* The head of a link that holds something is a message.                   *)
LEMMA PendingTyped ==
  ASSUME NetTyped, NEW src, NEW me, <<src, me>> \in Links,
         NEW kind, Pending(src, me, kind)
  PROVE  /\ Head(net[<<src, me>>]) \in Message
         /\ Head(net[<<src, me>>]).kind = kind
         /\ Tail(net[<<src, me>>]) \in Seq(Message)
<1>1. net[<<src, me>>] \in Seq(Message)
  BY DEF NetTyped
<1>2. QED
  BY <1>1, HeadTailProperties DEF Pending

(* Receiving from a link and sending typed messages keeps the links typed. *)
LEMMA ReceiveTyped ==
  ASSUME NetTyped, NEW src, NEW me, <<src, me>> \in Links,
         NEW kind, Pending(src, me, kind),
         NEW outs \in Outbox, Receive(src, me, outs)
  PROVE  NetTyped'
<1>1. ASSUME NEW l \in Links
      PROVE  IF l = <<src, me>> THEN Tail(net[l]) \in Seq(Message)
             ELSE net[l] \o outs[l[2]] \in Seq(Message) /\ net[l] \in Seq(Message)
  <2>1. net[l] \in Seq(Message) /\ l[2] \in Nodes
    BY LinksAre DEF NetTyped
  <2>2. outs[l[2]] \in Seq(Message)
    BY <2>1 DEF Outbox
  <2>3. net[l] \o outs[l[2]] \in Seq(Message)
    BY <2>1, <2>2, ConcatProperties
  <2>4. QED
    BY <2>1, <2>3, PendingTyped
<1>2. QED
  BY <1>1 DEF Receive, NetTyped

(* Sending an outbox without receiving anything keeps the links typed. *)
LEMMA EmitTyped ==
  ASSUME NetTyped, NEW me, NEW outs \in Outbox, Emit(me, outs)
  PROVE  NetTyped'
<1>1. ASSUME NEW l \in Links
      PROVE  net[l] \o outs[l[2]] \in Seq(Message) /\ net[l] \in Seq(Message)
  <2>1. net[l] \in Seq(Message) /\ l[2] \in Nodes
    BY LinksAre DEF NetTyped
  <2>2. outs[l[2]] \in Seq(Message)
    BY <2>1 DEF Outbox
  <2>3. QED
    BY <2>1, <2>2, ConcatProperties
<1>2. QED
  BY <1>1 DEF Emit, NetTyped

(* What a message is made of.                                              *)
LEMMA MessageIs ==
  ASSUME NEW m \in Message
  PROVE  /\ m = [kind |-> m.kind, u |-> m.u, ck |-> m.ck, s |-> m.s,
                 f |-> m.f, fsSid |-> m.fsSid, v |-> m.v]
         /\ m.kind \in Kinds /\ m.u \in Users /\ m.ck \in Cookie
         /\ m.s \in ShardOrNone /\ m.f \in FesOrNone /\ m.fsSid \in FesOrNone
         /\ m.v \in Nat
         /\ m.kind \in Answers /\ m.v = 0 => m.f # NoFes
BY DEF Message

(* A message about a user that is no answer, whatever else it carries.     *)
LEMMA MsgTyped ==
  ASSUME NEW kind \in Kinds \ Answers, NEW u \in Users, NEW ck \in Cookie,
         NEW s \in ShardOrNone, NEW fs \in FesOrNone, NEW v \in Nat
  PROVE  /\ Msg(kind, u) \in Message
         /\ [Msg(kind, u) EXCEPT !.v = v] \in Message
         /\ [Msg(kind, u) EXCEPT !.s = s] \in Message
         /\ [Msg(kind, u) EXCEPT !.ck = ck] \in Message
         /\ [Msg(kind, u) EXCEPT !.fsSid = fs] \in Message
         /\ [Msg(kind, u) EXCEPT !.s = s, !.v = v] \in Message
         /\ [Msg(kind, u) EXCEPT !.v = v, !.ck = ck] \in Message
<1>1. NoCookie \in Cookie /\ NoShard \in ShardOrNone /\ NoFes \in FesOrNone
  BY DEF NoCookie, Cookie, ShardOrNone, FesOrNone
<1>2. QED
  BY <1>1 DEF Msg, Message

(* A message turned into a refusal is a message. *)
LEMMA RefusalTyped ==
  ASSUME NEW m \in Message, NEW kind \in Kinds, NEW v \in Nat \ {0}
  PROVE  [m EXCEPT !.kind = kind, !.v = v] \in Message
<1> DEFINE ans == [m EXCEPT !.kind = kind, !.v = v]
<1>1. ans \in [kind : Kinds, u : Users, ck : Cookie, s : ShardOrNone,
               f : FesOrNone, fsSid : FesOrNone, v : Nat]
  BY DEF Message
<1>2. ans.v = v
  BY DEF Message
<1>3. QED
  BY <1>1, <1>2 DEF Message

(* A message turned into the offer of a front end is a message. *)
LEMMA OfferTyped ==
  ASSUME NEW m \in Message, NEW f \in Fess
  PROVE  [m EXCEPT !.kind = "M_ENTER_SHARD_ANSWER", !.f = f, !.v = 0] \in Message
<1> DEFINE ans == [m EXCEPT !.kind = "M_ENTER_SHARD_ANSWER", !.f = f, !.v = 0]
<1>1. ans \in [kind : Kinds, u : Users, ck : Cookie, s : ShardOrNone,
               f : FesOrNone, fsSid : FesOrNone, v : Nat]
  BY DEF Message, Kinds, FesOrNone
<1>2. ans.f # NoFes
  BY NullsDistinct DEF Message
<1>3. QED
  BY <1>1, <1>2 DEF Message

(* The count of failed queries stays a number. *)
LEMMA QueriesTyped ==
  ASSUME dbFaults \in Nat, NEW failed \in BOOLEAN, Queries(failed)
  PROVE  dbFaults' \in Nat
BY DEF Queries
-----------------------------------------------------------------------------
(* Positions in a queue. *)

(* What is sent comes last. *)
LEMMA PositionsSent ==
  ASSUME NEW S, NEW q \in Seq(S), NEW e \in S
  PROVE  /\ q \o <<e>> = Append(q, e) /\ q \o <<e>> \in Seq(S)
         /\ Len(q) \in Nat /\ DOMAIN q = 1..Len(q)
         /\ DOMAIN (q \o <<e>>) = 1..(Len(q) + 1)
         /\ (q \o <<e>>)[Len(q) + 1] = e
         /\ \A i \in DOMAIN q : (q \o <<e>>)[i] = q[i]
<1> DEFINE r == Append(q, e)
<1>1. q \o <<e>> = r
  BY AppendIsConcat
<1>2. /\ r \in Seq(S) /\ Len(r) = Len(q) + 1 /\ r[Len(q) + 1] = e
      /\ \A i \in 1..Len(q) : r[i] = q[i]
  BY AppendProperties
<1> HIDE DEF r
<1>3. DOMAIN r = 1..Len(r) /\ DOMAIN q = 1..Len(q) /\ Len(q) \in Nat
  BY <1>2, LenProperties
<1>4. QED
  BY <1>1, <1>2, <1>3 DEF r

(* What is read came first, everything else moves up. *)
LEMMA PositionsRead ==
  ASSUME NEW S, NEW q \in Seq(S), q # << >>
  PROVE  /\ Tail(q) \in Seq(S) /\ Head(q) \in S /\ Head(q) = q[1] /\ 1 \in DOMAIN q
         /\ Len(q) \in Nat \ {0} /\ DOMAIN q = 1..Len(q) /\ DOMAIN Tail(q) = 1..(Len(q) - 1)
         /\ \A i \in DOMAIN Tail(q) : i + 1 \in DOMAIN q /\ Tail(q)[i] = q[i + 1]
         /\ \A i \in DOMAIN q \ {1} : i - 1 \in DOMAIN Tail(q) /\ Tail(q)[i - 1] = q[i]
<1> DEFINE r == Tail(q)
<1>1. Len(q) \in Nat \ {0} /\ DOMAIN q = 1..Len(q) /\ Head(q) = q[1]
  BY LenProperties, EmptySeq
<1>2. /\ r \in Seq(S) /\ Len(r) = Len(q) - 1 /\ Head(q) \in S
      /\ \A i \in 1..Len(r) : r[i] = q[i + 1]
  BY HeadTailProperties
<1> HIDE DEF r
<1>3. DOMAIN r = 1..Len(r)
  BY <1>2, LenProperties
<1>4. QED
  BY <1>1, <1>2, <1>3 DEF r

-----------------------------------------------------------------------------
(* Counting the messages of a kind that are on a link. *)

(* How many of the messages q are in K. *)
Number(q, K) == Cardinality({i \in DOMAIN q : q[i] \in K})

(* The messages counted are finitely many, and an empty link has none. *)
LEMMA NumberTyped ==
  ASSUME NEW q \in Seq(Message), NEW K
  PROVE  /\ IsFiniteSet({i \in DOMAIN q : q[i] \in K})
         /\ Number(q, K) \in Nat
         /\ q = << >> => Number(q, K) = 0
<1>1. IsFiniteSet({i \in DOMAIN q : q[i] \in K})
  <2>1. DOMAIN q = 1..Len(q) /\ Len(q) \in Nat
    BY LenProperties
  <2>2. IsFiniteSet(1..Len(q))
    BY <2>1, FS_Interval
  <2>3. {i \in DOMAIN q : q[i] \in K} \in SUBSET (1..Len(q))
    BY <2>1
  <2>4. QED
    BY <2>2, <2>3, FS_Subset
<1>2. q = << >> => {i \in DOMAIN q : q[i] \in K} = {}
  OBVIOUS
<1>3. QED
  BY <1>1, <1>2, FS_CardinalityType, FS_EmptySet DEF Number

(* A message sent is one more, if it is in K. *)
LEMMA NumberSent ==
  ASSUME NEW q \in Seq(Message), NEW m \in Message, NEW K
  PROVE  Number(q \o <<m>>, K) = IF m \in K THEN Number(q, K) + 1 ELSE Number(q, K)
<1> DEFINE r == q \o <<m>>
           I == {i \in DOMAIN q : q[i] \in K}
           J == {i \in DOMAIN r : r[i] \in K}
           n == Len(q) + 1
<1>1. /\ Len(q) \in Nat /\ DOMAIN q = 1..Len(q) /\ n \in Nat /\ n \notin DOMAIN q
      /\ DOMAIN r = 1..n /\ r[n] = m /\ \A i \in DOMAIN q : r[i] = q[i]
  <2>1. <<m>> \in Seq(Message) /\ Len(<<m>>) = 1
    OBVIOUS
  <2>2. Len(q) \in Nat /\ DOMAIN q = 1..Len(q)
    BY LenProperties
  <2>3. /\ r \in Seq(Message) /\ Len(r) = n
        /\ \A i \in 1..n : r[i] = IF i <= Len(q) THEN q[i] ELSE <<m>>[i - Len(q)]
    BY <2>1, <2>2, ConcatProperties
  <2>4. DOMAIN r = 1..n
    BY <2>3, LenProperties
  <2>5. QED
    BY <2>2, <2>3, <2>4
<1> HIDE DEF r
<1>2. n \notin I /\ J = IF m \in K THEN I \cup {n} ELSE I
  BY <1>1
<1>3. IsFiniteSet(I)
  BY NumberTyped
<1>4. Cardinality(J) = IF m \in K THEN Cardinality(I) + 1 ELSE Cardinality(I)
  <2> HIDE DEF I, J, n
  <2> QED
    BY <1>2, <1>3, FS_AddElement
<1>5. QED
  BY <1>4 DEF Number, r

(* A message received is one less, if it is in K. *)
LEMMA NumberRead ==
  ASSUME NEW q \in Seq(Message), q # << >>, NEW K
  PROVE  /\ Number(Tail(q), K) = IF Head(q) \in K THEN Number(q, K) - 1 ELSE Number(q, K)
         /\ Head(q) \in K => Number(q, K) > 0
<1> DEFINE r == Tail(q)
           I == {i \in DOMAIN q : q[i] \in K}
           J == {i \in DOMAIN r : r[i] \in K}
           F == [i \in J |-> i + 1]
<1>1. /\ Len(q) \in Nat \ {0} /\ DOMAIN q = 1..Len(q) /\ Head(q) = q[1]
      /\ r \in Seq(Message) /\ DOMAIN r = 1..(Len(q) - 1)
      /\ \A i \in DOMAIN r : r[i] = q[i + 1]
  <2>1. Len(q) \in Nat \ {0} /\ DOMAIN q = 1..Len(q) /\ Head(q) = q[1]
    BY LenProperties, EmptySeq
  <2>2. /\ r \in Seq(Message) /\ Len(r) = Len(q) - 1
        /\ \A i \in 1..Len(r) : r[i] = q[i + 1]
    BY HeadTailProperties
  <2>3. DOMAIN r = 1..Len(r)
    BY <2>2, LenProperties
  <2>4. QED
    BY <2>1, <2>2, <2>3
<1>2. IsFiniteSet(I) /\ IsFiniteSet(J) /\ Cardinality(I) \in Nat
  BY <1>1, NumberTyped DEF Number
<1> HIDE DEF r
<1>3. F \in Bijection(J, I \ {1})
  <2>1. F \in [J -> I \ {1}]
    BY <1>1
  <2>2. \A i, j \in J : F[i] = F[j] => i = j
    BY <1>1
  <2>3. \A k \in I \ {1} : k - 1 \in J /\ F[k - 1] = k
    BY <1>1
  <2> HIDE DEF F, I, J
  <2>4. \A k \in I \ {1} : \E i \in J : F[i] = k
    BY <2>3
  <2>5. QED
    BY <2>1, <2>2, <2>4, Fun_IsBij
<1>4. Cardinality(J) = Cardinality(I \ {1})
  <2> HIDE DEF F, I, J
  <2> QED
    BY <1>2, <1>3, FS_Bijection DEF ExistsBijection
<1>5. Cardinality(I \ {1}) = IF 1 \in I THEN Cardinality(I) - 1 ELSE Cardinality(I)
  <2> HIDE DEF I
  <2> QED
    BY <1>2, FS_RemoveElement
<1>6. 1 \in I <=> Head(q) \in K
  BY <1>1
<1>7. 1 \in I => Cardinality(I) > 0
  <2> HIDE DEF I
  <2> QED
    BY <1>2, FS_EmptySet
<1> HIDE DEF I, J
<1>8. Number(Tail(q), K) = Cardinality(J) /\ Number(q, K) = Cardinality(I)
  BY DEF Number, I, J, r
<1>9. QED
  BY <1>4, <1>5, <1>6, <1>7, <1>8

-----------------------------------------------------------------------------
(* The login service.                                                      *)

LSTyped == NetTypeOK /\ LSTypeOK

(* NetTypeOK is the typing of the links and of the databases. *)
LEMMA NetIsTyped == NetTypeOK <=> /\ NetTyped
                                  /\ dbFaults \in Nat
                                  /\ dbOnline \in [Users -> ShardOrNone]
                                  /\ dbCur \in [Users -> ShardOrNone]
BY DEF NetTypeOK, NetTyped

(* The null values and the main shards are typed. *)
LEMMA NullsTyped == /\ NoCookie \in Cookie /\ NoShard \in ShardOrNone
                    /\ NoFes \in FesOrNone /\ Nowhere \in Place /\ NoMove \in Move
                    /\ Shards \subseteq ShardOrNone
                    /\ \A u \in Users : MainShard[u] \in Shards
BY PlacesOK DEF NoCookie, Cookie, ShardOrNone, FesOrNone, Nowhere, Place, NoMove, Move

-----------------------------------------------------------------------------
(* What the LS sends is made of messages. *)

LSKinds == {"M_SC_SHARDS", "M_ENTER_SHARD_REQUEST", "M_CLIENT_DISCONNECT",
            "M_CLIENT_CONNECT_STATUS", "M_SC_FAIL", "M_NT_REQ_FORCE_LOGOFF",
            "M_ENTER__SHARD", "M_NT_MOVE_USER_DATA_REQ"}

(* What the LS makes itself are messages of the protocol, and no answers. *)
LEMMA LSKindsOK == LSKinds \subseteq Kinds \ Answers
BY DEF LSKinds, Kinds, Answers

(* A message of the LS to SS is an outbox. *)
LEMMA ToSSTyped ==
  ASSUME NEW kind \in LSKinds, NEW u \in Users
  PROVE  ToSS(kind, u) \in Outbox
BY MsgTyped, LSKindsOK, ToTyped, NullsTyped DEF ToSS, Cookie

(* A request for a user's data is an outbox. *)
LEMMA MoveRequestTyped ==
  ASSUME NEW u \in Users, NEW from \in ShardOrNone, NEW to \in ShardOrNone
  PROVE  MoveRequest(u, from, to) \in Outbox
<1>1. "M_NT_MOVE_USER_DATA_REQ" \in LSKinds
  BY DEF LSKinds
<1>2. (IF MainShard[u] \in {from, to} THEN to ELSE MainShard[u]) \in ShardOrNone
  BY NullsTyped
<1>3. QED
  BY <1>1, <1>2, MsgTyped, LSKindsOK, ToTyped, NullsTyped DEF MoveRequest

(* The leave to enter a shard is an outbox. *)
LEMMA EnterShardOkTyped ==
  ASSUME NEW u \in Users, NEW s, NEW f \in FesOrNone
  PROVE  EnterShardOk(u, s, f) \in Outbox
<1>1. "M_ENTER__SHARD" \in LSKinds
  BY DEF LSKinds
<1>2. QED
  BY <1>1, MsgTyped, LSKindsOK, ToTyped, NullsTyped DEF EnterShardOk

(* A connection or disconnection told to SS is an outbox. *)
LEMMA StatusTyped ==
  ASSUME NEW u \in Users, NEW con \in Nat
  PROVE  To(SS, [Msg("M_CLIENT_CONNECT_STATUS", u) EXCEPT !.v = con]) \in Outbox
<1>1. "M_CLIENT_CONNECT_STATUS" \in LSKinds
  BY DEF LSKinds
<1>2. QED
  BY <1>1, MsgTyped, LSKindsOK, ToTyped, NullsTyped

(* What SS is told of a logoff is an outbox. *)
LEMMA LogoffOutboxTyped ==
  ASSUME NEW u \in Users
  PROVE  LogoffOutbox(u) \in Outbox
<1>1. "M_SC_SHARDS" \in LSKinds /\ "M_CLIENT_CONNECT_STATUS" \in LSKinds
  BY DEF LSKinds
<1>2. QED
  BY <1>1, ToSSTyped, SilentTyped, JoinTyped DEF LogoffOutbox

(* What an entry sends is an outbox. *)
LEMMA AdmitOutboxTyped ==
  ASSUME LSTypeOK, NEW u \in Users, NEW s \in ShardOrNone, NEW f \in FesOrNone,
         NEW con \in Nat
  PROVE  AdmitOutbox(u, s, f, con) \in Outbox
<1>1. infoCur[u] \in ShardOrNone
  BY DEF LSTypeOK
<1>2. QED
  BY <1>1, StatusTyped, EnterShardOkTyped, MoveRequestTyped, SilentTyped, JoinTyped
     DEF AdmitOutbox

-----------------------------------------------------------------------------
(* The parts that several handlers share keep the types. *)

(* Starting a user's session over keeps the types. *)
LEMMA ResetSessionTyped ==
  ASSUME LSTypeOK, NEW u \in Users, ResetSession(u)
  PROVE  /\ changeReq' \in [Users -> Place]
         /\ loginCookie' \in [Users -> Cookie]
         /\ current' \in [Users -> ShardOrNone]
         /\ waiting' \in [Users -> Place]
BY NullsTyped DEF LSTypeOK, ResetSession

(* Loading a user's shard from the main database keeps the types. *)
LEMMA LoadUserInfoTyped ==
  ASSUME LSTyped, NEW u \in Users, LoadUserInfo(u)
  PROVE  infoCur' \in [Users -> ShardOrNone] /\ dbCur' \in [Users -> ShardOrNone]
<1>1. LoadedShard(u) \in ShardOrNone
  BY NullsTyped, NetIsTyped DEF LSTyped, LoadedShard
<1>2. QED
  BY <1>1, NetIsTyped DEF LSTyped, LSTypeOK, LoadUserInfo

(* An entry keeps the types, whatever counts and record it starts from. *)
LEMMA AdmitTyped ==
  ASSUME LSTyped, NEW u \in Users, NEW s \in ShardOrNone, NEW f \in FesOrNone,
         NEW con, NEW online \in ShardOrNone, NEW np \in [Shards -> Nat],
         NEW fails, Admit(u, s, f, con, online, np, fails)
  PROVE  /\ dbOnline' \in [Users -> ShardOrNone]
         /\ nPlayers' \in [Shards -> Nat]
         /\ tempCookie' \in [Users -> ShardOrNone]
         /\ current' \in [Users -> ShardOrNone]
         /\ moving' \in [Users -> Move]
<1>1. [to |-> s, f |-> f, reason |-> 1] \in Move
  BY DEF Move
<1>2. nPlayers' \in [Shards -> Nat]
  <2>1. \A t \in Shards : np[t] + 1 \in Nat
    OBVIOUS
  <2>2. [np EXCEPT ![s] = @ + 1] \in [Shards -> Nat]
    BY <2>1
  <2>3. nPlayers' = np \/ nPlayers' = [np EXCEPT ![s] = @ + 1]
    BY DEF Admit
  <2>4. QED
    BY <2>2, <2>3
<1>3. moving' \in [Users -> Move]
  BY <1>1 DEF Admit, MoveForEntry, LSTyped, LSTypeOK
<1>4. dbOnline' \in [Users -> ShardOrNone]
  BY NetIsTyped DEF Admit, LSTyped
<1>5. tempCookie' \in [Users -> ShardOrNone] /\ current' \in [Users -> ShardOrNone]
  BY NullsTyped DEF Admit, LSTyped, LSTypeOK
<1>6. QED
  BY <1>2, <1>3, <1>4, <1>5

(* The record and the counts a logoff leaves are typed. *)
LEMMA AfterLogoffTyped ==
  ASSUME LSTyped, NEW u \in Users, NEW s \in Shards, NEW fails
  PROVE  /\ OnlineAfterLogoff(u, s, fails) \in ShardOrNone
         /\ PlayersAfterLogoff(u, s, fails) \in [Shards -> Nat]
<1>1. OnlineAfterLogoff(u, s, fails) \in ShardOrNone
  BY NullsTyped, NetIsTyped DEF LSTyped, OnlineAfterLogoff
<1>2. nPlayers \in [Shards -> Nat]
  BY DEF LSTyped, LSTypeOK
<1>3. PlayersAfterLogoff(u, s, fails) \in [Shards -> Nat]
  BY <1>2 DEF PlayersAfterLogoff
<1>4. QED
  BY <1>1, <1>3

-----------------------------------------------------------------------------
(* Every step of the LS keeps the types. *)

(* A message for the LS, and what is known of it. *)
LEMMA LSHeadTyped ==
  ASSUME LSTyped, NEW src \in Shards \cup {SS}, NEW kind, Pending(src, LS, kind)
  PROVE  LET m == Head(net[<<src, LS>>])
         IN  /\ <<src, LS>> \in Links
             /\ NetTyped
             /\ m \in Message
             /\ m.u \in Users /\ m.s \in ShardOrNone /\ m.f \in FesOrNone
             /\ m.fsSid \in FesOrNone /\ m.v \in Nat /\ m.ck \in Cookie
<1>1. <<src, LS>> \in Links
  BY LinksAre
<1>2. NetTyped
  BY NetIsTyped DEF LSTyped
<1>3. Head(net[<<src, LS>>]) \in Message
  BY <1>1, <1>2, PendingTyped
<1>4. QED
  BY <1>1, <1>2, <1>3, MessageIs

(* What the LS does with a message of SS keeps the types. *)
LEMMA LSFromSSTyped ==
  ASSUME LSTyped,
         LSShardsList \/ LSChooseShardRefused \/ LSChooseShard
           \/ LSDisconnectClient \/ LSForceLogoff
  PROVE  LSTyped'
<1> DEFINE m == Head(net[<<SS, LS>>])
<1>0. /\ {"M_SC_SHARDS", "M_SC_FAIL", "M_CLIENT_DISCONNECT",
          "M_NT_REQ_FORCE_LOGOFF", "M_ENTER_SHARD_REQUEST"} \subseteq LSKinds
      /\ SS \in Shards \cup {SS}
  BY DEF LSKinds
<1>1. CASE LSShardsList
  <2>1. Pending(SS, LS, "M_SC_SHARDS") /\ SendShardListToSS(m.u)
        /\ Receive(SS, LS, ToSS("M_SC_SHARDS", m.u))
    BY <1>1 DEF LSShardsList
  <2>2. m.u \in Users /\ NetTyped /\ <<SS, LS>> \in Links
    BY <1>0, <2>1, LSHeadTyped
  <2>3. NetTyped'
    BY <1>0, <2>1, <2>2, ReceiveTyped, ToSSTyped
  <2>4. ResetSession(m.u) /\ LoadUserInfo(m.u) /\ LSTypeOK
    BY <2>1 DEF SendShardListToSS, LSTyped
  <2>5. /\ changeReq' \in [Users -> Place] /\ loginCookie' \in [Users -> Cookie]
        /\ current' \in [Users -> ShardOrNone] /\ waiting' \in [Users -> Place]
        /\ infoCur' \in [Users -> ShardOrNone] /\ dbCur' \in [Users -> ShardOrNone]
    BY <2>2, <2>4, ResetSessionTyped, LoadUserInfoTyped
  <2>6. QED
    BY <1>1, <2>3, <2>5 DEF LSShardsList, LSTyped, LSTypeOK, NetTypeOK, NetTyped
<1>2. CASE LSChooseShardRefused
  <2>1. Pending(SS, LS, "M_ENTER_SHARD_REQUEST")
        /\ Receive(SS, LS, ToSS("M_SC_FAIL", m.u))
    BY <1>2 DEF LSChooseShardRefused
  <2>2. m.u \in Users /\ NetTyped /\ <<SS, LS>> \in Links
    BY <1>0, <2>1, LSHeadTyped
  <2>3. NetTyped'
    BY <1>0, <2>1, <2>2, ReceiveTyped, ToSSTyped
  <2>4. QED
    BY <1>2, <2>3
       DEF LSChooseShardRefused, LSTyped, LSTypeOK, NetTypeOK, NetTyped, lsVars, dbVars
<1>3. CASE LSChooseShard
  <2> DEFINE ck  == [key |-> lastKey + 1, sock |-> m.v]
             out == To(m.s, [Msg("M_ENTER_SHARD_REQUEST", m.u) EXCEPT !.ck = ck])
  <2>1. Pending(SS, LS, "M_ENTER_SHARD_REQUEST") /\ Receive(SS, LS, out)
    BY <1>3 DEF LSChooseShard
  <2>2. /\ m.u \in Users /\ m.s \in ShardOrNone /\ m.v \in Nat
        /\ NetTyped /\ <<SS, LS>> \in Links
    BY <1>0, <2>1, LSHeadTyped
  <2>3. ck \in Cookie
    BY <2>2 DEF Cookie, LSTyped, LSTypeOK
  <2>4. [Msg("M_ENTER_SHARD_REQUEST", m.u) EXCEPT !.ck = ck] \in Message
    <3> HIDE DEF ck, m
    <3> QED
      BY <1>0, <2>2, <2>3, MsgTyped, LSKindsOK, NullsTyped
  <2>5. NetTyped'
    <3>1. out \in Outbox
      BY <2>4, ToTyped
    <3> HIDE DEF out
    <3> QED
      BY <2>1, <2>2, <3>1, ReceiveTyped
  <2>6. lastKey' \in Nat /\ loginCookie' \in [Users -> Cookie]
        /\ tempCookie' \in [Users -> ShardOrNone]
    <3>1. /\ lastKey' = lastKey + 1
          /\ loginCookie' = [loginCookie EXCEPT ![m.u] = ck]
          /\ tempCookie' = [tempCookie EXCEPT ![m.u] = IF @ = NoShard THEN m.s ELSE @]
      BY <1>3 DEF LSChooseShard
    <3> HIDE DEF ck, m
    <3> QED
      BY <2>2, <2>3, <3>1 DEF LSTyped, LSTypeOK
  <2>7. QED
    BY <1>3, <2>5, <2>6 DEF LSChooseShard, LSTyped, LSTypeOK, NetTypeOK, NetTyped, dbVars
<1>4. CASE LSDisconnectClient
  <2> DEFINE out == IF tempCookie[m.u] = NoShard THEN Silent
                    ELSE To(tempCookie[m.u], Msg("M_CLIENT_DISCONNECT", m.u))
  <2>1. Pending(SS, LS, "M_CLIENT_DISCONNECT") /\ Receive(SS, LS, out)
    BY <1>4 DEF LSDisconnectClient
  <2>2. m.u \in Users /\ NetTyped /\ <<SS, LS>> \in Links
    BY <1>0, <2>1, LSHeadTyped
  <2>3. Msg("M_CLIENT_DISCONNECT", m.u) \in Message
    <3> HIDE DEF m
    <3> QED
      BY <1>0, <2>2, MsgTyped, LSKindsOK, NullsTyped
  <2>4. NetTyped'
    <3>1. out \in Outbox
      BY <2>3, ToTyped, SilentTyped
    <3> HIDE DEF out
    <3> QED
      BY <2>1, <2>2, <3>1, ReceiveTyped
  <2>5. QED
    BY <1>4, <2>4
       DEF LSDisconnectClient, LSTyped, LSTypeOK, NetTypeOK, NetTyped, lsVars, dbVars
<1>5. CASE LSForceLogoff
  <2> DEFINE out == [Msg("M_NT_REQ_FORCE_LOGOFF", m.u) EXCEPT !.v = m.v]
             box == To(SS, out) \oplus (IF infoCur[m.u] = NoShard THEN Silent
                                        ELSE To(infoCur[m.u], out))
  <2>1. Pending(SS, LS, "M_NT_REQ_FORCE_LOGOFF") /\ Receive(SS, LS, box)
    BY <1>5 DEF LSForceLogoff
  <2>2. m.u \in Users /\ m.v \in Nat /\ NetTyped /\ <<SS, LS>> \in Links
    BY <1>0, <2>1, LSHeadTyped
  <2>3. out \in Message
    <3> HIDE DEF m
    <3> QED
      BY <1>0, <2>2, MsgTyped, LSKindsOK, NullsTyped
  <2>4. box \in Outbox
    <3> HIDE DEF out
    <3> QED
      BY <2>3, ToTyped, SilentTyped, JoinTyped
  <2>5. NetTyped'
    <3> HIDE DEF box
    <3> QED
      BY <2>1, <2>2, <2>4, ReceiveTyped
  <2>6. QED
    BY <1>5, <2>5 DEF LSForceLogoff, LSTyped, LSTypeOK, NetTypeOK, NetTyped, dbVars
<1>6. QED
  BY <1>1, <1>2, <1>3, <1>4, <1>5

(* What the LS does with an answer, a dropped cookie, a request to change  *)
(* shard or the end of a copy keeps the types.                             *)
LEMMA LSAnswersTyped ==
  ASSUME LSTyped, NEW s \in Shards,
         LSShardAnswer(s) \/ LSRemovedPendingCookie(s) \/ LSChangeShardReq(s)
           \/ LSMoveDataEnd(s)
  PROVE  LSTyped'
<1> DEFINE m == Head(net[<<s, LS>>])
<1>0. /\ SS \notin Shards /\ s \in Shards \cup {SS}
      /\ "M_ENTER_SHARD_REQUEST" \in LSKinds
  BY NodesDistinct DEF LSKinds
<1>1. CASE LSShardAnswer(s)
  <2> DEFINE req == changeReq[m.u]
             ans == [m EXCEPT !.kind = "M_SC_CHANGE_SHARD_ANS", !.fsSid = req.f]
  <2>1. Pending(s, LS, "M_ENTER_SHARD_ANSWER")
    BY <1>1 DEF LSShardAnswer
  <2>2. /\ m \in Message /\ m.u \in Users /\ NetTyped /\ <<s, LS>> \in Links
        /\ m.kind = "M_ENTER_SHARD_ANSWER"
    BY <1>0, <2>1, LSHeadTyped, PendingTyped
  <2>3. req \in Place
    BY <2>2 DEF LSTyped, LSTypeOK
  <2>4. ans \in Message
    <3> HIDE DEF m, req
    <3>1. req.f \in FesOrNone
      BY <2>3 DEF Place
    <3>2. QED
      BY <2>2, <3>1 DEF Message, Kinds, Answers
  <2>5. /\ changeReq' \in [Users -> Place]
        /\ \/ Receive(s, LS, To(SS, m))
           \/ Receive(s, LS, To(req.s, ans))
           \/ Receive(s, LS, Silent)
    <3>1. \/ changeReq' = changeReq /\ Receive(s, LS, To(SS, m))
          \/ /\ changeReq' = [changeReq EXCEPT ![m.u] = Nowhere]
             /\ Receive(s, LS, To(req.s, ans))
          \/ changeReq' = changeReq /\ Receive(s, LS, Silent)
      BY <1>1 DEF LSShardAnswer
    <3> HIDE DEF m, ans, req
    <3> QED
      BY <3>1, NullsTyped DEF LSTyped, LSTypeOK
  <2>6. NetTyped'
    <3> HIDE DEF m, ans
    <3>1. To(SS, m) \in Outbox /\ To(req.s, ans) \in Outbox
      BY <2>2, <2>4, ToTyped
    <3> QED
      BY <2>1, <2>2, <2>5, <3>1, SilentTyped, ReceiveTyped
  <2>7. QED
    BY <1>1, <2>5, <2>6 DEF LSShardAnswer, LSTyped, LSTypeOK, NetTypeOK, NetTyped, dbVars
<1>2. CASE LSRemovedPendingCookie(s)
  <2>1. Pending(s, LS, "M_LOGIN_SERVER_RPC") /\ Receive(s, LS, Silent)
    BY <1>2 DEF LSRemovedPendingCookie
  <2>2. m.u \in Users /\ NetTyped /\ <<s, LS>> \in Links
    BY <1>0, <2>1, LSHeadTyped
  <2>3. NetTyped'
    BY <2>1, <2>2, SilentTyped, ReceiveTyped
  <2>4. tempCookie' \in [Users -> ShardOrNone]
    BY <1>2, NullsTyped DEF LSRemovedPendingCookie, LSTyped, LSTypeOK
  <2>5. QED
    BY <1>2, <2>3, <2>4
       DEF LSRemovedPendingCookie, LSTyped, LSTypeOK, NetTypeOK, NetTyped, dbVars
<1>3. CASE LSChangeShardReq(s)
  <2> DEFINE accepted == changeReq[m.u] = Nowhere /\ loginCookie[m.u] # NoCookie
             req == [Msg("M_ENTER_SHARD_REQUEST", m.u) EXCEPT !.ck = loginCookie[m.u]]
             out == IF accepted THEN To(m.s, req) ELSE Silent
  <2>1. Pending(s, LS, "M_CS_CHANGE_SHARD_REQ") /\ Receive(s, LS, out)
    BY <1>3 DEF LSChangeShardReq
  <2>2. /\ m.u \in Users /\ m.fsSid \in FesOrNone
        /\ NetTyped /\ <<s, LS>> \in Links
    BY <1>0, <2>1, LSHeadTyped
  <2>3. req \in Message
    <3>1. loginCookie[m.u] \in Cookie
      BY <2>2 DEF LSTyped, LSTypeOK
    <3> HIDE DEF m
    <3> QED
      BY <1>0, <2>2, <3>1, MsgTyped, LSKindsOK, NullsTyped
  <2>4. NetTyped'
    <3>1. out \in Outbox
      BY <2>3, ToTyped, SilentTyped
    <3> HIDE DEF out
    <3> QED
      BY <2>1, <2>2, <3>1, ReceiveTyped
  <2>5. changeReq' \in [Users -> Place]
    <3>1. changeReq' = [changeReq EXCEPT ![m.u] =
                          IF accepted THEN [s |-> s, f |-> m.fsSid] ELSE @]
      BY <1>3 DEF LSChangeShardReq
    <3>2. [s |-> s, f |-> m.fsSid] \in Place
      BY <2>2, NullsTyped DEF Place
    <3> HIDE DEF accepted, m
    <3> QED
      BY <2>2, <3>1, <3>2 DEF LSTyped, LSTypeOK
  <2>6. QED
    BY <1>3, <2>4, <2>5
       DEF LSChangeShardReq, LSTyped, LSTypeOK, NetTypeOK, NetTyped, dbVars
<1>4. CASE LSMoveDataEnd(s)
  <2> DEFINE u   == m.u
             mv  == moving[u]
             leg == FirstLeg(mv, s)
             end == mv # NoMove /\ ~leg
             out == IF leg THEN MoveRequest(u, s, mv.to)
                    ELSE IF end /\ mv.reason = 1 /\ infoCur[u] # NoShard
                         THEN EnterShardOk(u, s, mv.f) ELSE Silent
  <2>1. PICK fails \in BOOLEAN :
          /\ Queries(fails)
          /\ dbCur' = [dbCur EXCEPT ![u] = IF fails THEN @ ELSE s]
          /\ moving' = [moving EXCEPT ![u] = IF end THEN NoMove ELSE @]
          /\ infoCur' = [infoCur EXCEPT ![u] = IF end /\ @ # NoShard THEN s ELSE @]
          /\ Receive(s, LS, out)
    BY <1>4 DEF LSMoveDataEnd
  <2>2. Pending(s, LS, "M_NT_MOVE_USER_DATA_END")
    BY <1>4 DEF LSMoveDataEnd
  <2>3. u \in Users /\ NetTyped /\ <<s, LS>> \in Links
    BY <1>0, <2>2, LSHeadTyped
  <2>4. mv \in Move
    BY <2>3 DEF LSTyped, LSTypeOK
  <2>5. NetTyped'
    <3>1. mv.to \in ShardOrNone /\ mv.f \in FesOrNone
      BY <2>4 DEF Move
    <3>2. out \in Outbox
      <4> HIDE DEF u, mv, leg, end
      <4> QED
        BY <2>3, <3>1, NullsTyped, MoveRequestTyped, EnterShardOkTyped, SilentTyped
    <3> HIDE DEF out
    <3> QED
      BY <2>1, <2>2, <2>3, <3>2, ReceiveTyped
  <2>6. /\ dbCur' \in [Users -> ShardOrNone] /\ moving' \in [Users -> Move]
        /\ infoCur' \in [Users -> ShardOrNone] /\ dbFaults' \in Nat
    <3> HIDE DEF u, end, out
    <3> QED
      BY <2>1, NullsTyped, NetIsTyped, QueriesTyped DEF LSTyped, LSTypeOK
  <2>7. QED
    BY <1>4, <2>5, <2>6 DEF LSMoveDataEnd, LSTyped, LSTypeOK, NetTypeOK, NetTyped
<1>5. QED
  BY <1>1, <1>2, <1>3, <1>4

(* What the LS does with the beginning or the end of a session keeps the   *)
(* types.                                                                  *)
LEMMA LSSessionsTyped ==
  ASSUME LSTyped, NEW s \in Shards,
         LSReviseLogoff(s) \/ LSClientMustWait(s) \/ LSClientConnected(s)
           \/ LSClientDisconnected(s) \/ LSClientHandedOver(s)
  PROVE  LSTyped'
<1> DEFINE m == Head(net[<<s, LS>>])
           u == m.u
<1>0. /\ SS \notin Shards /\ s \in Shards \cup {SS}
      /\ {"M_SC_SHARDS", "M_SC_FAIL"} \subseteq LSKinds
  BY NodesDistinct DEF LSKinds
<1>1. CASE LSReviseLogoff(s)
  <2> DEFINE res(fails) == LogoffResult(dbOnline[u], s, fails)
             ok(fails)  == res(fails) \in {"ERR_NOERR", "ERR_ALREADYOFFLINE"}
             out(fails) == (IF ok(fails) THEN Silent ELSE ToSS("M_SC_FAIL", u)) \oplus
                (IF ok(fails) /\ abnormal[u] THEN ToSS("M_SC_SHARDS", u) ELSE Silent)
  <2>1. PICK fails \in BOOLEAN :
          /\ Queries(fails)
          /\ dbOnline' = [dbOnline EXCEPT ![u] = IF ok(fails) THEN NoShard ELSE @]
          /\ abnormal' = [abnormal EXCEPT ![u] = FALSE]
          /\ Receive(s, LS, out(fails))
          /\ IF ok(fails) /\ abnormal[u] THEN SendShardListToSS(u)
             ELSE UNCHANGED <<changeReq, loginCookie, current, waiting,
                              infoCur, dbCur>>
    BY <1>1 DEF LSReviseLogoff
  <2>2. Pending(s, LS, "M_LS_RELOGOFF")
    BY <1>1 DEF LSReviseLogoff
  <2>3. u \in Users /\ NetTyped /\ <<s, LS>> \in Links
    BY <1>0, <2>2, LSHeadTyped
  <2>4. NetTyped'
    <3>1. out(fails) \in Outbox
      <4> HIDE DEF u, ok
      <4> QED
        BY <1>0, <2>3, ToSSTyped, SilentTyped, JoinTyped
    <3> HIDE DEF out
    <3> QED
      BY <2>1, <2>2, <2>3, <3>1, ReceiveTyped
  <2>5. /\ dbOnline' \in [Users -> ShardOrNone] /\ dbFaults' \in Nat
        /\ abnormal' \in [Users -> BOOLEAN]
    <3> HIDE DEF u, ok, out
    <3> QED
      BY <2>1, NullsTyped, NetIsTyped, QueriesTyped DEF LSTyped, LSTypeOK
  <2>6. /\ changeReq' \in [Users -> Place] /\ loginCookie' \in [Users -> Cookie]
        /\ current' \in [Users -> ShardOrNone] /\ waiting' \in [Users -> Place]
        /\ infoCur' \in [Users -> ShardOrNone] /\ dbCur' \in [Users -> ShardOrNone]
    <3>1. CASE ResetSession(u) /\ LoadUserInfo(u)
      BY <2>3, <3>1, ResetSessionTyped, LoadUserInfoTyped DEF LSTyped
    <3>2. CASE UNCHANGED <<changeReq, loginCookie, current, waiting, infoCur, dbCur>>
      BY <3>2, NetIsTyped DEF LSTyped, LSTypeOK
    <3> HIDE DEF u, ok, out
    <3> QED
      BY <2>1, <3>1, <3>2 DEF SendShardListToSS
  <2>7. QED
    BY <1>1, <2>4, <2>5, <2>6 DEF LSReviseLogoff, LSTyped, LSTypeOK, NetTypeOK, NetTyped
<1>2. CASE LSClientMustWait(s)
  <2>1. /\ Pending(s, LS, "M_CLIENT_CONNECT_STATUS") /\ Receive(s, LS, Silent)
        /\ waiting' = [waiting EXCEPT ![u] =
                         IF @ = Nowhere THEN [s |-> s, f |-> m.fsSid] ELSE @]
    BY <1>2 DEF LSClientMustWait
  <2>2. /\ u \in Users /\ m.fsSid \in FesOrNone
        /\ NetTyped /\ <<s, LS>> \in Links
    BY <1>0, <2>1, LSHeadTyped
  <2>3. [s |-> s, f |-> m.fsSid] \in Place
    BY <2>2, NullsTyped DEF Place
  <2>4. NetTyped'
    BY <2>1, <2>2, SilentTyped, ReceiveTyped
  <2>5. waiting' \in [Users -> Place]
    <3> HIDE DEF u, m
    <3> QED
      BY <2>1, <2>2, <2>3 DEF LSTyped, LSTypeOK
  <2>6. QED
    BY <1>2, <2>4, <2>5
       DEF LSClientMustWait, LSTyped, LSTypeOK, NetTypeOK, NetTyped, dbVars
<1>3. CASE LSClientConnected(s)
  <2>1. Pending(s, LS, "M_CLIENT_CONNECT_STATUS")
    BY <1>3 DEF LSClientConnected
  <2>2. PICK fails \in BOOLEAN :
          /\ Queries(fails)
          /\ Admit(u, s, m.fsSid, 1, dbOnline[u], nPlayers, fails)
          /\ Receive(s, LS, AdmitOutbox(u, s, m.fsSid, 1))
    BY <1>3 DEF LSClientConnected
  <2>3. /\ u \in Users /\ m.fsSid \in FesOrNone
        /\ NetTyped /\ <<s, LS>> \in Links
    BY <1>0, <2>1, LSHeadTyped
  <2>4. NetTyped'
    <3>1. AdmitOutbox(u, s, m.fsSid, 1) \in Outbox
      BY <2>3, AdmitOutboxTyped, NullsTyped DEF LSTyped
    <3>2. QED
      BY <2>1, <2>2, <2>3, <3>1, ReceiveTyped
  <2>5. /\ dbOnline' \in [Users -> ShardOrNone] /\ nPlayers' \in [Shards -> Nat]
        /\ tempCookie' \in [Users -> ShardOrNone] /\ current' \in [Users -> ShardOrNone]
        /\ moving' \in [Users -> Move]
    <3>1. dbOnline[u] \in ShardOrNone /\ nPlayers \in [Shards -> Nat]
          /\ s \in ShardOrNone
      BY <2>3, NetIsTyped, NullsTyped DEF LSTyped, LSTypeOK
    <3> HIDE DEF u, m
    <3> QED
      BY <2>2, <2>3, <3>1, AdmitTyped
  <2>6. dbFaults' \in Nat
    BY <2>2, QueriesTyped, NetIsTyped DEF LSTyped
  <2>7. QED
    BY <1>3, <2>4, <2>5, <2>6
       DEF LSClientConnected, LSTyped, LSTypeOK, NetTypeOK, NetTyped
<1>4. CASE LSClientDisconnected(s)
  <2> DEFINE cur  == IF abnormal[u] /\ infoCur[u] = NoShard THEN LoadedShard(u)
                                                            ELSE infoCur[u]
             home == moving[u] = NoMove /\ cur \notin {NoShard, MainShard[u]}
             out  == LogoffOutbox(u) \oplus
                       (IF home THEN MoveRequest(u, cur, MainShard[u]) ELSE Silent)
             away == [to |-> MainShard[u], f |-> NoFes, reason |-> 0]
  <2>1. Pending(s, LS, "M_CLIENT_CONNECT_STATUS")
    BY <1>4 DEF LSClientDisconnected
  <2>2. PICK fails \in BOOLEAN :
          /\ Queries(fails)
          /\ dbOnline' = [dbOnline EXCEPT ![u] = OnlineAfterLogoff(u, s, fails)]
          /\ nPlayers' = PlayersAfterLogoff(u, s, fails)
          /\ IF abnormal[u] THEN SendShardListToSS(u)
             ELSE /\ current' = [current EXCEPT ![u] = NoShard]
                  /\ UNCHANGED <<changeReq, loginCookie, waiting, infoCur, dbCur>>
          /\ abnormal' = [abnormal EXCEPT ![u] = FALSE]
          /\ moving' = [moving EXCEPT ![u] = IF home THEN away ELSE @]
          /\ Receive(s, LS, out)
    BY <1>4 DEF LSClientDisconnected
  <2>3. u \in Users /\ NetTyped /\ <<s, LS>> \in Links
    BY <1>0, <2>1, LSHeadTyped
  <2>4. cur \in ShardOrNone /\ MainShard[u] \in ShardOrNone
    BY <2>3, NetIsTyped, NullsTyped DEF LSTyped, LSTypeOK, LoadedShard
  <2>5. NetTyped'
    <3>1. out \in Outbox
      <4> HIDE DEF u, cur, home
      <4> QED
        BY <2>3, <2>4, LogoffOutboxTyped, MoveRequestTyped, SilentTyped, JoinTyped
    <3> HIDE DEF out
    <3> QED
      BY <2>1, <2>2, <2>3, <3>1, ReceiveTyped
  <2>6. /\ dbOnline' \in [Users -> ShardOrNone] /\ nPlayers' \in [Shards -> Nat]
        /\ dbFaults' \in Nat
    <3> HIDE DEF u, out
    <3> QED
      BY <2>2, <2>3, AfterLogoffTyped, NetIsTyped, QueriesTyped DEF LSTyped
  <2>7. abnormal' \in [Users -> BOOLEAN] /\ moving' \in [Users -> Move]
    <3>1. away \in Move
      BY <2>4, NullsTyped DEF Move
    <3> HIDE DEF u, out, away, home
    <3> QED
      BY <2>2, <3>1 DEF LSTyped, LSTypeOK
  <2>8. /\ changeReq' \in [Users -> Place] /\ loginCookie' \in [Users -> Cookie]
        /\ current' \in [Users -> ShardOrNone] /\ waiting' \in [Users -> Place]
        /\ infoCur' \in [Users -> ShardOrNone] /\ dbCur' \in [Users -> ShardOrNone]
    <3> HIDE DEF u, out, away, home
    <3>1. CASE ResetSession(u) /\ LoadUserInfo(u)
      BY <2>3, <3>1, ResetSessionTyped, LoadUserInfoTyped DEF LSTyped
    <3>2. CASE /\ current' = [current EXCEPT ![u] = NoShard]
               /\ UNCHANGED <<changeReq, loginCookie, waiting, infoCur, dbCur>>
      BY <3>2, NetIsTyped, NullsTyped DEF LSTyped, LSTypeOK
    <3> QED
      BY <2>2, <3>1, <3>2 DEF SendShardListToSS
  <2>9. QED
    BY <1>4, <2>5, <2>6, <2>7, <2>8
       DEF LSClientDisconnected, LSTyped, LSTypeOK, NetTypeOK, NetTyped
<1>5. CASE LSClientHandedOver(s)
  <2> DEFINE w == waiting[u]
             out == LogoffOutbox(u) \oplus AdmitOutbox(u, w.s, w.f, 0)
  <2>1. Pending(s, LS, "M_CLIENT_CONNECT_STATUS")
    BY <1>5 DEF LSClientHandedOver
  <2>2. PICK failsOut \in BOOLEAN, failsIn \in BOOLEAN :
          /\ Queries(failsOut \/ failsIn)
          /\ waiting' = [waiting EXCEPT ![u] = Nowhere]
          /\ Admit(u, w.s, w.f, 0, OnlineAfterLogoff(u, s, failsOut),
                   PlayersAfterLogoff(u, s, failsOut), failsIn)
          /\ Receive(s, LS, out)
    BY <1>5 DEF LSClientHandedOver
  <2>3. u \in Users /\ NetTyped /\ <<s, LS>> \in Links
    BY <1>0, <2>1, LSHeadTyped
  <2>4. w.s \in ShardOrNone /\ w.f \in FesOrNone
    <3>1. w \in Place
      BY <2>3 DEF LSTyped, LSTypeOK
    <3>2. QED
      BY <3>1 DEF Place
  <2>5. NetTyped'
    <3>1. out \in Outbox
      <4> HIDE DEF u, w
      <4> QED
        BY <2>3, <2>4, LogoffOutboxTyped, AdmitOutboxTyped, JoinTyped DEF LSTyped
    <3> HIDE DEF out
    <3> QED
      BY <2>1, <2>2, <2>3, <3>1, ReceiveTyped
  <2>6. /\ dbOnline' \in [Users -> ShardOrNone] /\ nPlayers' \in [Shards -> Nat]
        /\ tempCookie' \in [Users -> ShardOrNone] /\ current' \in [Users -> ShardOrNone]
        /\ moving' \in [Users -> Move]
    <3>1. /\ OnlineAfterLogoff(u, s, failsOut) \in ShardOrNone
          /\ PlayersAfterLogoff(u, s, failsOut) \in [Shards -> Nat]
      BY <2>3, AfterLogoffTyped
    <3> HIDE DEF u, w, out
    <3> QED
      BY <2>2, <2>3, <2>4, <3>1, AdmitTyped
  <2>7. waiting' \in [Users -> Place] /\ dbFaults' \in Nat
    <3> HIDE DEF u, w, out
    <3>1. (failsOut \/ failsIn) \in BOOLEAN
      OBVIOUS
    <3>2. dbFaults' \in Nat
      BY <2>2, <3>1, QueriesTyped, NetIsTyped DEF LSTyped
    <3> QED
      BY <2>2, <3>2, NullsTyped DEF LSTyped, LSTypeOK
  <2>8. QED
    BY <1>5, <2>5, <2>6, <2>7
       DEF LSClientHandedOver, LSTyped, LSTypeOK, NetTypeOK, NetTyped
<1>6. QED
  BY <1>1, <1>2, <1>3, <1>4, <1>5

(* Every step of the LS keeps the types. *)
LEMMA LSNextTyped ==
  ASSUME LSTyped, LSNext
  PROVE  LSTyped'
<1>1. ASSUME NEW u \in Users, LSMoveTimeout(u)
      PROVE  LSTyped'
  BY <1>1, NullsTyped
     DEF LSMoveTimeout, LSTyped, LSTypeOK, NetTypeOK, netVars, dbVars
<1>2. QED
  BY <1>1, LSFromSSTyped, LSAnswersTyped, LSSessionsTyped DEF LSNext

-----------------------------------------------------------------------------
(* Every step of the LS keeps WaitsForAnotherShard. *)

(* A session that starts over waits for nothing. *)
LEMMA ResetSessionKeepsWaiting ==
  ASSUME LSTyped, WaitsForAnotherShard, NEW u \in Users, ResetSession(u)
  PROVE  WaitsForAnotherShard'
BY DEF LSTyped, LSTypeOK, WaitsForAnotherShard, ResetSession

(* No step of the LS leaves a session waiting for its own shard or for     *)
(* none.                                                                   *)
LEMMA LSNextKeepsWaiting ==
  ASSUME LSTyped, WaitsForAnotherShard, LSNext
  PROVE  WaitsForAnotherShard'
<1>1. CASE UNCHANGED <<current, waiting>>
  BY <1>1 DEF WaitsForAnotherShard
<1>2. CASE LSShardsList
  <2>1. /\ Pending(SS, LS, "M_SC_SHARDS") /\ SS \in Shards \cup {SS}
        /\ ResetSession(Head(net[<<SS, LS>>]).u)
    BY <1>2 DEF LSShardsList, SendShardListToSS
  <2>2. QED
    BY <2>1, LSHeadTyped, ResetSessionKeepsWaiting
<1>3. ASSUME NEW s \in Shards, LSReviseLogoff(s)
      PROVE  WaitsForAnotherShard'
  <2>1. Pending(s, LS, "M_LS_RELOGOFF")
        /\ (ResetSession(Head(net[<<s, LS>>]).u) \/ UNCHANGED <<current, waiting>>)
    BY <1>3 DEF LSReviseLogoff, SendShardListToSS
  <2>2. QED
    BY <1>1, <2>1, LSHeadTyped, ResetSessionKeepsWaiting
<1>4. ASSUME NEW s \in Shards, LSClientMustWait(s)
      PROVE  WaitsForAnotherShard'
  <2> DEFINE m == Head(net[<<s, LS>>])
  <2>1. /\ Pending(s, LS, "M_CLIENT_CONNECT_STATUS")
        /\ current[m.u] \notin {NoShard, s}
        /\ waiting' = [waiting EXCEPT ![m.u] =
                         IF @ = Nowhere THEN [s |-> s, f |-> m.fsSid] ELSE @]
        /\ current' = current
    BY <1>4 DEF LSClientMustWait, OnAnotherShard
  <2>2. m.u \in Users
    BY <2>1, LSHeadTyped
  <2> HIDE DEF m
  <2>3. QED
    BY <2>1, <2>2 DEF LSTyped, LSTypeOK, WaitsForAnotherShard
<1>5. ASSUME NEW s \in Shards, LSClientConnected(s)
      PROVE  WaitsForAnotherShard'
  <2> DEFINE u == Head(net[<<s, LS>>]).u
  <2>1. /\ Pending(s, LS, "M_CLIENT_CONNECT_STATUS")
        /\ current[u] \in {NoShard, s}
        /\ current' = [current EXCEPT ![u] = s]
        /\ waiting' = waiting
    BY <1>5 DEF LSClientConnected, OnAnotherShard, Admit
  <2>2. u \in Users
    BY <2>1, LSHeadTyped
  <2> HIDE DEF u
  <2>3. QED
    BY <2>1, <2>2 DEF LSTyped, LSTypeOK, WaitsForAnotherShard
<1>6. ASSUME NEW s \in Shards, LSClientDisconnected(s)
      PROVE  WaitsForAnotherShard'
  <2> DEFINE u == Head(net[<<s, LS>>]).u
  <2>1. /\ Pending(s, LS, "M_CLIENT_CONNECT_STATUS")
        /\ \/ ResetSession(u)
           \/ /\ waiting[u] = Nowhere
              /\ current' = [current EXCEPT ![u] = NoShard]
              /\ waiting' = waiting
    BY <1>6 DEF LSClientDisconnected, NobodyWaits, SendShardListToSS
  <2>2. u \in Users
    BY <2>1, LSHeadTyped
  <2> HIDE DEF u
  <2>3. QED
    BY <2>1, <2>2, ResetSessionKeepsWaiting DEF LSTyped, LSTypeOK, WaitsForAnotherShard
<1>7. ASSUME NEW s \in Shards, LSClientHandedOver(s)
      PROVE  WaitsForAnotherShard'
  <2> DEFINE u == Head(net[<<s, LS>>]).u
  <2>1. /\ Pending(s, LS, "M_CLIENT_CONNECT_STATUS")
        /\ waiting' = [waiting EXCEPT ![u] = Nowhere]
        /\ current' = [current EXCEPT ![u] = waiting[u].s]
    BY <1>7 DEF LSClientHandedOver, Admit
  <2>2. u \in Users
    BY <2>1, LSHeadTyped
  <2> HIDE DEF u
  <2>3. QED
    BY <2>1, <2>2 DEF LSTyped, LSTypeOK, WaitsForAnotherShard
<1>8. \/ LSShardsList
      \/ \E s \in Shards : \/ LSReviseLogoff(s) \/ LSClientMustWait(s)
                           \/ LSClientConnected(s) \/ LSClientDisconnected(s)
                           \/ LSClientHandedOver(s)
      \/ UNCHANGED <<current, waiting>>
  BY DEF LSNext, LSChooseShardRefused, LSChooseShard, LSDisconnectClient,
         LSForceLogoff, LSShardAnswer, LSRemovedPendingCookie, LSChangeShardReq,
         LSMoveDataEnd, LSMoveTimeout, lsVars
<1>9. QED
  BY <1>1, <1>2, <1>3, <1>4, <1>5, <1>6, <1>7, <1>8

-----------------------------------------------------------------------------
(* Every step of the LS keeps PlayersCounted as long as no query fails.    *)

(* The users a record d of the main database has on shard s. *)
RecordedOn(d, s) == {v \in Users : d[v] = s}
Counted(d, np) == \A s \in Shards : Cardinality(RecordedOn(d, s)) <= np[s]

(* Recording user u on x takes it off where it was and puts it on x.       *)
LEMMA RecordOne ==
  ASSUME IsFiniteSet(Users), NEW d \in [Users -> ShardOrNone], NEW u \in Users,
         NEW x \in ShardOrNone, NEW s \in Shards
  PROVE  LET was == Cardinality(RecordedOn(d, s))
             is  == Cardinality(RecordedOn([d EXCEPT ![u] = x], s))
         IN  /\ was \in Nat /\ is \in Nat
             /\ d[u] # s /\ x = s => is = was + 1
             /\ d[u] = s /\ x # s => is = was - 1
             /\ (d[u] = s <=> x = s) => is = was
<1> DEFINE e == [d EXCEPT ![u] = x]
           D == RecordedOn(d, s)
           E == RecordedOn(e, s)
<1>1. IsFiniteSet(D) /\ IsFiniteSet(E)
  BY FS_Subset DEF RecordedOn
<1>2. Cardinality(D) \in Nat /\ Cardinality(E) \in Nat
  BY <1>1, FS_CardinalityType
<1>3. /\ D \subseteq Users /\ E \subseteq Users
      /\ (u \in D <=> d[u] = s) /\ (u \in E <=> x = s)
      /\ D \ {u} = E \ {u}
  BY DEF RecordedOn
<1>4. ASSUME d[u] # s, x = s
      PROVE  Cardinality(E) = Cardinality(D) + 1
  <2>1. E = D \cup {u} /\ u \notin D
    BY <1>3, <1>4
  <2>2. QED
    BY <1>1, <2>1, FS_AddElement
<1>5. ASSUME d[u] = s, x # s
      PROVE  Cardinality(E) = Cardinality(D) - 1
  <2>1. E = D \ {u} /\ u \in D
    BY <1>3, <1>5
  <2>2. QED
    BY <1>1, <2>1, FS_RemoveElement
<1>6. ASSUME d[u] = s <=> x = s
      PROVE  D = E
  <2>1. \A v \in Users : (v \in D <=> d[v] = s) /\ (v \in E <=> e[v] = s)
    BY DEF RecordedOn
  <2>2. \A v \in Users : e[v] = s <=> d[v] = s
    BY <1>6
  <2>3. QED
    BY <1>3, <2>1, <2>2
<1>7. QED
  BY <1>2, <1>4, <1>5, <1>6

(* An entry records and counts a user together: counts that were enough    *)
(* stay enough.                                                            *)
LEMMA AdmitCounts ==
  ASSUME IsFiniteSet(Users), NEW d \in [Users -> ShardOrNone],
         NEW np \in [Shards -> Nat], Counted(d, np), NEW u \in Users,
         NEW s \in ShardOrNone, NEW f, NEW con, NEW fails,
         Admit(u, s, f, con, d[u], np, fails)
  PROVE  \E x \in ShardOrNone :
           dbOnline' = [dbOnline EXCEPT ![u] = x] /\ Counted([d EXCEPT ![u] = x], nPlayers')
<1>1. CASE LoginResult(d[u], s, fails) = "ERR_NOERR"
  <2>1. /\ d[u] = NoShard
        /\ dbOnline' = [dbOnline EXCEPT ![u] = s]
        /\ nPlayers' = [np EXCEPT ![s] = @ + 1]
    BY <1>1 DEF Admit, LoginResult
  <2>2. ASSUME NEW t \in Shards
        PROVE  Cardinality(RecordedOn([d EXCEPT ![u] = s], t)) <= nPlayers'[t]
    <3>1. d[u] # t
      BY <2>1, NullsDistinct
    <3>2. Cardinality(RecordedOn(d, t)) <= np[t] /\ np[t] \in Nat
      BY DEF Counted
    <3>3. nPlayers'[t] = IF t = s THEN np[t] + 1 ELSE np[t]
      BY <2>1
    <3>4. /\ Cardinality(RecordedOn(d, t)) \in Nat
          /\ Cardinality(RecordedOn([d EXCEPT ![u] = s], t))
               = IF t = s THEN Cardinality(RecordedOn(d, t)) + 1
                          ELSE Cardinality(RecordedOn(d, t))
      BY <3>1, RecordOne
    <3>5. QED
      BY <3>2, <3>3, <3>4
  <2>3. QED
    BY <2>1, <2>2 DEF Counted
<1>2. CASE LoginResult(d[u], s, fails) # "ERR_NOERR"
  <2>1. dbOnline' = [dbOnline EXCEPT ![u] = d[u]] /\ nPlayers' = np
    BY <1>2 DEF Admit
  <2>2. [d EXCEPT ![u] = d[u]] = d /\ d[u] \in ShardOrNone
    OBVIOUS
  <2>3. QED
    BY <2>1, <2>2
<1>3. QED
  BY <1>1, <1>2

(* A logoff takes a user off the record and off the count together. *)
LEMMA LogoffCounts ==
  ASSUME IsFiniteSet(Users), LSTyped, PlayersCounted,
         NEW u \in Users, NEW s \in Shards
  PROVE  Counted([dbOnline EXCEPT ![u] = OnlineAfterLogoff(u, s, FALSE)],
                 PlayersAfterLogoff(u, s, FALSE))
<1>1. /\ dbOnline \in [Users -> ShardOrNone] /\ nPlayers \in [Shards -> Nat]
      /\ Counted(dbOnline, nPlayers)
  BY NetIsTyped DEF LSTyped, LSTypeOK, PlayersCounted, Counted, RecordedOn
<1>2. CASE dbOnline[u] = s
  <2>1. LogoffResult(dbOnline[u], s, FALSE) = "ERR_NOERR"
    BY <1>2, NullsDistinct DEF LogoffResult
  <2>2. OnlineAfterLogoff(u, s, FALSE) = NoShard
    BY <2>1 DEF OnlineAfterLogoff
  <2>3. PlayersAfterLogoff(u, s, FALSE) =
          IF nPlayers[s] > 0 THEN [nPlayers EXCEPT ![s] = @ - 1] ELSE nPlayers
    BY <2>1 DEF PlayersAfterLogoff
  <2>4. ASSUME NEW t \in Shards
        PROVE  Cardinality(RecordedOn([dbOnline EXCEPT ![u] = NoShard], t))
                 <= PlayersAfterLogoff(u, s, FALSE)[t]
    <3>1. NoShard # t /\ NoShard \in ShardOrNone
      BY NullsDistinct, NullsTyped
    <3>2. Cardinality(RecordedOn(dbOnline, t)) <= nPlayers[t] /\ nPlayers[t] \in Nat
      BY <1>1 DEF Counted
    <3>3. CASE t = s
      <4> DEFINE was == Cardinality(RecordedOn(dbOnline, t))
                 is  == Cardinality(RecordedOn([dbOnline EXCEPT ![u] = NoShard], t))
                 left == PlayersAfterLogoff(u, s, FALSE)[t]
      <4>0. was <= nPlayers[t] /\ nPlayers[t] \in Nat
        BY <3>2
      <4>1. is = was - 1 /\ was \in Nat /\ is \in Nat
        BY <1>1, <1>2, <3>1, <3>3, RecordOne
      <4>2. nPlayers[t] > 0
        BY <4>0, <4>1
      <4>3. left = nPlayers[t] - 1
        BY <1>1, <2>3, <3>3, <4>2
      <4>4. is <= left
        <5> HIDE DEF was, is, left
        <5> QED
          BY <4>0, <4>1, <4>3
      <4>5. QED
        BY <4>4
    <3>4. CASE t # s
      <4>1. Cardinality(RecordedOn([dbOnline EXCEPT ![u] = NoShard], t))
              = Cardinality(RecordedOn(dbOnline, t))
        BY <1>1, <1>2, <3>1, <3>4, RecordOne
      <4>2. PlayersAfterLogoff(u, s, FALSE)[t] = nPlayers[t]
        BY <1>1, <2>3, <3>4
      <4>3. QED
        BY <3>2, <4>1, <4>2
    <3>5. QED
      BY <3>3, <3>4
  <2>5. QED
    BY <2>2, <2>4 DEF Counted
<1>3. CASE dbOnline[u] # s
  <2>1. LogoffResult(dbOnline[u], s, FALSE) \notin {"ERR_NOERR", "E_DBERR"}
    BY <1>3 DEF LogoffResult
  <2>2. /\ OnlineAfterLogoff(u, s, FALSE) = dbOnline[u]
        /\ PlayersAfterLogoff(u, s, FALSE) = nPlayers
    BY <2>1 DEF OnlineAfterLogoff, PlayersAfterLogoff
  <2>3. [dbOnline EXCEPT ![u] = dbOnline[u]] = dbOnline
    BY <1>1
  <2>4. QED
    BY <1>1, <2>2, <2>3
<1>4. QED
  BY <1>2, <1>3

(* Without database faults every query succeeds. *)
LEMMA NoFault ==
  ASSUME MaxDbFaults = 0, dbFaults \in Nat, NEW failed \in BOOLEAN, Queries(failed)
  PROVE  failed = FALSE
BY DEF Queries

(* Counted, of the next state, is PlayersCounted in the next state. *)
LEMMA CountedIsPlayersCounted == PlayersCounted' <=> Counted(dbOnline', nPlayers')
BY DEF PlayersCounted, Counted, RecordedOn

(* No step of the LS leaves more users recorded on a shard than counted. *)
LEMMA LSNextKeepsCount ==
  ASSUME IsFiniteSet(Users), MaxDbFaults = 0, LSTyped, PlayersCounted, LSNext
  PROVE  PlayersCounted'
<1>0. /\ dbOnline \in [Users -> ShardOrNone] /\ nPlayers \in [Shards -> Nat]
      /\ Counted(dbOnline, nPlayers) /\ dbFaults \in Nat
  BY NetIsTyped DEF LSTyped, LSTypeOK, PlayersCounted, Counted, RecordedOn
<1>1. CASE UNCHANGED <<dbOnline, nPlayers>>
  BY <1>1 DEF PlayersCounted
<1>2. ASSUME NEW s \in Shards, LSReviseLogoff(s)
      PROVE  PlayersCounted'
  <2> DEFINE u == Head(net[<<s, LS>>]).u
  <2>1. /\ Pending(s, LS, "M_LS_RELOGOFF") /\ nPlayers' = nPlayers
        /\ \/ dbOnline' = [dbOnline EXCEPT ![u] = NoShard]
           \/ dbOnline' = [dbOnline EXCEPT ![u] = dbOnline[u]]
    BY <1>2 DEF LSReviseLogoff
  <2>2. u \in Users
    BY <2>1, LSHeadTyped
  <2> HIDE DEF u
  <2>3. CASE dbOnline' = [dbOnline EXCEPT ![u] = NoShard]
    <3>1. ASSUME NEW t \in Shards
          PROVE  Cardinality(RecordedOn(dbOnline', t)) <= nPlayers'[t]
      <4> DEFINE was == Cardinality(RecordedOn(dbOnline, t))
                 is  == Cardinality(RecordedOn(dbOnline', t))
      <4>1. /\ was <= nPlayers[t] /\ nPlayers[t] \in Nat /\ nPlayers'[t] = nPlayers[t]
        BY <1>0, <2>1 DEF Counted
      <4>2. NoShard # t /\ NoShard \in ShardOrNone
        BY NullsDistinct, NullsTyped
      <4>3. was \in Nat /\ is \in Nat /\ (is = was - 1 \/ is = was)
        BY <1>0, <2>2, <2>3, <4>2, RecordOne
      <4>4. is <= nPlayers'[t]
        <5> HIDE DEF was, is
        <5> QED
          BY <4>1, <4>3
      <4>5. QED
        BY <4>4
    <3>2. QED
      BY <3>1, CountedIsPlayersCounted DEF Counted
  <2>4. CASE dbOnline' = [dbOnline EXCEPT ![u] = dbOnline[u]]
    BY <1>0, <1>1, <2>1, <2>4
  <2>5. QED
    BY <2>1, <2>3, <2>4
<1>3. ASSUME NEW s \in Shards, LSClientConnected(s)
      PROVE  PlayersCounted'
  <2> DEFINE m == Head(net[<<s, LS>>])
  <2>1. /\ Pending(s, LS, "M_CLIENT_CONNECT_STATUS")
        /\ \E fails \in BOOLEAN : Admit(m.u, s, m.fsSid, 1, dbOnline[m.u], nPlayers, fails)
    BY <1>3 DEF LSClientConnected
  <2>2. m.u \in Users /\ s \in ShardOrNone
    BY <2>1, LSHeadTyped, NullsTyped
  <2> HIDE DEF m
  <2>3. \E x \in ShardOrNone : /\ dbOnline' = [dbOnline EXCEPT ![m.u] = x]
                               /\ Counted([dbOnline EXCEPT ![m.u] = x], nPlayers')
    BY <1>0, <2>1, <2>2, AdmitCounts
  <2>4. QED
    BY <2>3, CountedIsPlayersCounted
<1>4. ASSUME NEW s \in Shards, LSClientDisconnected(s)
      PROVE  PlayersCounted'
  <2> DEFINE u == Head(net[<<s, LS>>]).u
  <2>1. Pending(s, LS, "M_CLIENT_CONNECT_STATUS")
    BY <1>4 DEF LSClientDisconnected
  <2>2. PICK fails \in BOOLEAN :
          /\ Queries(fails)
          /\ dbOnline' = [dbOnline EXCEPT ![u] = OnlineAfterLogoff(u, s, fails)]
          /\ nPlayers' = PlayersAfterLogoff(u, s, fails)
    BY <1>4 DEF LSClientDisconnected
  <2>3. u \in Users
    BY <2>1, LSHeadTyped
  <2>4. fails = FALSE
    BY <1>0, <2>2, NoFault
  <2> HIDE DEF u
  <2>5. Counted([dbOnline EXCEPT ![u] = OnlineAfterLogoff(u, s, FALSE)],
                PlayersAfterLogoff(u, s, FALSE))
    BY <2>3, LogoffCounts
  <2>6. QED
    BY <2>2, <2>4, <2>5, CountedIsPlayersCounted
<1>5. ASSUME NEW s \in Shards, LSClientHandedOver(s)
      PROVE  PlayersCounted'
  <2> DEFINE u == Head(net[<<s, LS>>]).u
             w == waiting[u]
  <2>1. Pending(s, LS, "M_CLIENT_CONNECT_STATUS")
    BY <1>5 DEF LSClientHandedOver
  <2>2. PICK failsOut \in BOOLEAN, failsIn \in BOOLEAN :
          /\ Queries(failsOut \/ failsIn)
          /\ Admit(u, w.s, w.f, 0, OnlineAfterLogoff(u, s, failsOut),
                   PlayersAfterLogoff(u, s, failsOut), failsIn)
    BY <1>5 DEF LSClientHandedOver
  <2>3. u \in Users
    BY <2>1, LSHeadTyped
  <2>4. failsOut = FALSE
    BY <1>0, <2>2, NoFault
  <2>5. w.s \in ShardOrNone
    <3>1. w \in Place
      BY <2>3 DEF LSTyped, LSTypeOK
    <3>2. QED
      BY <3>1 DEF Place
  <2> DEFINE o == OnlineAfterLogoff(u, s, FALSE)
             d == [dbOnline EXCEPT ![u] = o]
             np == PlayersAfterLogoff(u, s, FALSE)
  <2>6. o \in ShardOrNone /\ np \in [Shards -> Nat] /\ Counted(d, np)
    BY <2>3, AfterLogoffTyped, LogoffCounts
  <2>7. d \in [Users -> ShardOrNone] /\ d[u] = o
    <3> HIDE DEF u, o
    <3> QED
      BY <1>0, <2>3, <2>6
  <2>8. Admit(u, w.s, w.f, 0, d[u], np, failsIn)
    <3> HIDE DEF u, w, d
    <3> QED
      BY <2>2, <2>4, <2>7
  <2>9. PICK x \in ShardOrNone : /\ dbOnline' = [dbOnline EXCEPT ![u] = x]
                                 /\ Counted([d EXCEPT ![u] = x], nPlayers')
    <3> HIDE DEF u, w, d, np, o
    <3> QED
      BY <2>3, <2>5, <2>6, <2>7, <2>8, AdmitCounts
  <2>10. [d EXCEPT ![u] = x] = [dbOnline EXCEPT ![u] = x]
    <3> HIDE DEF u, o
    <3> QED
      BY <1>0, <2>3
  <2>11. QED
    <3> HIDE DEF u, o, d
    <3> QED
      BY <2>9, <2>10, CountedIsPlayersCounted
<1>6. \/ \E s \in Shards : \/ LSReviseLogoff(s) \/ LSClientConnected(s)
                           \/ LSClientDisconnected(s) \/ LSClientHandedOver(s)
      \/ UNCHANGED <<dbOnline, nPlayers>>
  BY DEF LSNext, LSShardsList, LSChooseShardRefused, LSChooseShard,
         LSDisconnectClient, LSForceLogoff, LSShardAnswer, LSRemovedPendingCookie,
         LSClientMustWait, LSChangeShardReq, LSMoveDataEnd, LSMoveTimeout, lsVars, dbVars
<1>7. QED
  BY <1>1, <1>2, <1>3, <1>4, <1>5, <1>6

-----------------------------------------------------------------------------
(* The welcome services.                                                   *)

WSTyped == NetTyped /\ dbFaults \in Nat /\ WSTypeOK

(* The null values and the homes of the front ends are typed. *)
LEMMA WSNulls == /\ NoCookie \in Cookie /\ NoShard \in ShardOrNone /\ NoFes \in FesOrNone
                 /\ Fess \subseteq FesOrNone /\ Shards \subseteq ShardOrNone
                 /\ \A f \in Fess : ShardOf[f] \in Shards
BY PlacesOK DEF NoCookie, Cookie, ShardOrNone, FesOrNone

WSKinds == {"M_CLIENT_DISCONNECT", "M_CLIENT_CONNECT_STATUS", "M_LS_RELOGOFF",
            "M_NT_SEND_USER_DATA", "M_NT_MOVE_USER_DATA_END"}

(* Messages the WS makes itself. *)
LEMMA WSMsgTyped ==
  ASSUME NEW kind \in WSKinds, NEW u \in Users, NEW v \in Nat
  PROVE  Msg(kind, u) \in Message /\ [Msg(kind, u) EXCEPT !.v = v] \in Message
<1>1. kind \in Kinds \ Answers
  BY DEF WSKinds, Kinds, Answers
<1>2. QED
  BY <1>1, MsgTyped, WSNulls

(* A counter that is only decremented when it is not zero stays a number. *)
LEMMA DecrementTyped == \A n \in Nat : Decrement(n) \in Nat
BY DEF Decrement

(* Queueing a query keeps the queues typed. *)
LEMMA JobTyped ==
  ASSUME WSTypeOK, NEW s \in Shards, NEW u \in Users, NEW to \in ShardOrNone,
         NEW job \in {"FamilyLogout", "ForcedLogout", "GetUserMoveData"}
  PROVE  Queued(s, job, u, to) \in [Shards -> Seq(Job)]
<1>1. [job |-> job, u |-> u, to |-> to] \in Job
  BY DEF Job
<1>2. jobs[s] \in Seq(Job) /\ jobs \in [Shards -> Seq(Job)]
  BY DEF WSTypeOK
<1>3. Append(jobs[s], [job |-> job, u |-> u, to |-> to]) \in Seq(Job)
  BY <1>1, <1>2, AppendProperties
<1>4. QED
  BY <1>2, <1>3 DEF Queued

(* Telling the front end of a session to close it is an outbox. *)
LEMMA DisconnectClientTyped ==
  ASSUME NEW s, NEW u \in Users
  PROVE  DisconnectClient(s, u) \in Outbox
<1>1. Msg("M_CLIENT_DISCONNECT", u) \in Message
  BY WSMsgTyped DEF WSKinds
<1>2. QED
  BY <1>1, SilentTyped, ToTyped DEF DisconnectClient

(* LogoffClient keeps the counters, the associations and the queries       *)
(* typed.                                                                  *)
LEMMA LogoffClientTyped ==
  ASSUME WSTypeOK, NEW f \in Fess, NEW u \in Users, LogoffClient(f, u)
  PROVE  /\ nbUser' \in [Fess -> Nat]
         /\ wsAssoc' \in [Shards -> [Users -> FesOrNone]]
         /\ jobs' \in [Shards -> Seq(Job)]
<1>1. nbUser' \in [Fess -> Nat]
  BY DecrementTyped DEF LogoffClient, WSTypeOK
<1>2. wsAssoc' \in [Shards -> [Users -> FesOrNone]]
  BY WSNulls DEF LogoffClient, WSTypeOK
<1>3. jobs' \in [Shards -> Seq(Job)]
  BY JobTyped, WSNulls DEF LogoffClient
<1>4. QED
  BY <1>1, <1>2, <1>3

(* A message for a WS, and what is known of it. *)
LEMMA WSHeadTyped ==
  ASSUME WSTyped, NEW src, NEW s \in Shards, <<src, s>> \in Links,
         NEW kind, Pending(src, s, kind)
  PROVE  LET m == Head(net[<<src, s>>])
         IN  /\ m \in Message /\ m.kind = kind
             /\ m.u \in Users /\ m.s \in ShardOrNone /\ m.v \in Nat
<1>1. Head(net[<<src, s>>]) \in Message /\ Head(net[<<src, s>>]).kind = kind
  BY PendingTyped DEF WSTyped
<1>2. QED
  BY <1>1, MessageIs

-----------------------------------------------------------------------------

(* What a WS does with a message of a front end keeps the types. *)
LEMMA WSFromFESTyped ==
  ASSUME WSTyped, NEW f \in Fess,
         WSShardAnswer(f) \/ WSLoginClient(f) \/ WSLogoffClient(f)
           \/ WSRemovedPendingCookie(f) \/ WSChangeShardReq(f)
  PROVE  WSTyped'
<1> DEFINE s == ShardOf[f]
           m == Head(net[<<f, s>>])
<1>0. s \in Shards /\ <<f, s>> \in Links /\ NetTyped
  BY LinksAre, WSNulls DEF WSTyped
<1>1. CASE WSShardAnswer(f)
  <2>1. Pending(f, s, "M_ENTER_SHARD_ANSWER") /\ Receive(f, s, To(LS, m))
    BY <1>1 DEF WSShardAnswer
  <2>2. m \in Message
    BY <1>0, <2>1, WSHeadTyped
  <2>3. NetTyped'
    BY <1>0, <2>1, <2>2, ToTyped, ReceiveTyped
  <2>4. QED
    BY <1>1, <2>3 DEF WSShardAnswer, WSTyped, WSTypeOK, wsVars
<1>2. CASE WSLoginClient(f)
  <2>1. Pending(f, s, "M_CLIENT_CONNECT_STATUS")
    BY <1>2 DEF WSLoginClient
  <2>2. m \in Message /\ m.u \in Users /\ m.kind = "M_CLIENT_CONNECT_STATUS"
    BY <1>0, <2>1, WSHeadTyped
  <2>3. PICK fails \in BOOLEAN :
          /\ Queries(fails)
          /\ IF fails
             THEN /\ LogoffClient(f, m.u)
                  /\ UNCHANGED nbPending
                  /\ Receive(f, s, To(f, Msg("M_CLIENT_DISCONNECT", m.u)))
             ELSE /\ nbUser' = [nbUser EXCEPT ![f] = @ + 1]
                  /\ nbPending' = [nbPending EXCEPT ![f] = Decrement(@)]
                  /\ wsAssoc' = [wsAssoc EXCEPT ![s][m.u] = IF @ = NoFes THEN f ELSE @]
                  /\ UNCHANGED jobs
                  /\ Receive(f, s, To(LS, [m EXCEPT !.fsSid = f]))
    BY <1>2 DEF WSLoginClient
  <2>4. dbFaults' \in Nat
    BY <2>3, QueriesTyped DEF WSTyped
  <2>5. CASE fails
    <3>1. Msg("M_CLIENT_DISCONNECT", m.u) \in Message
      BY <2>2, WSMsgTyped DEF WSKinds
    <3>2. NetTyped'
      BY <1>0, <2>1, <2>3, <2>5, <3>1, ToTyped, ReceiveTyped
    <3>3. QED
      BY <1>2, <2>2, <2>3, <2>4, <2>5, <3>2, LogoffClientTyped
         DEF WSLoginClient, WSTyped, WSTypeOK
  <2>6. CASE ~fails
    <3>1. [m EXCEPT !.fsSid = f] \in Message
      <4> HIDE DEF m
      <4> QED
        BY <2>2, WSNulls DEF Message, Answers
    <3>2. NetTyped'
      BY <1>0, <2>1, <2>3, <2>6, <3>1, ToTyped, ReceiveTyped
    <3>3. /\ nbUser' = [nbUser EXCEPT ![f] = @ + 1]
          /\ nbPending' = [nbPending EXCEPT ![f] = Decrement(@)]
          /\ wsAssoc' = [wsAssoc EXCEPT ![s][m.u] = IF @ = NoFes THEN f ELSE @]
          /\ UNCHANGED jobs
      BY <2>3, <2>6
    <3>4. nbUser' \in [Fess -> Nat] /\ nbPending' \in [Fess -> Nat]
      <4> HIDE DEF s, m
      <4>1. nbUser \in [Fess -> Nat] /\ nbPending \in [Fess -> Nat]
        BY DEF WSTyped, WSTypeOK
      <4>2. nbUser[f] + 1 \in Nat /\ Decrement(nbPending[f]) \in Nat
        BY <4>1, DecrementTyped
      <4> QED
        BY <3>3, <4>1, <4>2
    <3>5. wsAssoc' \in [Shards -> [Users -> FesOrNone]]
      <4> HIDE DEF s, m
      <4>1. wsAssoc \in [Shards -> [Users -> FesOrNone]] /\ f \in FesOrNone
        BY WSNulls DEF WSTyped, WSTypeOK
      <4>2. wsAssoc[s] \in [Users -> FesOrNone]
        BY <1>0, <4>1
      <4>3. [wsAssoc[s] EXCEPT ![m.u] = IF @ = NoFes THEN f ELSE @] \in [Users -> FesOrNone]
        BY <2>2, <4>1, <4>2
      <4> QED
        BY <1>0, <3>3, <4>1, <4>3
    <3>6. QED
      BY <1>2, <2>4, <3>2, <3>3, <3>4, <3>5 DEF WSLoginClient, WSTyped, WSTypeOK
  <2>7. QED
    BY <2>5, <2>6
<1>3. CASE WSLogoffClient(f)
  <2>1. Pending(f, s, "M_CLIENT_CONNECT_STATUS") /\ LogoffClient(f, m.u)
        /\ Receive(f, s, Silent)
    BY <1>3 DEF WSLogoffClient
  <2>2. m.u \in Users
    BY <1>0, <2>1, WSHeadTyped
  <2>3. NetTyped'
    BY <1>0, <2>1, SilentTyped, ReceiveTyped
  <2>4. QED
    BY <1>3, <2>1, <2>2, <2>3, LogoffClientTyped DEF WSLogoffClient, WSTyped, WSTypeOK
<1>4. CASE WSRemovedPendingCookie(f)
  <2>1. Pending(f, s, "M_LOGIN_SERVER_RPC") /\ Receive(f, s, To(LS, m))
    BY <1>4 DEF WSRemovedPendingCookie
  <2>2. m \in Message
    BY <1>0, <2>1, WSHeadTyped
  <2>3. NetTyped'
    BY <1>0, <2>1, <2>2, ToTyped, ReceiveTyped
  <2>4. nbPending' \in [Fess -> Nat]
    BY <1>4, DecrementTyped DEF WSRemovedPendingCookie, WSTyped, WSTypeOK
  <2>5. QED
    BY <1>4, <2>3, <2>4 DEF WSRemovedPendingCookie, WSTyped, WSTypeOK
<1>5. CASE WSChangeShardReq(f)
  <2> DEFINE out == IF m.s = ShardOf[f] THEN Silent ELSE To(LS, [m EXCEPT !.fsSid = f])
  <2>1. Pending(f, s, "M_CS_CHANGE_SHARD_REQ") /\ Receive(f, s, out)
    BY <1>5 DEF WSChangeShardReq
  <2>2. m \in Message /\ m.kind = "M_CS_CHANGE_SHARD_REQ"
    BY <1>0, <2>1, WSHeadTyped
  <2>3. [m EXCEPT !.fsSid = f] \in Message
    <3> HIDE DEF m
    <3> QED
      BY <2>2, WSNulls DEF Message, Answers
  <2>4. NetTyped'
    BY <1>0, <2>1, <2>3, SilentTyped, ToTyped, ReceiveTyped
  <2>5. QED
    BY <1>5, <2>4 DEF WSChangeShardReq, WSTyped, WSTypeOK, wsVars
<1>6. QED
  BY <1>1, <1>2, <1>3, <1>4, <1>5

(* What a WS does with a message of the LS keeps the types. *)
LEMMA WSFromLSTyped ==
  ASSUME WSTyped, NEW s \in Shards,
         WSNoFrontend(s) \/ WSChooseShard(s) \/ WSDisconnectClient(s)
           \/ WSForceLogoff(s) \/ WSRelayToFES(s) \/ WSMoveUserDataReq(s)
  PROVE  WSTyped'
<1> DEFINE m == Head(net[<<LS, s>>])
<1>0. <<LS, s>> \in Links /\ NetTyped
  BY LinksAre DEF WSTyped
<1>1. CASE WSNoFrontend(s)
  <2> DEFINE ans == [m EXCEPT !.kind = "M_ENTER_SHARD_ANSWER", !.v = 1]
  <2>1. Pending(LS, s, "M_ENTER_SHARD_REQUEST") /\ Receive(LS, s, To(LS, ans))
    BY <1>1 DEF WSNoFrontend
  <2>2. m \in Message
    BY <1>0, <2>1, WSHeadTyped
  <2>3. ans \in Message
    <3> HIDE DEF m
    <3>1. "M_ENTER_SHARD_ANSWER" \in Kinds /\ 1 \in Nat \ {0}
      BY DEF Kinds
    <3> QED
      BY <2>2, <3>1, RefusalTyped
  <2>4. NetTyped'
    <3> HIDE DEF ans
    <3> QED
      BY <1>0, <2>1, <2>3, ToTyped, ReceiveTyped
  <2>5. QED
    BY <1>1, <2>4 DEF WSNoFrontend, WSTyped, WSTypeOK, wsVars
<1>2. CASE WSChooseShard(s)
  <2>1. Pending(LS, s, "M_ENTER_SHARD_REQUEST")
    BY <1>2 DEF WSChooseShard
  <2>2. PICK f \in Best(s) : /\ nbPending' = [nbPending EXCEPT ![f] = @ + 1]
                             /\ Receive(LS, s, To(f, m))
    BY <1>2 DEF WSChooseShard
  <2>3. m \in Message
    BY <1>0, <2>1, WSHeadTyped
  <2>4. NetTyped'
    BY <1>0, <2>1, <2>2, <2>3, ToTyped, ReceiveTyped
  <2>5. nbPending' \in [Fess -> Nat]
    BY <2>2 DEF WSTyped, WSTypeOK, Best, FesOf
  <2>6. QED
    BY <1>2, <2>4, <2>5 DEF WSChooseShard, WSTyped, WSTypeOK
<1>3. CASE WSDisconnectClient(s)
  <2>1. Pending(LS, s, "M_CLIENT_DISCONNECT")
        /\ Receive(LS, s, DisconnectClient(s, m.u))
    BY <1>3 DEF WSDisconnectClient
  <2>2. m.u \in Users
    BY <1>0, <2>1, WSHeadTyped
  <2>3. NetTyped'
    BY <1>0, <2>1, <2>2, DisconnectClientTyped, ReceiveTyped
  <2>4. QED
    BY <1>3, <2>3 DEF WSDisconnectClient, WSTyped, WSTypeOK, wsVars
<1>4. CASE WSForceLogoff(s)
  <2>1. Pending(LS, s, "M_NT_REQ_FORCE_LOGOFF")
        /\ Receive(LS, s, DisconnectClient(s, m.u))
        /\ jobs' = IF wsAssoc[s][m.u] # NoFes THEN jobs
                   ELSE Queued(s, "ForcedLogout", m.u, NoShard)
    BY <1>4 DEF WSForceLogoff
  <2>2. m.u \in Users
    BY <1>0, <2>1, WSHeadTyped
  <2>3. NetTyped'
    BY <1>0, <2>1, <2>2, DisconnectClientTyped, ReceiveTyped
  <2>4. jobs' \in [Shards -> Seq(Job)]
    BY <2>1, <2>2, JobTyped, WSNulls DEF WSTyped, WSTypeOK
  <2>5. QED
    BY <1>4, <2>3, <2>4 DEF WSForceLogoff, WSTyped, WSTypeOK
<1>5. CASE WSRelayToFES(s)
  <2> DEFINE out == IF m.fsSid = NoFes THEN Silent ELSE To(m.fsSid, m)
  <2>1. PICK kind \in {"M_ENTER__SHARD", "M_SC_CHANGE_SHARD_ANS"} : Pending(LS, s, kind)
    BY <1>5 DEF WSRelayToFES
  <2>2. Receive(LS, s, out)
    BY <1>5 DEF WSRelayToFES
  <2>3. m \in Message
    BY <1>0, <2>1, WSHeadTyped
  <2>4. NetTyped'
    BY <1>0, <2>1, <2>2, <2>3, SilentTyped, ToTyped, ReceiveTyped
  <2>5. QED
    BY <1>5, <2>4 DEF WSRelayToFES, WSTyped, WSTypeOK, wsVars
<1>6. CASE WSMoveUserDataReq(s)
  <2>1. Pending(LS, s, "M_NT_MOVE_USER_DATA_REQ") /\ Receive(LS, s, Silent)
        /\ jobs' = Queued(s, "GetUserMoveData", m.u, m.s)
    BY <1>6 DEF WSMoveUserDataReq
  <2>2. m.u \in Users /\ m.s \in ShardOrNone
    BY <1>0, <2>1, WSHeadTyped
  <2>3. NetTyped'
    BY <1>0, <2>1, SilentTyped, ReceiveTyped
  <2>4. jobs' \in [Shards -> Seq(Job)]
    BY <2>1, <2>2, JobTyped DEF WSTyped
  <2>5. QED
    BY <1>6, <2>3, <2>4 DEF WSMoveUserDataReq, WSTyped, WSTypeOK
<1>7. QED
  BY <1>1, <1>2, <1>3, <1>4, <1>5, <1>6

(* The end of a query keeps the types. *)
LEMMA WSQueryDoneTyped ==
  ASSUME WSTyped, NEW s \in Shards, WSQueryDone(s)
  PROVE  WSTyped'
<1> DEFINE q == jobs[s]
<1>1. PICK i \in DOMAIN q, fails \in BOOLEAN :
        /\ Queries(fails)
        /\ jobs' = [jobs EXCEPT ![s] = SubSeq(@, 1, i - 1) \o SubSeq(@, i + 1, Len(@))]
        /\ Emit(s, IF fails THEN Silent ELSE JobOutbox(s, q[i]))
  BY DEF WSQueryDone
<1>2. /\ q \in Seq(Job) /\ DOMAIN q = 1..Len(q) /\ Len(q) \in Nat
      /\ \A j \in 1..Len(q) : q[j] \in Job
  BY LenProperties, ElementOfSeq DEF WSTyped, WSTypeOK
<1>3. JobOutbox(s, q[i]) \in Outbox
  <2> DEFINE j == q[i]
  <2>1. j \in Job
    BY <1>2
  <2>2. /\ j.u \in Users
        /\ j.job \in {"FamilyLogout", "ForcedLogout", "GetUserMoveData"}
    BY <2>1 DEF Job
  <2>3. data[s][j.u] \in Nat
    BY <2>2 DEF WSTyped, WSTypeOK
  <2> HIDE DEF j
  <2>4. /\ Msg("M_CLIENT_CONNECT_STATUS", j.u) \in Message
        /\ Msg("M_LS_RELOGOFF", j.u) \in Message
        /\ [Msg("M_NT_SEND_USER_DATA", j.u) EXCEPT !.v = data[s][j.u]] \in Message
    BY <2>2, <2>3, WSMsgTyped DEF WSKinds
  <2>5. JobOutbox(s, j) \in Outbox
    BY <2>2, <2>4, ToTyped DEF JobOutbox
  <2>6. QED
    BY <2>5 DEF j
<1>4. NetTyped'
  BY <1>1, <1>3, SilentTyped, EmitTyped DEF WSTyped
<1>5. jobs' \in [Shards -> Seq(Job)]
  <2>1. i \in 1..Len(q)
    BY <1>2
  <2>2. SubSeq(q, 1, i - 1) \in Seq(Job) /\ SubSeq(q, i + 1, Len(q)) \in Seq(Job)
    BY <1>2, <2>1, SubSeqProperties
  <2>3. SubSeq(q, 1, i - 1) \o SubSeq(q, i + 1, Len(q)) \in Seq(Job)
    BY <2>2, ConcatProperties
  <2>4. QED
    BY <1>1, <2>3 DEF WSTyped, WSTypeOK
<1>6. dbFaults' \in Nat
  BY <1>1, QueriesTyped DEF WSTyped
<1>7. QED
  BY <1>4, <1>5, <1>6 DEF WSQueryDone, WSTyped, WSTypeOK

(* Every step of a WS keeps the types. *)
LEMMA WSNextTyped ==
  ASSUME WSTyped, WSNext
  PROVE  WSTyped'
<1>1. ASSUME NEW s \in Shards, NEW from \in Shards \ {s}, WSSendUserData(from, s)
      PROVE  WSTyped'
  <2> DEFINE m == Head(net[<<from, s>>])
  <2>1. <<from, s>> \in Links /\ NetTyped
    BY LinksAre DEF WSTyped
  <2>2. /\ Pending(from, s, "M_NT_SEND_USER_DATA")
        /\ data' = [data EXCEPT ![s][m.u] = m.v]
        /\ Receive(from, s, To(LS, Msg("M_NT_MOVE_USER_DATA_END", m.u)))
    BY <1>1 DEF WSSendUserData
  <2>3. m.u \in Users /\ m.v \in Nat
    BY <2>1, <2>2, WSHeadTyped
  <2>4. Msg("M_NT_MOVE_USER_DATA_END", m.u) \in Message
    BY <2>3, WSMsgTyped DEF WSKinds
  <2>5. NetTyped'
    BY <2>1, <2>2, <2>4, ToTyped, ReceiveTyped
  <2>6. data' \in [Shards -> [Users -> Nat]]
    <3> HIDE DEF m
    <3> QED
      BY <2>2, <2>3 DEF WSTyped, WSTypeOK
  <2>7. QED
    BY <1>1, <2>5, <2>6 DEF WSSendUserData, WSTyped, WSTypeOK
<1>2. QED
  BY <1>1, WSFromFESTyped, WSFromLSTyped, WSQueryDoneTyped DEF WSNext

=============================================================================
