------------------------ MODULE ShardPromise_proofs -------------------------
(***************************************************************************)
(* The system keeps the invariant of the handover (HandoverInv): what      *)
(* ShardHandover_proofs shows of each step, that nobody is ever forced     *)
(* off, and that a queued validation is that of an open socket. From it    *)
(* follow that a user is in the rooms of one shard at a time, recorded     *)
(* there, with the last version of its data, which some shard always has;  *)
(* and that the services implement ShardPlay. Beside it the system keeps   *)
(* what the LS is told of a user (Told): starts and ends of its sessions   *)
(* reach the LS in turn (InTurn), and what the LS has recorded, or is to   *)
(* record, is backed by a session of the WS or by the report of its end on *)
(* the way (Backed). From that follows that nobody stays recorded online   *)
(* without a session.                                                      *)
(***************************************************************************)
EXTENDS ShardHandover_proofs

-----------------------------------------------------------------------------
(* That nobody is forced off is kept. *)

(* What a forced logoff would send, and a report that comes from no shard. *)
Forced == {x \in Flying : \/ x[2].kind \in {"M_NT_REQ_FORCE_LOGOFF", "M_LS_RELOGOFF"}
                          \/ x[2].kind = "M_CLIENT_CONNECT_STATUS" /\ x[1][2] # SS /\ Source(x) \notin Shards}
Peaceful == \A z \in Flights : z \notin Forced
(* Everything `me` sends is harmless. *)
Peace(me, outs) == outs \in Outbox /\ \A z \in Sent(me, outs) : z \notin Forced
Gentle == {m \in Message : m.kind \notin {"M_NT_REQ_FORCE_LOGOFF", "M_LS_RELOGOFF"}}

(* What NoForce says of what is in flight.                                 *)
LEMMA PeacefulIs ==
  ASSUME NetTyped
  PROVE  Peaceful <=> /\ \A x \in Flights : x[2].kind \notin {"M_NT_REQ_FORCE_LOGOFF", "M_LS_RELOGOFF"}
                      /\ \A x \in Flights : x[2].kind = "M_CLIENT_CONNECT_STATUS" => x[1][2] = SS \/ Source(x) \in Shards
<1>1. Flights \subseteq Flying
  <2>1. ASSUME NEW x \in Flights PROVE x \in Flying
    <3>1. PICK l \in Links : \E i \in DOMAIN net[l] : x = <<l, net[l][i]>>
      BY FlightHas
    <3>2. PICK i \in DOMAIN net[l] : x = <<l, net[l][i]>>
      BY <3>1
    <3>3. net[l][i] \in Message
      BY PositionsTyped DEF NetTyped
    <3>4. QED
      BY <3>2, <3>3 DEF Flying
  <2>2. QED
    BY <2>1
<1>2. QED
  BY <1>1 DEF Peaceful, Forced

(* A step of `me` that receives, or only sends, nothing but such messages. *)
LEMMA PeaceKept ==
  ASSUME Around, NEW me, NEW outs, Peace(me, outs),
         \/ \E src, kind : <<src, me>> \in Links /\ Pending(src, me, kind) /\ Receive(src, me, outs)
         \/ Emit(me, outs)
  PROVE  Peaceful'
<1>1. NetTyped /\ NetTyped' /\ Peaceful /\ outs \in Outbox
  BY AroundTyped, PeacefulIs DEF Around, NoForce, Peace
<1>2. LoneSent(me, outs, Forced)
  <2>1. ASSUME NEW n \in Nodes, NEW i \in DOMAIN outs[n], <<<<me, n>>, outs[n][i]>> \in Forced PROVE FALSE
    <3>1. <<me, n>> \in Links
      BY <2>1 DEF Forced, Flying
    <3>2. QED
      BY <2>1, <3>1, SentIs DEF Peace
  <2>2. QED
    BY <2>1 DEF LoneSent
<1>3. \E X : Moves(X, Sent(me, outs), Forced)
  <2>1. CASE Emit(me, outs)
    BY <1>1, <1>2, <2>1, EmitMoves
  <2>2. CASE \E src, kind : <<src, me>> \in Links /\ Pending(src, me, kind) /\ Receive(src, me, outs)
    <3>1. PICK src, kind : <<src, me>> \in Links /\ Pending(src, me, kind) /\ Receive(src, me, outs)
      BY <2>2
    <3>2. QED
      BY <1>1, <1>2, <3>1, ReceiveMoves
  <2>3. QED
    BY <2>1, <2>2
<1>4. Forced' = Forced
  BY DEF Forced, Flying, Source
<1>5. QED
  BY <1>1, <1>3, <1>4 DEF Peaceful, Moves, Peace

(* What is harmless from whom.                                             *)
LEMMA PeaceSilent == \A me : Peace(me, Silent)
BY SilentTyped, SentNone DEF Peace

(* One gentle message, from where sessions are reported, keeps the peace.  *)
LEMMA PeaceTo ==
  ASSUME NEW me, NEW n, NEW p \in Message, p \in Gentle,
         p.kind = "M_CLIENT_CONNECT_STATUS" => (me \in {LS} \cup Shards /\ n = LS) \/ me \in Fess
  PROVE  Peace(me, To(n, p))
<1>1. To(n, p) \in Outbox
  BY ToTyped
<1>2. ASSUME NEW z \in Sent(me, To(n, p)) PROVE z \notin Forced
  <2>1. z = <<<<me, n>>, p>> /\ <<me, n>> \in Links
    BY SentTo
  <2>2. CASE p.kind # "M_CLIENT_CONNECT_STATUS"
    BY <2>1, <2>2 DEF Forced, Gentle
  <2>3. CASE n = LS /\ me \in Shards
    BY <2>1, <2>3 DEF Forced, Gentle, Source
  <2>4. CASE me \in Fess
    <3>1. n \in Shards
      BY <2>1, <2>4, NodesDistinct, PlacesOK DEF Links
    <3>2. QED
      BY <2>1, <2>4, <3>1, NodesDistinct DEF Forced, Gentle, Source
  <2>5. CASE n = LS /\ me = LS
    BY <2>1, <2>5, NodesDistinct, PlacesOK DEF Links
  <2>6. QED
    BY <2>2, <2>3, <2>4, <2>5
<1>3. QED
  BY <1>1, <1>2 DEF Peace

(* Whatever the LS sends that is gentle keeps the peace.                   *)
LEMMA PeaceLS ==
  ASSUME NEW outs, Carries(outs, Gentle)
  PROVE  Peace(LS, outs)
<1>1. outs \in Outbox
  BY DEF Carries
<1>2. ASSUME NEW z \in Sent(LS, outs) PROVE z \notin Forced
  <2>1. PICK n \in Nodes : /\ <<LS, n>> \in Links
                           /\ \E i \in DOMAIN outs[n] : z = <<<<LS, n>>, outs[n][i]>>
    BY SentHas
  <2>2. PICK i \in DOMAIN outs[n] : z = <<<<LS, n>>, outs[n][i]>>
    BY <2>1
  <2>3. outs[n][i] \in Gentle
    BY DEF Carries
  <2>4. n = SS \/ n \in Shards
    BY <2>1, NodesDistinct, PlacesOK DEF Links
  <2>5. QED
    BY <2>2, <2>3, <2>4, NodesDistinct DEF Forced, Gentle, Source
<1>3. QED
  BY <1>1, <1>2 DEF Peace

(* The messages of the gentle kinds, with any content, are gentle.         *)
LEMMA GentleMsg ==
  ASSUME NEW kind \in (Kinds \ Answers) \ {"M_NT_REQ_FORCE_LOGOFF", "M_LS_RELOGOFF"}, NEW u \in Users, NEW ck \in Cookie,
         NEW s \in ShardOrNone, NEW fs \in FesOrNone, NEW v \in Nat
  PROVE  /\ Msg(kind, u) \in Gentle
         /\ [Msg(kind, u) EXCEPT !.v = v] \in Gentle
         /\ [Msg(kind, u) EXCEPT !.s = s] \in Gentle
         /\ [Msg(kind, u) EXCEPT !.ck = ck] \in Gentle
         /\ [Msg(kind, u) EXCEPT !.fsSid = fs] \in Gentle
         /\ [Msg(kind, u) EXCEPT !.s = s, !.v = v] \in Gentle
         /\ [Msg(kind, u) EXCEPT !.v = v, !.ck = ck] \in Gentle
<1>2. /\ Msg(kind, u).kind = kind
      /\ [Msg(kind, u) EXCEPT !.v = v].kind = kind
      /\ [Msg(kind, u) EXCEPT !.s = s].kind = kind
      /\ [Msg(kind, u) EXCEPT !.ck = ck].kind = kind
      /\ [Msg(kind, u) EXCEPT !.fsSid = fs].kind = kind
      /\ [Msg(kind, u) EXCEPT !.s = s, !.v = v].kind = kind
      /\ [Msg(kind, u) EXCEPT !.v = v, !.ck = ck].kind = kind
  BY DEF Msg
<1>3. QED
  BY <1>2, MsgTyped DEF Gentle

(* Kinds the LS sends when no login is forced.                             *)
GentleKinds == {"M_SC_SHARDS", "M_CLIENT_DISCONNECT", "M_CLIENT_CONNECT_STATUS", "M_SC_FAIL",
                "M_ENTER__SHARD", "M_NT_MOVE_USER_DATA_REQ", "M_ENTER_SHARD_REQUEST"}
(* The kinds the LS sends when no login is forced are gentle.              *)
LEMMA GentleKindsOK == GentleKinds \subseteq (Kinds \ Answers) \ {"M_NT_REQ_FORCE_LOGOFF", "M_LS_RELOGOFF"}
BY DEF GentleKinds, Kinds, Answers

(* So is what the LS sends to the SS ...                                   *)
LEMMA GentleToSS ==
  ASSUME NEW kind \in GentleKinds, NEW u \in Users
  PROVE  Carries(ToSS(kind, u), Gentle)
<1>1. Msg(kind, u) \in Gentle /\ Msg(kind, u) \in Message
  BY GentleMsg, GentleKindsOK, NullsTyped DEF Gentle
<1>2. QED
  BY <1>1, CarriesTo DEF ToSS

(* ... the request for a copy of the data ...                              *)
LEMMA GentleMoveRequest ==
  ASSUME NEW u \in Users, NEW from \in ShardOrNone, NEW to \in ShardOrNone
  PROVE  Carries(MoveRequest(u, from, to), Gentle)
<1> DEFINE s == IF MainShard[u] \in {from, to} THEN to ELSE MainShard[u]
           m == [Msg("M_NT_MOVE_USER_DATA_REQ", u) EXCEPT !.s = s]
<1>1. "M_NT_MOVE_USER_DATA_REQ" \in GentleKinds /\ s \in ShardOrNone
  BY NullsTyped DEF GentleKinds
<1> HIDE DEF s
<1>2. m \in Gentle /\ m \in Message
  BY <1>1, GentleMsg, GentleKindsOK, NullsTyped DEF Gentle
<1> HIDE DEF m
<1>3. Carries(To(from, m), Gentle)
  BY <1>2, CarriesTo
<1>4. QED
  BY <1>3 DEF MoveRequest, m, s

(* ... the entry ...                                                       *)
LEMMA GentleEnterShardOk ==
  ASSUME NEW u \in Users, NEW s, NEW f \in FesOrNone
  PROVE  Carries(EnterShardOk(u, s, f), Gentle)
<1> DEFINE m == [Msg("M_ENTER__SHARD", u) EXCEPT !.fsSid = f]
<1>1. "M_ENTER__SHARD" \in GentleKinds
  BY DEF GentleKinds
<1>2. m \in Gentle /\ m \in Message
  BY <1>1, GentleMsg, GentleKindsOK, NullsTyped DEF Gentle
<1> HIDE DEF m
<1>3. Carries(To(s, m), Gentle)
  BY <1>2, CarriesTo
<1>4. QED
  BY <1>3 DEF EnterShardOk, m

(* ... what follows a logoff ...                                           *)
LEMMA GentleLogoffOutbox ==
  ASSUME NEW u \in Users
  PROVE  Carries(LogoffOutbox(u), Gentle)
<1>1. "M_SC_SHARDS" \in GentleKinds /\ "M_CLIENT_CONNECT_STATUS" \in GentleKinds
  BY DEF GentleKinds
<1>2. Carries(ToSS("M_SC_SHARDS", u), Gentle) /\ Carries(ToSS("M_CLIENT_CONNECT_STATUS", u), Gentle)
  BY <1>1, GentleToSS
<1>3. QED
  BY <1>2, CarriesSilent, CarriesBoth DEF LogoffOutbox

(* ... and what admits a user.                                             *)
LEMMA GentleAdmitOutbox ==
  ASSUME LSTypeOK, NEW u \in Users, NEW s \in ShardOrNone, NEW f \in FesOrNone,
         NEW con \in Nat
  PROVE  Carries(AdmitOutbox(u, s, f, con), Gentle)
<1> DEFINE m == [Msg("M_CLIENT_CONNECT_STATUS", u) EXCEPT !.v = con]
           b == IF moving[u] = NoMove /\ infoCur[u] = s THEN EnterShardOk(u, s, f)
                ELSE IF MoveBeforeEntry(u, s) THEN MoveRequest(u, infoCur[u], s) ELSE Silent
<1>1. "M_CLIENT_CONNECT_STATUS" \in GentleKinds /\ infoCur[u] \in ShardOrNone
  BY DEF GentleKinds, LSTypeOK
<1>2. m \in Gentle /\ m \in Message
  BY <1>1, GentleMsg, GentleKindsOK, NullsTyped DEF Gentle
<1>3. Carries(b, Gentle)
  BY <1>1, GentleEnterShardOk, GentleMoveRequest, CarriesSilent
<1>4. AdmitOutbox(u, s, f, con) = To(SS, m) \oplus b
  BY DEF AdmitOutbox
<1> HIDE DEF m, b
<1>5. Carries(To(SS, m), Gentle)
  BY <1>2, CarriesTo
<1>6. QED
  BY <1>3, <1>4, <1>5, CarriesBoth

(* The handlers of the LS that send only gentle messages, one by one.      *)
LEMMA LSGentleSteps ==
  ASSUME LSTyped, NEW s \in Shards,
         \/ LSShardsList \/ LSChooseShardRefused \/ LSDisconnectClient
         \/ LSRemovedPendingCookie(s) \/ LSClientMustWait(s)
         \/ LSClientConnected(s) \/ LSClientDisconnected(s) \/ LSClientHandedOver(s)
         \/ LSMoveDataEnd(s)
  PROVE  \E src \in Shards \cup {SS} : \E kind, outs :
           Pending(src, LS, kind) /\ Carries(outs, Gentle) /\ Receive(src, LS, outs)
<1> DEFINE m == Head(net[<<SS, LS>>])
           n == Head(net[<<s, LS>>])
           u == n.u
<1>0. /\ {"M_SC_SHARDS", "M_SC_FAIL", "M_CLIENT_DISCONNECT"}
           \subseteq GentleKinds
      /\ SS \in Shards \cup {SS} /\ s \in Shards \cup {SS} /\ s \in ShardOrNone
      /\ Carries(Silent, Gentle) /\ NoCookie \in Cookie /\ NoFes \in FesOrNone
      /\ infoCur \in [Users -> ShardOrNone] /\ LSTypeOK
  BY CarriesSilent, NullsTyped DEF GentleKinds, ShardOrNone, LSTyped, LSTypeOK
<1>1. CASE LSShardsList
  <2>1. Pending(SS, LS, "M_SC_SHARDS") /\ Receive(SS, LS, ToSS("M_SC_SHARDS", m.u))
    BY <1>1 DEF LSShardsList
  <2>2. m.u \in Users
    BY <1>0, <2>1, LSHeadTyped
  <2>3. Carries(ToSS("M_SC_SHARDS", m.u), Gentle)
    BY <1>0, <2>2, GentleToSS
  <2>4. QED
    BY <1>0, <2>1, <2>3
<1>2. CASE LSChooseShardRefused
  <2>1. Pending(SS, LS, "M_ENTER_SHARD_REQUEST") /\ Receive(SS, LS, ToSS("M_SC_FAIL", m.u))
    BY <1>2 DEF LSChooseShardRefused
  <2>2. m.u \in Users
    BY <1>0, <2>1, LSHeadTyped
  <2>3. Carries(ToSS("M_SC_FAIL", m.u), Gentle)
    BY <1>0, <2>2, GentleToSS
  <2>4. QED
    BY <1>0, <2>1, <2>3
<1>3. CASE LSDisconnectClient
  <2> DEFINE no == Msg("M_CLIENT_DISCONNECT", m.u)
  <2>1. /\ Pending(SS, LS, "M_CLIENT_DISCONNECT")
        /\ \/ Receive(SS, LS, Silent)
           \/ \E d : Receive(SS, LS, To(d, no))
    BY <1>3 DEF LSDisconnectClient
  <2>2. m.u \in Users
    BY <1>0, <2>1, LSHeadTyped
  <2>3. no \in Gentle /\ no \in Message
    BY <1>0, <2>2, GentleMsg, GentleKindsOK, NullsTyped DEF Gentle
  <2> HIDE DEF no
  <2>4. \A d : Carries(To(d, no), Gentle)
    BY <2>3, CarriesTo
  <2>5. QED
    BY <1>0, <2>1, <2>4
<1>5. CASE LSRemovedPendingCookie(s)
  BY <1>0, <1>5 DEF LSRemovedPendingCookie
<1>7. CASE LSClientMustWait(s)
  BY <1>0, <1>7 DEF LSClientMustWait
<1>8. CASE LSClientConnected(s)
  <2>1. /\ Pending(s, LS, "M_CLIENT_CONNECT_STATUS")
        /\ Receive(s, LS, AdmitOutbox(u, s, n.fsSid, 1))
    BY <1>8 DEF LSClientConnected
  <2>2. u \in Users /\ n.fsSid \in FesOrNone
    BY <1>0, <2>1, LSHeadTyped
  <2>3. Carries(AdmitOutbox(u, s, n.fsSid, 1), Gentle)
    BY <1>0, <2>2, GentleAdmitOutbox
  <2>4. QED
    BY <1>0, <2>1, <2>3
<1>9. CASE LSClientDisconnected(s)
  <2> DEFINE cur  == IF abnormal[u] /\ infoCur[u] = NoShard THEN LoadedShard(u)
                                                            ELSE infoCur[u]
             home == moving[u] = NoMove /\ cur \notin {NoShard, MainShard[u]}
             a    == LogoffOutbox(u)
             b    == IF home THEN MoveRequest(u, cur, MainShard[u]) ELSE Silent
  <2>1. /\ Pending(s, LS, "M_CLIENT_CONNECT_STATUS") /\ Receive(s, LS, a \oplus b)
    BY <1>9 DEF LSClientDisconnected
  <2>2. u \in Users
    BY <1>0, <2>1, LSHeadTyped
  <2>3. cur \in ShardOrNone /\ MainShard[u] \in ShardOrNone
    BY <1>0, <2>2, NetIsTyped, NullsTyped DEF LSTyped, LoadedShard
  <2> HIDE DEF cur, u
  <2>4. Carries(a, Gentle) /\ Carries(b, Gentle)
    BY <1>0, <2>2, <2>3, GentleLogoffOutbox, GentleMoveRequest
  <2> HIDE DEF a, b
  <2>5. Carries(a \oplus b, Gentle)
    BY <2>4, CarriesBoth
  <2>6. QED
    BY <1>0, <2>1, <2>5
<1>10. CASE LSClientHandedOver(s)
  <2> DEFINE w == waiting[u]
             a == LogoffOutbox(u)
             b == AdmitOutbox(u, w.s, w.f, 0)
  <2>1. /\ Pending(s, LS, "M_CLIENT_CONNECT_STATUS") /\ Receive(s, LS, a \oplus b)
    BY <1>10 DEF LSClientHandedOver
  <2>2. u \in Users
    BY <1>0, <2>1, LSHeadTyped
  <2>3. w.s \in ShardOrNone /\ w.f \in FesOrNone
    BY <1>0, <2>2 DEF LSTypeOK, Place
  <2> HIDE DEF w, u
  <2>4. Carries(a, Gentle) /\ Carries(b, Gentle)
    BY <1>0, <2>2, <2>3, GentleLogoffOutbox, GentleAdmitOutbox
  <2> HIDE DEF a, b
  <2>5. Carries(a \oplus b, Gentle)
    BY <2>4, CarriesBoth
  <2>6. QED
    BY <1>0, <2>1, <2>5
<1>11. CASE LSMoveDataEnd(s)
  <2> DEFINE mv  == moving[u]
             leg == FirstLeg(mv, s)
             end == mv # NoMove /\ ~leg
             out == IF leg THEN MoveRequest(u, s, mv.to)
                    ELSE IF end /\ mv.reason = 1 /\ infoCur[u] # NoShard
                         THEN EnterShardOk(u, s, mv.f) ELSE Silent
  <2>1. /\ Pending(s, LS, "M_NT_MOVE_USER_DATA_END") /\ Receive(s, LS, out)
    BY <1>11 DEF LSMoveDataEnd
  <2>2. u \in Users
    BY <1>0, <2>1, LSHeadTyped
  <2>3. mv.to \in ShardOrNone /\ mv.f \in FesOrNone
    BY <1>0, <2>2 DEF LSTypeOK, Move
  <2>4. Carries(out, Gentle)
    <3> HIDE DEF mv, u, leg, end
    <3> QED
      BY <1>0, <2>2, <2>3, GentleMoveRequest, GentleEnterShardOk
  <2> HIDE DEF out
  <2>5. QED
    BY <1>0, <2>1, <2>4
<1>12. QED
  BY <1>1, <1>2, <1>3, <1>5, <1>7, <1>8, <1>9, <1>10, <1>11

(* Every step of the LS sends only such messages ...                       *)
LEMMA LSKeepsPeace ==
  ASSUME Around, LSNext
  PROVE  Peaceful'
<1>1. LSTyped /\ loginCookie \in [Users -> Cookie] /\ changeReq \in [Users -> Place]
  BY AroundTyped DEF Around, TypeOK, LSTypeOK
<1>2. ASSUME NEW src \in Shards \cup {SS}, NEW kind, NEW outs, Pending(src, LS, kind),
             Carries(outs, Gentle), Receive(src, LS, outs)
      PROVE  Peaceful'
  BY <1>2, PeaceLS, PeaceKept, LinksAre
<1>3. ASSUME NEW s \in Shards,
             \/ LSShardsList \/ LSChooseShardRefused \/ LSDisconnectClient
             \/ LSRemovedPendingCookie(s) \/ LSClientMustWait(s)
             \/ LSClientConnected(s) \/ LSClientDisconnected(s) \/ LSClientHandedOver(s)
             \/ LSMoveDataEnd(s)
      PROVE  Peaceful'
  BY <1>1, <1>2, <1>3, LSGentleSteps
<1>4. CASE LSChooseShard
  <2>1. PICK m : m = Head(net[<<SS, LS>>])
    OBVIOUS
  <2>2. PICK p : p = [Msg("M_ENTER_SHARD_REQUEST", m.u) EXCEPT !.ck = [key |-> lastKey + 1, sock |-> m.v]]
    OBVIOUS
  <2>3. Pending(SS, LS, "M_ENTER_SHARD_REQUEST") /\ Receive(SS, LS, To(m.s, p))
    BY <1>4, <2>1, <2>2 DEF LSChooseShard
  <2>4. m.u \in Users /\ m.v \in Nat /\ lastKey \in Nat
    BY <1>1, <2>1, <2>3, LSHeadTyped DEF LSTyped, LSTypeOK
  <2>5. [key |-> lastKey + 1, sock |-> m.v] \in Cookie
    BY <2>4 DEF Cookie
  <2>6. p \in Gentle /\ p \in Message
    BY <2>2, <2>4, <2>5, GentleMsg, GentleKindsOK, NullsTyped DEF GentleKinds, Gentle
  <2>7. Carries(To(m.s, p), Gentle)
    BY <2>6, CarriesTo
  <2>8. QED
    BY <1>2, <2>3, <2>7
<1>5. ASSUME NEW s \in Shards, LSShardAnswer(s) PROVE Peaceful'
  <2>1. PICK m : m = Head(net[<<s, LS>>])
    OBVIOUS
  <2>2. PICK req : req = changeReq[m.u]
    OBVIOUS
  <2>3. PICK p : p = [m EXCEPT !.kind = "M_SC_CHANGE_SHARD_ANS", !.fsSid = req.f]
    OBVIOUS
  <2>4. /\ Pending(s, LS, "M_ENTER_SHARD_ANSWER")
        /\ \/ Receive(s, LS, To(SS, m)) \/ Receive(s, LS, To(req.s, p)) \/ Receive(s, LS, Silent)
    BY <1>5, <2>1, <2>2, <2>3 DEF LSShardAnswer
  <2>5. <<s, LS>> \in Links
    BY LinksAre
  <2>6. /\ <<<<s, LS>>, m>> \in Flights /\ <<<<s, LS>>, m>> \in Flying
        /\ m \in Message /\ m.kind = "M_ENTER_SHARD_ANSWER" /\ m.u \in Users
    <3>1. Pending(s, LS, "M_ENTER_SHARD_ANSWER")
      BY <2>4
    <3>2. QED
      BY <2>1, <2>5, <3>1, HeadIs
  <2>7. req.f \in FesOrNone
    BY <1>1, <2>2, <2>6, MessageIs DEF Place
  <2>8. p \in Message /\ p.kind = "M_SC_CHANGE_SHARD_ANS"
    <3>1. /\ m = [kind |-> m.kind, u |-> m.u, ck |-> m.ck, s |-> m.s,
                   f |-> m.f, fsSid |-> m.fsSid, v |-> m.v]
          /\ m.u \in Users /\ m.ck \in Cookie /\ m.s \in ShardOrNone /\ m.f \in FesOrNone /\ m.v \in Nat
          /\ m.v = 0 => m.f # NoFes
      BY <2>6, MessageIs DEF Answers
    <3>2. p = [kind |-> "M_SC_CHANGE_SHARD_ANS", u |-> m.u, ck |-> m.ck, s |-> m.s,
               f |-> m.f, fsSid |-> req.f, v |-> m.v]
      BY <2>3, <3>1
    <3>3. QED
      BY <2>7, <3>1, <3>2 DEF Message, Kinds
  <2>9. m \in Gentle /\ p \in Gentle
    BY <2>6, <2>8 DEF Gentle
  <2>10. Carries(To(SS, m), Gentle) /\ Carries(To(req.s, p), Gentle) /\ Carries(Silent, Gentle)
    BY <2>6, <2>8, <2>9, CarriesTo, CarriesSilent
  <2>11. QED
    BY <1>2, <2>4, <2>10
<1>6. ASSUME NEW s \in Shards, LSChangeShardReq(s) PROVE Peaceful'
  <2>1. PICK m : m = Head(net[<<s, LS>>])
    OBVIOUS
  <2>2. PICK p : p = [Msg("M_ENTER_SHARD_REQUEST", m.u) EXCEPT !.ck = loginCookie[m.u]]
    OBVIOUS
  <2>3. /\ Pending(s, LS, "M_CS_CHANGE_SHARD_REQ")
        /\ Receive(s, LS, To(m.s, p)) \/ Receive(s, LS, Silent)
    BY <1>6, <2>1, <2>2 DEF LSChangeShardReq
  <2>4. m.u \in Users
    BY <1>1, <2>1, <2>3, LSHeadTyped
  <2>5. p \in Gentle /\ p \in Message
    BY <1>1, <2>2, <2>4, GentleMsg, GentleKindsOK, NullsTyped DEF GentleKinds, Gentle
  <2>6. Carries(To(m.s, p), Gentle) /\ Carries(Silent, Gentle)
    BY <2>5, CarriesTo, CarriesSilent
  <2>7. QED
    BY <1>2, <2>3, <2>6
<1>7. PICK s \in Shards : TRUE
  BY SomeUser, PlacesOK
<1>8. QED
  BY <1>3, <1>4, <1>5, <1>6, <1>7, NeverForced DEF LSNext

(* ... no query of it fails, no move is dropped ...                        *)
LEMMA LSKeepsCounts ==
  ASSUME Around, LSNext
  PROVE  dbFaults' = 0 /\ moveTimeouts' = 0
<1>1. dbFaults = 0 /\ moveTimeouts = 0
  BY DEF Around, NoForce
<1>2. CASE LSShardsList \/ LSChooseShardRefused \/ LSChooseShard \/ LSDisconnectClient
  BY <1>1, <1>2 DEF LSShardsList, LSChooseShardRefused, LSChooseShard, LSDisconnectClient, lsVars
<1>3. ASSUME NEW s \in Shards,
             \/ LSShardAnswer(s) \/ LSRemovedPendingCookie(s)
             \/ LSClientMustWait(s) \/ LSChangeShardReq(s)
      PROVE  dbFaults' = 0 /\ moveTimeouts' = 0
  BY <1>1, <1>3 DEF LSShardAnswer, LSRemovedPendingCookie, LSClientMustWait, LSChangeShardReq
<1>4. ASSUME NEW s \in Shards, LSClientConnected(s) \/ LSClientDisconnected(s) \/ LSMoveDataEnd(s)
      PROVE  dbFaults' = 0 /\ moveTimeouts' = 0
  <2>1. moveTimeouts' = moveTimeouts
    BY <1>4 DEF LSClientConnected, LSClientDisconnected, LSMoveDataEnd
  <2>2. \E fails \in BOOLEAN : Queries(fails)
    BY <1>4 DEF LSClientConnected, LSClientDisconnected, LSMoveDataEnd
  <2>3. QED
    BY <1>1, <2>1, <2>2, NoFailure
<1>5. ASSUME NEW s \in Shards, LSClientHandedOver(s)
      PROVE  dbFaults' = 0 /\ moveTimeouts' = 0
  <2>1. moveTimeouts' = moveTimeouts
    BY <1>5 DEF LSClientHandedOver
  <2>2. \E a, b \in BOOLEAN : Queries(a \/ b)
    BY <1>5 DEF LSClientHandedOver
  <2>3. \E fails \in BOOLEAN : Queries(fails)
    BY <2>2
  <2>4. QED
    BY <1>1, <2>1, <2>3, NoFailure
<1>6. QED
  BY <1>2, <1>3, <1>4, <1>5, NeverForced DEF LSNext

(* ... and changes of shard are asked for from shards.                     *)
LEMMA LSKeepsChanges ==
  ASSUME Around, LSNext
  PROVE  ChangesToShards'
<1>1. ChangesToShards /\ changeReq \in [Users -> Place]
  BY DEF Around, TypeOK, LSTypeOK
<1>2. CASE changeReq' = changeReq
  BY <1>1, <1>2 DEF ChangesToShards
<1>3. ASSUME NEW u, changeReq' = [changeReq EXCEPT ![u] = Nowhere] PROVE ChangesToShards'
  BY <1>1, <1>3 DEF ChangesToShards
<1>4. ASSUME NEW u, NEW s \in Shards, NEW f, changeReq' = [changeReq EXCEPT ![u] = [s |-> s, f |-> f]]
      PROVE  ChangesToShards'
  BY <1>1, <1>4 DEF ChangesToShards
<1>5. CASE LSShardsList \/ LSChooseShardRefused \/ LSChooseShard \/ LSDisconnectClient
  BY <1>2, <1>3, <1>5 DEF LSShardsList, LSChooseShardRefused, LSChooseShard, LSDisconnectClient, lsVars,
                          SendShardListToSS, ResetSession
<1>6. ASSUME NEW s \in Shards,
             \/ LSShardAnswer(s) \/ LSRemovedPendingCookie(s) \/ LSClientMustWait(s)
             \/ LSClientConnected(s) \/ LSClientDisconnected(s) \/ LSClientHandedOver(s)
             \/ LSMoveDataEnd(s)
      PROVE  ChangesToShards'
  <2>1. \/ changeReq' = changeReq
        \/ \E u : changeReq' = [changeReq EXCEPT ![u] = Nowhere]
    BY <1>6 DEF LSShardAnswer, LSRemovedPendingCookie, LSClientMustWait, LSClientConnected,
                LSClientDisconnected, LSClientHandedOver, LSMoveDataEnd, SendShardListToSS, ResetSession
  <2>2. QED
    BY <1>2, <1>3, <2>1
<1>7. ASSUME NEW s \in Shards, LSChangeShardReq(s) PROVE ChangesToShards'
  <2>1. PICK m : m = Head(net[<<s, LS>>])
    OBVIOUS
  <2>2. \/ changeReq' = [changeReq EXCEPT ![m.u] = [s |-> s, f |-> m.fsSid]]
        \/ changeReq' = [changeReq EXCEPT ![m.u] = @]
    BY <1>7, <2>1 DEF LSChangeShardReq
  <2>3. [changeReq EXCEPT ![m.u] = @] = changeReq
    BY <1>1
  <2>4. QED
    BY <1>2, <1>4, <2>2, <2>3
<1>8. QED
  BY <1>5, <1>6, <1>7, NeverForced DEF LSNext

(* Links that do not change stay peaceful.                                 *)
LEMMA StillPeaceful ==
  ASSUME Around, net' = net
  PROVE  Peaceful'
<1>1. Peaceful
  BY AroundTyped, PeacefulIs DEF Around, NoForce
<1>2. QED
  BY <1>1 DEF Peaceful, Flights, Forced, Flying, Source

(* Every step of the front ends and of their clients ...                   *)
LEMMA FESKeepsPeace ==
  ASSUME Around, FSNext
  PROVE  Peaceful'
<1>1. FSTyped /\ conn \in [Fess -> [Conns -> Conn]] /\ events \in [Fess -> Seq(Event)]
      /\ pending \in [Fess -> SUBSET [u : Users, ck : Cookie]]
  BY AroundTyped DEF Around, TypeOK, FSTypeOK
<1>2. ASSUME NEW f \in Fess, FSChooseShard(f) PROVE Peaceful'
  <2>1. PICK m : m = Head(net[<<ShardOf[f], f>>])
    OBVIOUS
  <2>2. PICK p : p = [m EXCEPT !.kind = "M_ENTER_SHARD_ANSWER", !.f = f, !.v = 0]
    OBVIOUS
  <2>3. /\ Pending(ShardOf[f], f, "M_ENTER_SHARD_REQUEST") /\ Receive(ShardOf[f], f, To(ShardOf[f], p))
        /\ <<ShardOf[f], f>> \in Links
    BY <1>2, <2>1, <2>2, LinksAre DEF FSChooseShard
  <2>4. /\ <<<<ShardOf[f], f>>, m>> \in Flights /\ <<<<ShardOf[f], f>>, m>> \in Flying
        /\ m \in Message /\ m.kind = "M_ENTER_SHARD_REQUEST" /\ m.u \in Users
    BY <2>1, <2>3, HeadIs
  <2>5. p \in Message /\ p.kind = "M_ENTER_SHARD_ANSWER"
    <3>1. m = [kind |-> m.kind, u |-> m.u, ck |-> m.ck, s |-> m.s,
               f |-> m.f, fsSid |-> m.fsSid, v |-> m.v]
      BY <2>4, MessageIs
    <3>2. QED
      BY <2>2, <2>4, <3>1, OfferTyped
  <2>6. Peace(f, To(ShardOf[f], p))
    BY <2>5, PeaceTo DEF Gentle
  <2>7. QED
    BY <2>3, <2>6, PeaceKept
<1>3. ASSUME NEW f \in Fess, FSDisconnectClient(f) \/ FSEnterShardOk(f) \/ FSChangeShardAns(f) PROVE Peaceful'
  <2>1. \E kind : Pending(ShardOf[f], f, kind) /\ Receive(ShardOf[f], f, Silent)
    BY <1>3 DEF FSDisconnectClient, FSEnterShardOk, FSChangeShardAns
  <2>2. <<ShardOf[f], f>> \in Links
    BY LinksAre
  <2>3. QED
    BY <2>1, <2>2, PeaceSilent, PeaceKept
<1>4. ASSUME NEW f \in Fess, events[f] # << >> PROVE conn[f][Head(events[f]).k].u \in Users /\ Head(events[f]).ck \in Cookie
  <2>1. Head(events[f]) \in Event
    BY <1>1, <1>4, PositionsRead
  <2>2. QED
    BY <1>1, <2>1 DEF Event, Conn
<1>5. ASSUME NEW f \in Fess, FSShardValidation(f) PROVE Peaceful'
  <2>1. PICK e : e = Head(events[f])
    OBVIOUS
  <2>2. PICK u : u = conn[f][e.k].u
    OBVIOUS
  <2>3. PICK p : p = [Msg("M_CLIENT_CONNECT_STATUS", u) EXCEPT !.v = 1, !.ck = e.ck]
    OBVIOUS
  <2>4. events[f] # << >> /\ Emit(f, To(ShardOf[f], p))
    BY <1>5, <2>1, <2>2, <2>3 DEF FSShardValidation
  <2>5. u \in Users /\ e.ck \in Cookie
    BY <1>4, <2>1, <2>2, <2>4
  <2>6. p \in Message /\ p \in Gentle
    BY <2>3, <2>5, GentleMsg, GentleKindsOK, NullsTyped DEF GentleKinds, Gentle
  <2>7. Peace(f, To(ShardOf[f], p))
    BY <2>6, PeaceTo
  <2>8. QED
    BY <2>4, <2>7, PeaceKept
<1>6. ASSUME NEW f \in Fess, FSDisconnected(f) PROVE Peaceful'
  <2>1. PICK u : u = conn[f][Head(events[f]).k].u
    OBVIOUS
  <2>2. PICK p : p = Msg("M_CLIENT_CONNECT_STATUS", u)
    OBVIOUS
  <2>3. events[f] # << >> /\ (net' = net \/ Emit(f, To(ShardOf[f], p)))
    BY <1>6, <2>1, <2>2 DEF FSDisconnected
  <2>4. u \in Users
    BY <1>4, <2>1, <2>3
  <2>5. p \in Message /\ p \in Gentle
    BY <2>2, <2>4, GentleMsg, GentleKindsOK, NullsTyped DEF GentleKinds, Gentle
  <2>6. Peace(f, To(ShardOf[f], p))
    BY <2>5, PeaceTo
  <2>7. QED
    BY <2>3, <2>6, PeaceKept, StillPeaceful
<1>7. ASSUME NEW f \in Fess, FSRefreshPending(f) PROVE Peaceful'
  <2>1. PICK c \in pending[f] : Emit(f, To(ShardOf[f], [Msg("M_LOGIN_SERVER_RPC", c.u) EXCEPT !.ck = c.ck]))
    BY <1>7 DEF FSRefreshPending
  <2>2. PICK p : p = [Msg("M_LOGIN_SERVER_RPC", c.u) EXCEPT !.ck = c.ck]
    OBVIOUS
  <2>3. c.u \in Users /\ c.ck \in Cookie
    BY <1>1
  <2>4. "M_LOGIN_SERVER_RPC" \in (Kinds \ Answers) \ {"M_NT_REQ_FORCE_LOGOFF", "M_LS_RELOGOFF"}
    BY DEF Kinds, Answers
  <2>5. p \in Gentle /\ p.kind # "M_CLIENT_CONNECT_STATUS"
    BY <2>2, <2>3, <2>4, GentleMsg, NullsTyped DEF Msg
  <2>6. Peace(f, To(ShardOf[f], p))
    BY <2>5, PeaceTo DEF Gentle
  <2>7. QED
    BY <2>1, <2>2, <2>6, PeaceKept
<1>8. ASSUME NEW f \in Fess, FSInvalidCookie(f) PROVE Peaceful'
  BY <1>8, StillPeaceful DEF FSInvalidCookie, netVars
<1>9. QED
  BY <1>2, <1>3, <1>5, <1>6, <1>7, <1>8 DEF FSNext

(* The clients send nothing forced.                                        *)
LEMMA ClientsKeepPeace ==
  ASSUME Around, ClientStep
  PROVE  Peaceful'
<1>1. ASSUME NEW f \in Fess, NEW k \in Conns, FSChangeShardReq(f, k) PROVE Peaceful'
  <2>1. PICK s \in Shards : Emit(f, To(ShardOf[f], [Msg("M_CS_CHANGE_SHARD_REQ", conn[f][k].u) EXCEPT !.s = s]))
    BY <1>1 DEF FSChangeShardReq
  <2>2. PICK p : p = [Msg("M_CS_CHANGE_SHARD_REQ", conn[f][k].u) EXCEPT !.s = s]
    OBVIOUS
  <2>3. conn[f][k].u \in Users
    BY DEF Around, TypeOK, FSTypeOK, Conn
  <2>4. "M_CS_CHANGE_SHARD_REQ" \in (Kinds \ Answers) \ {"M_NT_REQ_FORCE_LOGOFF", "M_LS_RELOGOFF"}
    BY DEF Kinds, Answers
  <2>5. p \in Gentle /\ p.kind # "M_CLIENT_CONNECT_STATUS"
    BY <2>2, <2>3, <2>4, GentleMsg, NullsTyped DEF Msg
  <2>6. Peace(f, To(ShardOf[f], p))
    BY <2>5, PeaceTo DEF Gentle
  <2>7. QED
    BY <2>1, <2>2, <2>6, PeaceKept
<1>2. ASSUME NEW u \in Users, ClientConnect(u) PROVE Peaceful'
  BY <1>2, StillPeaceful DEF ClientConnect, netVars
<1>3. ASSUME NEW f \in Fess, NEW k \in Conns, ClientClose(f, k) PROVE Peaceful'
  BY <1>3, StillPeaceful DEF ClientClose, netVars
<1>4. QED
  BY <1>1, <1>2, <1>3 DEF ClientStep

(* ... and of the SS.                                                      *)
LEMMA SSKeepsPeace ==
  ASSUME Around, \A u \in Users : Kept(u), SSNext \/ SSShardAnswer
  PROVE  Peaceful'
<1>1. ASSUME NEW kind \in {"M_SC_SHARDS", "M_CLIENT_DISCONNECT"}, NEW u \in Users, Emit(SS, ToLS(kind, u))
      PROVE  Peaceful'
  <2>1. PICK p : p = Msg(kind, u)
    OBVIOUS
  <2>2. p \in Gentle /\ p.kind # "M_CLIENT_CONNECT_STATUS"
    BY <2>1, GentleMsg, GentleKindsOK, NullsTyped DEF GentleKinds, Msg
  <2>3. Peace(SS, To(LS, p))
    BY <2>2, PeaceTo DEF Gentle
  <2>4. QED
    BY <1>1, <2>1, <2>3, PeaceKept DEF ToLS
<1>2. ASSUME NEW u \in Users, SSUserAuth(u) PROVE Peaceful'
  BY <1>1, <1>2 DEF SSUserAuth
<1>3. ASSUME NEW u \in Users, SSAlreadyOnline(u) PROVE Peaceful'
  BY <1>3, StillPeaceful DEF SSAlreadyOnline, netVars
<1>4. ASSUME NEW u \in Users, NEW n \in Logins, SSUserDisconnection(u, n) PROVE Peaceful'
  BY <1>1, <1>4, StillPeaceful DEF SSUserDisconnection
<1>5. ASSUME NEW u \in Users, NEW n \in Logins, SSUserChooseShard(u, n) PROVE Peaceful'
  <2>1. PICK s \in Shards : Emit(SS, To(LS, [Msg("M_ENTER_SHARD_REQUEST", u) EXCEPT !.s = s, !.v = n]))
    BY <1>5 DEF SSUserChooseShard
  <2>2. PICK p : p = [Msg("M_ENTER_SHARD_REQUEST", u) EXCEPT !.s = s, !.v = n]
    OBVIOUS
  <2>3. n \in Nat
    BY DEF Logins
  <2>4. p \in Gentle /\ p.kind # "M_CLIENT_CONNECT_STATUS"
    BY <2>2, <2>3, GentleMsg, GentleKindsOK, NullsTyped DEF GentleKinds, Msg
  <2>5. Peace(SS, To(LS, p))
    BY <2>4, PeaceTo DEF Gentle
  <2>6. QED
    BY <2>1, <2>2, <2>5, PeaceKept
<1>6. ASSUME NEW kind, FromLS(kind) PROVE Peaceful'
  BY <1>6, PeaceSilent, PeaceKept, LinksAre DEF FromLS
<1>7. CASE SSDisplayShardList \/ SSClientConnected \/ SSFailed \/ SSShardAnswer
  BY <1>6, <1>7 DEF SSDisplayShardList, SSClientConnected, SSFailed, SSShardAnswer
<1>8. \A u \in Users, n \in Logins : ~SSForceLogin(u, n)
  BY NoSecondLogin
<1>9. QED
  BY <1>2, <1>3, <1>4, <1>5, <1>7, <1>8, NeverForced DEF SSNext

(* The WS step: what it sends ...                                          *)
LEMMA WSKeepsPeace ==
  ASSUME Around, WSNext
  PROVE  Peaceful'
<1>1. WSTyped /\ data \in [Shards -> [Users -> Nat]] /\ jobs \in [Shards -> Seq(Job)]
      /\ wsAssoc \in [Shards -> [Users -> FesOrNone]]
  BY AroundTyped DEF Around, TypeOK, WSTypeOK
<1>2. ASSUME NEW f \in Fess,
             WSShardAnswer(f) \/ WSLoginClient(f) \/ WSLogoffClient(f)
               \/ WSRemovedPendingCookie(f) \/ WSChangeShardReq(f)
      PROVE  Peaceful'
  <2>1. PICK s \in Shards : s = ShardOf[f]
    BY PlacesOK
  <2>2. PICK m : m = Head(net[<<f, s>>])
    OBVIOUS
  <2>3. PICK p : p = [m EXCEPT !.fsSid = f]
    OBVIOUS
  <2>4. PICK q : q = Msg("M_CLIENT_DISCONNECT", m.u)
    OBVIOUS
  <2>5. PICK kind \in {"M_ENTER_SHARD_ANSWER", "M_CLIENT_CONNECT_STATUS", "M_LOGIN_SERVER_RPC", "M_CS_CHANGE_SHARD_REQ"} :
          Pending(f, s, kind)
    BY <1>2, <2>1 DEF WSShardAnswer, WSLoginClient, WSLogoffClient, WSRemovedPendingCookie, WSChangeShardReq
  <2>6. \/ Receive(f, s, To(LS, m)) \/ Receive(f, s, To(LS, p)) \/ Receive(f, s, To(f, q)) \/ Receive(f, s, Silent)
    BY <1>2, <2>1, <2>2, <2>3, <2>4 DEF WSShardAnswer, WSLoginClient, WSLogoffClient, WSRemovedPendingCookie, WSChangeShardReq
  <2>7. <<f, s>> \in Links
    BY <2>1, LinksAre
  <2>8. /\ <<<<f, s>>, m>> \in Flights /\ <<<<f, s>>, m>> \in Flying
        /\ m \in Message /\ m.kind = kind /\ m.u \in Users
    BY <2>2, <2>5, <2>7, HeadIs
  <2>9. m = [kind |-> m.kind, u |-> m.u, ck |-> m.ck, s |-> m.s,
             f |-> m.f, fsSid |-> m.fsSid, v |-> m.v]
    BY <2>8, MessageIs
  <2>10. p \in Message /\ p.kind = kind
    BY <2>3, <2>8, <2>9, WSNulls DEF Message
  <2>11. q \in Message /\ q \in Gentle /\ q.kind = "M_CLIENT_DISCONNECT"
    BY <2>4, <2>8, GentleMsg, GentleKindsOK, NullsTyped DEF GentleKinds, Gentle, Msg
  <2>12. m \in Gentle /\ p \in Gentle
    BY <2>5, <2>8, <2>10 DEF Gentle
  <2>13. Peace(s, To(LS, m)) /\ Peace(s, To(LS, p)) /\ Peace(s, To(f, q)) /\ Peace(s, Silent)
    BY <2>8, <2>10, <2>11, <2>12, PeaceTo, PeaceSilent
  <2>14. QED
    BY <2>5, <2>6, <2>7, <2>13, PeaceKept
<1>3. ASSUME NEW s \in Shards,
             WSNoFrontend(s) \/ WSChooseShard(s) \/ WSDisconnectClient(s) \/ WSRelayToFES(s) \/ WSMoveUserDataReq(s)
      PROVE  Peaceful'
  <2>1. PICK m : m = Head(net[<<LS, s>>])
    OBVIOUS
  <2>2. PICK p : p = [m EXCEPT !.kind = "M_ENTER_SHARD_ANSWER", !.v = 1]
    OBVIOUS
  <2>3. PICK q : q = Msg("M_CLIENT_DISCONNECT", m.u)
    OBVIOUS
  <2>4. PICK kind \in {"M_ENTER_SHARD_REQUEST", "M_CLIENT_DISCONNECT", "M_ENTER__SHARD", "M_SC_CHANGE_SHARD_ANS",
                       "M_NT_MOVE_USER_DATA_REQ"} : Pending(LS, s, kind)
    BY <1>3 DEF WSNoFrontend, WSChooseShard, WSDisconnectClient, WSRelayToFES, WSMoveUserDataReq
  <2>5. \/ Receive(LS, s, To(LS, p)) \/ Receive(LS, s, Silent)
        \/ \E n : Receive(LS, s, To(n, m)) \/ Receive(LS, s, To(n, q))
    BY <1>3, <2>1, <2>2, <2>3
       DEF WSNoFrontend, WSChooseShard, WSDisconnectClient, WSRelayToFES, WSMoveUserDataReq, DisconnectClient
  <2>6. <<LS, s>> \in Links
    BY LinksAre
  <2>7. /\ <<<<LS, s>>, m>> \in Flights /\ <<<<LS, s>>, m>> \in Flying
        /\ m \in Message /\ m.kind = kind /\ m.u \in Users
    BY <2>1, <2>4, <2>6, HeadIs
  <2>8. p \in Message
    <3>1. "M_ENTER_SHARD_ANSWER" \in Kinds /\ 1 \in Nat \ {0}
      BY DEF Kinds
    <3>2. QED
      BY <2>2, <2>7, <3>1, RefusalTyped
  <2>9. p.kind = "M_ENTER_SHARD_ANSWER"
    <3>1. m = [kind |-> m.kind, u |-> m.u, ck |-> m.ck, s |-> m.s,
               f |-> m.f, fsSid |-> m.fsSid, v |-> m.v]
      BY <2>7, MessageIs
    <3>2. QED
      BY <2>2, <3>1
  <2>10. q \in Message /\ q \in Gentle /\ q.kind = "M_CLIENT_DISCONNECT"
    BY <2>3, <2>7, GentleMsg, GentleKindsOK, NullsTyped DEF GentleKinds, Gentle, Msg
  <2>11. m \in Gentle /\ p \in Gentle /\ m.kind # "M_CLIENT_CONNECT_STATUS"
    BY <2>4, <2>7, <2>8, <2>9 DEF Gentle
  <2>12. Peace(s, To(LS, p)) /\ Peace(s, Silent) /\ \A n : Peace(s, To(n, m)) /\ Peace(s, To(n, q))
    BY <2>7, <2>8, <2>9, <2>10, <2>11, PeaceTo, PeaceSilent
  <2>13. QED
    BY <2>4, <2>5, <2>6, <2>12, PeaceKept
<1>4. ASSUME NEW s \in Shards, NEW from \in Shards \ {s}, WSSendUserData(from, s) PROVE Peaceful'
  <2>1. PICK m : m = Head(net[<<from, s>>])
    OBVIOUS
  <2>2. PICK p : p = Msg("M_NT_MOVE_USER_DATA_END", m.u)
    OBVIOUS
  <2>3. Pending(from, s, "M_NT_SEND_USER_DATA") /\ Receive(from, s, To(LS, p)) /\ <<from, s>> \in Links
    BY <1>4, <2>1, <2>2, LinksAre DEF WSSendUserData
  <2>4. /\ <<<<from, s>>, m>> \in Flights /\ <<<<from, s>>, m>> \in Flying
        /\ m \in Message /\ m.kind = "M_NT_SEND_USER_DATA" /\ m.u \in Users
    BY <2>1, <2>3, HeadIs
  <2>5. "M_NT_MOVE_USER_DATA_END" \in (Kinds \ Answers) \ {"M_NT_REQ_FORCE_LOGOFF", "M_LS_RELOGOFF"}
    BY DEF Kinds, Answers
  <2>6. p \in Gentle /\ p.kind # "M_CLIENT_CONNECT_STATUS"
    BY <2>2, <2>4, <2>5, GentleMsg, NullsTyped DEF Msg
  <2>7. Peace(s, To(LS, p))
    BY <2>6, PeaceTo DEF Gentle
  <2>8. QED
    BY <2>3, <2>7, PeaceKept
<1>5. ASSUME NEW s \in Shards, WSQueryDone(s) PROVE Peaceful'
  <2>1. PICK i \in DOMAIN jobs[s], fails \in BOOLEAN :
          Queries(fails) /\ Emit(s, IF fails THEN Silent ELSE JobOutbox(s, jobs[s][i]))
    BY <1>5 DEF WSQueryDone
  <2>2. PICK j : j = jobs[s][i]
    OBVIOUS
  <2>3. Emit(s, JobOutbox(s, j))
    <3>1. ~fails
      BY <2>1, NoFailure
    <3>2. QED
      BY <2>1, <2>2, <3>1
  <2>4. j \in Job
    BY <1>1, <2>2, ElementOfSeq
  <2>5. j.job # "ForcedLogout"
    <3>1. <<s, j>> \in JobFlights
      BY <2>2, JobFlies
    <3>2. \A x \in JobFlights : x[2].job # "ForcedLogout"
      BY DEF Around, NoForce
    <3>3. QED
      BY <3>1, <3>2
  <2>6. j.u \in Users /\ j.job \in {"FamilyLogout", "ForcedLogout", "GetUserMoveData"}
    BY <2>4 DEF Job
  <2>7. CASE j.job = "FamilyLogout"
    <3>1. PICK p : p = Msg("M_CLIENT_CONNECT_STATUS", j.u)
      OBVIOUS
    <3>2. JobOutbox(s, j) = To(LS, p)
      BY <2>7, <3>1 DEF JobOutbox
    <3>3. p \in Gentle
      BY <2>6, <3>1, GentleMsg, GentleKindsOK, NullsTyped DEF GentleKinds
    <3>4. Peace(s, To(LS, p))
      BY <3>3, PeaceTo DEF Gentle
    <3>5. QED
      BY <2>3, <3>2, <3>4, PeaceKept
  <2>8. CASE j.job = "GetUserMoveData"
    <3>1. PICK p : p = [Msg("M_NT_SEND_USER_DATA", j.u) EXCEPT !.v = data[s][j.u]]
      OBVIOUS
    <3>2. JobOutbox(s, j) = To(j.to, p)
      BY <2>8, <3>1 DEF JobOutbox
    <3>3. "M_NT_SEND_USER_DATA" \in (Kinds \ Answers) \ {"M_NT_REQ_FORCE_LOGOFF", "M_LS_RELOGOFF"}
      BY DEF Kinds, Answers
    <3>4. p \in Gentle /\ p.kind # "M_CLIENT_CONNECT_STATUS"
      <4>1. PICK v \in Nat : v = data[s][j.u]
        BY <1>1, <2>6
      <4>2. p = [Msg("M_NT_SEND_USER_DATA", j.u) EXCEPT !.v = v]
        BY <3>1, <4>1
      <4>3. QED
        BY <2>6, <3>3, <4>2, GentleMsg, NullsTyped DEF Msg
    <3>5. Peace(s, To(j.to, p))
      BY <3>4, PeaceTo DEF Gentle
    <3>6. QED
      BY <2>3, <3>2, <3>5, PeaceKept
  <2>9. QED
    BY <2>5, <2>6, <2>7, <2>8
<1>6. QED
  BY <1>2, <1>3, <1>4, <1>5, NeverForced DEF WSNext

(* ... the queries it queues ...                                           *)
LEMMA WSKeepsQueries ==
  ASSUME Around, WSNext
  PROVE  \A x \in JobFlights' : x[2].job # "ForcedLogout"
<1>1. jobs \in [Shards -> Seq(Job)] /\ \A x \in JobFlights : x[2].job # "ForcedLogout"
  BY DEF Around, TypeOK, WSTypeOK, NoForce
<1> DEFINE K == {x \in Shards \X Job : x[2].job = "ForcedLogout"}
<1>2. ASSUME NEW X, NEW Y, JobsMove(X, Y, K), \A y \in Y : y \notin K
      PROVE  \A x \in JobFlights' : x[2].job # "ForcedLogout"
  <2>1. \A z \in JobFlights' : z \in K => z \in JobFlights \/ z \in Y
    BY <1>2 DEF JobsMove
  <2>2. ASSUME NEW z \in JobFlights', z[2].job = "ForcedLogout" PROVE z \in K
    <3>1. PICK t \in Shards : \E i \in DOMAIN jobs'[t] : z = <<t, jobs'[t][i]>>
      BY DEF JobFlights
    <3>2. PICK i \in DOMAIN jobs'[t] : z = <<t, jobs'[t][i]>>
      BY <3>1
    <3>3. jobs' \in [Shards -> Seq(Job)]
      BY DEF Around, TypeOK, WSTypeOK
    <3>4. jobs'[t][i] \in Job
      BY <3>3, ElementOfSeq
    <3>5. QED
      BY <2>2, <3>2, <3>4
  <2>3. QED
    BY <1>1, <1>2, <2>1, <2>2
<1>3. ASSUME jobs' = jobs PROVE \A x \in JobFlights' : x[2].job # "ForcedLogout"
  BY <1>1, <1>3 DEF JobFlights
<1>4. ASSUME NEW s \in Shards, NEW u \in Users, NEW to \in ShardOrNone,
             NEW job \in {"FamilyLogout", "GetUserMoveData"}, jobs' = Queued(s, job, u, to)
      PROVE  \A x \in JobFlights' : x[2].job # "ForcedLogout"
  <2>1. PICK j : j = [job |-> job, u |-> u, to |-> to]
    OBVIOUS
  <2>2. j \in Job
    BY <2>1 DEF Job
  <2>3. JobsMove({}, {<<s, j>>}, K)
    <3> HIDE DEF K
    <3> QED
      BY <1>1, <1>4, <2>1, <2>2, QueuedMoves
  <2>4. <<s, j>> \notin K
    BY <2>1
  <2>5. QED
    BY <1>2, <2>3, <2>4
<1>5. ASSUME NEW f \in Fess, NEW u \in Users, LogoffClient(f, u)
      PROVE  \A x \in JobFlights' : x[2].job # "ForcedLogout"
  BY <1>4, <1>5, PlacesOK, WSNulls DEF LogoffClient
<1>6. ASSUME NEW f \in Fess,
             WSShardAnswer(f) \/ WSLoginClient(f) \/ WSLogoffClient(f)
               \/ WSRemovedPendingCookie(f) \/ WSChangeShardReq(f)
      PROVE  \A x \in JobFlights' : x[2].job # "ForcedLogout"
  <2>1. PICK s \in Shards : s = ShardOf[f]
    BY PlacesOK
  <2>2. PICK u : u = Head(net[<<f, s>>]).u
    OBVIOUS
  <2>3. \/ jobs' = jobs
        \/ Pending(f, s, "M_CLIENT_CONNECT_STATUS") /\ LogoffClient(f, u)
    BY <1>6, <2>1, <2>2 DEF WSShardAnswer, WSLoginClient, WSLogoffClient, WSRemovedPendingCookie, WSChangeShardReq, wsVars
  <2>4. <<f, s>> \in Links
    BY <2>1, LinksAre
  <2>5. ASSUME Pending(f, s, "M_CLIENT_CONNECT_STATUS") PROVE u \in Users
    BY <2>2, <2>4, <2>5, AroundTyped, WSHeadTyped
  <2>6. QED
    BY <1>3, <1>5, <2>3, <2>5
<1>7. ASSUME NEW s \in Shards, WSMoveUserDataReq(s)
      PROVE  \A x \in JobFlights' : x[2].job # "ForcedLogout"
  <2>1. PICK m : m = Head(net[<<LS, s>>])
    OBVIOUS
  <2>2. Pending(LS, s, "M_NT_MOVE_USER_DATA_REQ") /\ jobs' = Queued(s, "GetUserMoveData", m.u, m.s)
    BY <1>7, <2>1 DEF WSMoveUserDataReq
  <2>3. m.u \in Users /\ m.s \in ShardOrNone
    BY <2>1, <2>2, LinksAre, AroundTyped, WSHeadTyped
  <2>4. QED
    BY <1>4, <2>2, <2>3
<1>8. ASSUME NEW s \in Shards, WSQueryDone(s)
      PROVE  \A x \in JobFlights' : x[2].job # "ForcedLogout"
  <2>1. PICK i \in DOMAIN jobs[s] :
          jobs' = [jobs EXCEPT ![s] = SubSeq(@, 1, i - 1) \o SubSeq(@, i + 1, Len(@))]
    BY <1>8 DEF WSQueryDone
  <2>2. JobsMove({<<s, jobs[s][i]>>}, {}, K)
    <3> HIDE DEF K
    <3> QED
      BY <1>1, <2>1, TakenMoves
  <2>3. QED
    BY <1>2, <2>2
<1>9. ASSUME NEW s \in Shards,
             \/ WSNoFrontend(s) \/ WSChooseShard(s) \/ WSDisconnectClient(s) \/ WSRelayToFES(s)
             \/ \E from \in Shards \ {s} : WSSendUserData(from, s)
      PROVE  jobs' = jobs
  BY <1>9 DEF WSNoFrontend, WSChooseShard, WSDisconnectClient, WSRelayToFES, WSSendUserData, wsVars
<1>10. QED
  BY <1>3, <1>6, <1>7, <1>8, <1>9, NeverForced DEF WSNext

(* ... and that none of them fails.                                        *)
LEMMA WSKeepsCounts ==
  ASSUME Around, WSNext
  PROVE  dbFaults' = 0 /\ fesList' = Fess
<1>1. dbFaults = 0 /\ fesList = Fess
  BY DEF Around, NoForce
<1>2. ASSUME NEW f \in Fess,
             WSShardAnswer(f) \/ WSLogoffClient(f)
               \/ WSRemovedPendingCookie(f) \/ WSChangeShardReq(f)
      PROVE  dbFaults' = 0 /\ fesList' = Fess
  BY <1>1, <1>2 DEF WSShardAnswer, WSLogoffClient, WSRemovedPendingCookie, WSChangeShardReq, wsVars
<1>3. ASSUME NEW f \in Fess, WSLoginClient(f)
      PROVE  dbFaults' = 0 /\ fesList' = Fess
  <2>1. fesList' = fesList /\ \E fails \in BOOLEAN : Queries(fails)
    BY <1>3 DEF WSLoginClient
  <2>2. QED
    BY <1>1, <2>1, NoFailure
<1>4. ASSUME NEW s \in Shards,
             \/ WSNoFrontend(s) \/ WSChooseShard(s) \/ WSDisconnectClient(s) \/ WSRelayToFES(s) \/ WSMoveUserDataReq(s)
             \/ \E from \in Shards \ {s} : WSSendUserData(from, s)
      PROVE  dbFaults' = 0 /\ fesList' = Fess
  BY <1>1, <1>4 DEF WSNoFrontend, WSChooseShard, WSDisconnectClient, WSRelayToFES, WSMoveUserDataReq, WSSendUserData, wsVars
<1>5. ASSUME NEW s \in Shards, WSQueryDone(s)
      PROVE  dbFaults' = 0 /\ fesList' = Fess
  <2>1. fesList' = fesList /\ \E fails \in BOOLEAN : Queries(fails)
    BY <1>5 DEF WSQueryDone
  <2>2. QED
    BY <1>1, <2>1, NoFailure
<1>6. QED
  BY <1>2, <1>3, <1>4, <1>5, NeverForced DEF WSNext

-----------------------------------------------------------------------------
(* A validation that is queued is that of an open socket.                  *)

(* A queued validation is that of an open socket.                          *)
ShownOpen(q, c) == \A i \in DOMAIN q : q[i].ev = "validation" => c[q[i].k].open

(* OpenShown, one front end at a time.                                     *)
LEMMA OpenShownIs ==
  OpenShown <=> \A f \in Fess : ShownOpen(events[f], conn[f])
BY DEF OpenShown, ShownOpen

(* A socket is shut that has shown its cookie.                             *)
LEMMA HungShown ==
  ASSUME NEW q \in Seq(Event), NEW c \in [Conns -> Conn], ShownOpen(q, c), NEW k,
         \A i \in DOMAIN q : q[i].ev = "validation" => q[i].k # k
  PROVE  ShownOpen(Hung(q, c, k), Shut(c, {k}))
<1>1. ASSUME NEW i \in DOMAIN q, q[i].ev = "validation"
      PROVE  Shut(c, {k})[q[i].k].open
  <2>1. q[i].k # k /\ c[q[i].k].open
    BY <1>1 DEF ShownOpen
  <2>2. q[i].k \in Conns
    BY QueuedTyped
  <2>3. QED
    BY <2>1, <2>2 DEF Shut
<1>2. CASE k \in Conns /\ c[k].open
  <2>1. PICK e : e = Disconnection(k)
    OBVIOUS
  <2>2. Hung(q, c, k) = Append(q, e) /\ e \in Event /\ e.ev # "validation"
    BY <1>2, <2>1, FSNulls DEF Hung, Disconnection, Event
  <2>3. ASSUME NEW i \in DOMAIN Append(q, e), Append(q, e)[i].ev = "validation"
        PROVE  Shut(c, {k})[Append(q, e)[i].k].open
    <3>1. /\ q \o <<e>> = Append(q, e) /\ Len(q) \in Nat /\ DOMAIN q = 1 .. Len(q)
          /\ DOMAIN (q \o <<e>>) = 1 .. (Len(q) + 1) /\ (q \o <<e>>)[Len(q) + 1] = e
          /\ \A j \in DOMAIN q : (q \o <<e>>)[j] = q[j]
      BY <2>2, PositionsSent
    <3>2. i \in 1 .. (Len(q) + 1) /\ i # Len(q) + 1
      BY <2>2, <2>3, <3>1
    <3>3. i \in DOMAIN q /\ Append(q, e)[i] = q[i]
      BY <3>1, <3>2
    <3>4. QED
      BY <1>1, <2>3, <3>3
  <2>4. QED
    BY <2>2, <2>3 DEF ShownOpen
<1>3. CASE ~(k \in Conns /\ c[k].open)
  BY <1>1, <1>3 DEF Hung, ShownOpen
<1>4. QED
  BY <1>2, <1>3

(* An association names a socket that has shown its cookie.                *)
LEMMA NamedShown ==
  ASSUME NEW f \in Fess, Sockets(f), NEW u \in Users, FSTyped
  PROVE  \A i \in DOMAIN events[f] : events[f][i].ev = "validation" => events[f][i].k # assoc[f][u]
<1>1. ASSUME NEW i \in DOMAIN events[f], events[f][i].ev = "validation", events[f][i].k = assoc[f][u]
      PROVE  FALSE
  <2>1. events[f] \in Seq(Event) /\ ~conn[f][events[f][i].k].app
    BY <1>1, SocketsTyped DEF Sockets, InOrder
  <2>3. events[f][i].k \in Conns
    BY <2>1, QueuedTyped
  <2>4. assoc[f][u] # 0
    BY <1>1, <2>3, ConnsOK DEF Conns
  <2>5. QED
    BY <1>1, <2>1, <2>4 DEF Sockets, Names
<1>2. QED
  BY <1>1

(* Closing the session of a user leaves no queued validation on a closed   *)
(* socket ...                                                              *)
LEMMA AccountShown ==
  ASSUME FSTyped, NEW f \in Fess, NEW u \in Users, Sockets(f), ShownOpen(events[f], conn[f]),
         DisconnectAccount(f, u)
  PROVE  ShownOpen(events'[f], conn'[f])
<1>1. /\ conn'[f] = Shut(conn[f], {assoc[f][u]})
      /\ events'[f] = Hung(events[f], conn[f], assoc[f][u])
  BY DisconnectAccountIs
<1>2. PICK k : k = assoc[f][u]
  OBVIOUS
<1>3. \A i \in DOMAIN events[f] : events[f][i].ev = "validation" => events[f][i].k # k
  BY <1>2, NamedShown
<1>4. ShownOpen(Hung(events[f], conn[f], k), Shut(conn[f], {k}))
  BY <1>3, SocketsTyped, HungShown
<1>5. QED
  BY <1>1, <1>2, <1>4

(* What is behind the head of a queue.                                     *)
LEMMA TailShown ==
  ASSUME NEW q \in Seq(Event), NEW c \in [Conns -> Conn], ShownOpen(q, c), q # << >>, InOrder(q, c)
  PROVE  /\ ShownOpen(Tail(q), c) /\ Tail(q) \in Seq(Event)
         /\ \A i \in DOMAIN Tail(q) : Tail(q)[i].k = Head(q).k => Tail(q)[i].ev # "validation"
         /\ \A i \in DOMAIN Tail(q) : i + 1 \in DOMAIN q /\ Tail(q)[i] = q[i + 1]
<1>1. /\ Tail(q) \in Seq(Event) /\ Head(q) = q[1] /\ 1 \in DOMAIN q
      /\ Len(q) \in Nat \ {0} /\ DOMAIN Tail(q) = 1 .. (Len(q) - 1)
      /\ \A i \in DOMAIN Tail(q) : i + 1 \in DOMAIN q /\ Tail(q)[i] = q[i + 1]
  BY PositionsRead
<1>2. \A i \in DOMAIN Tail(q) : i + 1 \in DOMAIN q /\ Tail(q)[i] = q[i + 1] /\ 1 < i + 1 /\ 1 \in DOMAIN q
  BY <1>1
<1>3. \A i \in DOMAIN Tail(q) : q[1].k = q[i + 1].k => q[i + 1].ev = "disconnection"
  BY <1>2 DEF InOrder
<1>4. QED
  BY <1>1, <1>2, <1>3 DEF ShownOpen

(* ... nor does the answer to a cookie that is shown ...                   *)
LEMMA ValidationShown ==
  ASSUME FSTyped, NEW f \in Fess, Sockets(f), ShownOpen(events[f], conn[f]), FSShardValidation(f)
  PROVE  ShownOpen(events'[f], conn'[f])
<1> DEFINE q == events[f]
           e == Head(q)
           u == conn[f][e.k].u
           c == App(conn[f], e.k)
           k == assoc[f][u]
<1>1. /\ q # << >> /\ e.ev = "validation" /\ u \in Users /\ e.k \in Conns
      /\ conn'[f] = Shut(c, {k}) /\ events'[f] = Hung(Tail(q), c, k)
  BY ShardValidationIs
<1>2. /\ c \in [Conns -> Conn] /\ \A j \in Conns : c[j].open = conn[f][j].open
  BY <1>1, SocketsTyped, AppIs
<1>3. q \in Seq(Event) /\ conn[f] \in [Conns -> Conn] /\ InOrder(q, conn[f])
  BY SocketsTyped DEF Sockets
<1>4. /\ ShownOpen(Tail(q), conn[f]) /\ Tail(q) \in Seq(Event)
      /\ \A i \in DOMAIN Tail(q) : i + 1 \in DOMAIN q /\ Tail(q)[i] = q[i + 1]
  BY <1>1, <1>3, TailShown
<1>5. ShownOpen(Tail(q), c)
  <2>1. \A i \in DOMAIN Tail(q) : Tail(q)[i].k \in Conns
    BY <1>4, QueuedTyped
  <2>2. QED
    BY <1>2, <1>4, <2>1 DEF ShownOpen
<1>6. \A i \in DOMAIN Tail(q) : Tail(q)[i].ev = "validation" => Tail(q)[i].k # k
  BY <1>1, <1>4, NamedShown
<1>7. QED
  <2> HIDE DEF q, c, k
  <2>1. ShownOpen(Hung(Tail(q), c, k), Shut(c, {k}))
    BY <1>2, <1>4, <1>5, <1>6, HungShown
  <2>2. QED
    BY <1>1, <2>1

(* ... nor a cookie that is refused ...                                    *)
LEMMA InvalidShown ==
  ASSUME FSTyped, NEW f \in Fess, Sockets(f), ShownOpen(events[f], conn[f]), FSInvalidCookie(f)
  PROVE  ShownOpen(events'[f], conn'[f])
<1> DEFINE q == events[f]
           e == Head(q)
           u == conn[f][e.k].u
           k == assoc[f][u]
           c == Shut(conn[f], {k})
           r == Hung(Tail(q), conn[f], k)
<1>1. /\ q # << >> /\ e.ev = "validation" /\ u \in Users /\ e.k \in Conns
      /\ conn'[f] = Shut(c, {e.k}) /\ events'[f] = Hung(r, c, e.k)
  BY InvalidCookieIs
<1>2. q \in Seq(Event) /\ conn[f] \in [Conns -> Conn] /\ InOrder(q, conn[f])
  BY SocketsTyped DEF Sockets
<1>3. /\ ShownOpen(Tail(q), conn[f]) /\ Tail(q) \in Seq(Event)
      /\ \A i \in DOMAIN Tail(q) : Tail(q)[i].k = e.k => Tail(q)[i].ev # "validation"
      /\ \A i \in DOMAIN Tail(q) : i + 1 \in DOMAIN q /\ Tail(q)[i] = q[i + 1]
  BY <1>1, <1>2, TailShown
<1>4. \A i \in DOMAIN Tail(q) : Tail(q)[i].ev = "validation" => Tail(q)[i].k # k
  BY <1>1, <1>3, NamedShown
<1>5. c \in [Conns -> Conn]
  BY <1>2 DEF Shut, Conn
<1> HIDE DEF q, k
<1>6. ShownOpen(r, c)
  BY <1>2, <1>3, <1>4, HungShown
<1>7. r \in Seq(Event) /\ \A i \in DOMAIN r : r[i].ev = "validation" => r[i].k # e.k
  <2>1. PICK d : d = Disconnection(k)
    OBVIOUS
  <2>2. d.ev # "validation" /\ (k \in Conns => d \in Event)
    BY <2>1, FSNulls DEF Disconnection, Event
  <2>3. CASE r = Tail(q)
    BY <1>3, <2>3
  <2>4. CASE k \in Conns /\ r = Append(Tail(q), d)
    <3> DEFINE n == Len(Tail(q))
    <3>0. /\ Tail(q) \o <<d>> = Append(Tail(q), d) /\ Tail(q) \o <<d>> \in Seq(Event)
          /\ n \in Nat /\ DOMAIN Tail(q) = 1 .. n
          /\ DOMAIN (Tail(q) \o <<d>>) = 1 .. (n + 1) /\ (Tail(q) \o <<d>>)[n + 1] = d
          /\ \A i \in DOMAIN Tail(q) : (Tail(q) \o <<d>>)[i] = Tail(q)[i]
      BY <1>3, <2>2, <2>4, PositionsSent
    <3> HIDE DEF n
    <3>1. /\ r \in Seq(Event) /\ DOMAIN r = 1 .. (n + 1) /\ n \in Nat
          /\ r[n + 1] = d /\ DOMAIN Tail(q) = 1 .. n
          /\ \A i \in DOMAIN Tail(q) : r[i] = Tail(q)[i]
      BY <2>4, <3>0
    <3>2. ASSUME NEW i \in DOMAIN r, r[i].ev = "validation" PROVE r[i].k # e.k
      <4>1. i \in DOMAIN Tail(q) /\ r[i] = Tail(q)[i]
        <5>1. i # n + 1
          BY <2>2, <3>1, <3>2
        <5>2. QED
          BY <3>1, <5>1
      <4>2. QED
        BY <1>3, <3>2, <4>1
    <3>3. QED
      BY <3>1, <3>2
  <2>5. QED
    BY <2>1, <2>3, <2>4 DEF Hung
<1> HIDE DEF r, c, e
<1>8. ShownOpen(Hung(r, c, e.k), Shut(c, {e.k}))
  BY <1>5, <1>6, <1>7, HungShown
<1>9. QED
  BY <1>1, <1>8

(* ... nor the end of a connection.                                        *)
LEMMA DisconnectedShown ==
  ASSUME FSTyped, NEW f \in Fess, Sockets(f), ShownOpen(events[f], conn[f]), FSDisconnected(f)
  PROVE  ShownOpen(events'[f], conn'[f])
<1>1. PICK q : q = events[f]
  OBVIOUS
<1>2. PICK c : c = conn[f]
  OBVIOUS
<1>3. PICK k : k = Head(q).k
  OBVIOUS
<1>4. PICK d : d = [c EXCEPT ![Head(q).k] = FreeConn]
  OBVIOUS
<1>5. /\ q # << >> /\ Head(q).ev = "disconnection"
      /\ conn' = [conn EXCEPT ![f][k] = FreeConn]
      /\ events' = [events EXCEPT ![f] = Tail(@)]
  BY <1>1, <1>3 DEF FSDisconnected
<1>6. /\ q \in Seq(Event) /\ c \in [Conns -> Conn] /\ InOrder(q, c) /\ ShownOpen(q, c)
  BY <1>1, <1>2, SocketsTyped DEF Sockets
<1>7. conn'[f] = d /\ events'[f] = Tail(q)
  BY <1>1, <1>2, <1>3, <1>4, <1>5, SocketsTyped
<1>8. Tail(q) \in Seq(Event) /\ \A i \in DOMAIN Tail(q) : Tail(q)[i].k # k
  BY <1>3, <1>4, <1>5, <1>6, FreedInOrder
<1>9. ShownOpen(Tail(q), c)
  BY <1>5, <1>6, TailShown
<1>10. \A j \in Conns : j # k => d[j] = c[j]
  BY <1>3, <1>4, <1>6
<1>11. \A i \in DOMAIN Tail(q) : Tail(q)[i].k \in Conns
  BY <1>8, QueuedTyped
<1>12. QED
  BY <1>7, <1>8, <1>9, <1>10, <1>11 DEF ShownOpen

(* If every front end keeps its queue so, OpenShown is kept.               *)
LEMMA AllShown ==
  ASSUME \A f \in Fess : ShownOpen(events'[f], conn'[f])
  PROVE  OpenShown'
BY DEF OpenShown, ShownOpen

(* No socket of f is closed, and f queues nothing.                         *)
LEMMA FlagsShown ==
  ASSUME FSTyped, NEW f \in Fess, ShownOpen(events[f], conn[f]), events'[f] = events[f],
         \A k \in Conns : conn'[f][k].open = conn[f][k].open
  PROVE  ShownOpen(events'[f], conn'[f])
<1>1. events[f] \in Seq(Event)
  BY SocketsTyped
<1>2. \A i \in DOMAIN events[f] : events[f][i].k \in Conns
  BY <1>1, QueuedTyped
<1>3. QED
  BY <1>2 DEF ShownOpen

(* A client connects: its socket was free, so nothing of it is queued.     *)
LEMMA ConnectShown ==
  ASSUME FSTyped, NEW f \in Fess, Sockets(f), ShownOpen(events[f], conn[f]), NEW u \in Users, ClientConnect(u)
  PROVE  ShownOpen(events'[f], conn'[f])
<1>1. PICK o \in offers[u], k \in Conns :
        /\ ~conn[o.f][k].used
        /\ conn' = [conn EXCEPT ![o.f][k] =
             [FreeConn EXCEPT !.u = u, !.used = TRUE, !.open = TRUE]]
        /\ events' = [events EXCEPT ![o.f] =
             Append(@, [ev |-> "validation", k |-> k, ck |-> o.ck])]
  BY DEF ClientConnect
<1>2. PICK new : new = [FreeConn EXCEPT !.u = u, !.used = TRUE, !.open = TRUE]
  OBVIOUS
<1>3. PICK e : e = [ev |-> "validation", k |-> k, ck |-> o.ck]
  OBVIOUS
<1>4. o.f \in Fess /\ o.ck \in Cookie
  BY DEF FSTyped, FSTypeOK, Offer
<1>5. new.open
  BY <1>2, FSNulls DEF FreeConn, Conn
<1>6. e \in Event /\ e.k = k
  BY <1>3, <1>4 DEF Event
<1>7. CASE o.f = f
  <2>1. PICK q : q = events[f]
    OBVIOUS
  <2>2. PICK c : c = conn[f]
    OBVIOUS
  <2>3. /\ q \in Seq(Event) /\ c \in [Conns -> Conn] /\ InOrder(q, c) /\ ShownOpen(q, c) /\ ~c[k].used
        /\ conn'[f] = [c EXCEPT ![k] = new] /\ events'[f] = Append(q, e)
    BY <1>1, <1>2, <1>3, <1>7, <2>1, <2>2, SocketsTyped DEF Sockets
  <2>4. /\ q \o <<e>> = Append(q, e) /\ Len(q) \in Nat /\ DOMAIN q = 1 .. Len(q)
        /\ DOMAIN (q \o <<e>>) = 1 .. (Len(q) + 1) /\ (q \o <<e>>)[Len(q) + 1] = e
        /\ \A j \in DOMAIN q : (q \o <<e>>)[j] = q[j]
    BY <1>6, <2>3, PositionsSent
  <2>5. [c EXCEPT ![k] = new][k] = new /\ \A j \in Conns : j # k => [c EXCEPT ![k] = new][j] = c[j]
    BY <2>3
  <2>6. ASSUME NEW i \in DOMAIN Append(q, e), Append(q, e)[i].ev = "validation"
        PROVE  [c EXCEPT ![k] = new][Append(q, e)[i].k].open
    <3>1. i \in 1 .. (Len(q) + 1)
      BY <2>4
    <3>2. CASE i = Len(q) + 1
      BY <1>5, <1>6, <2>4, <2>5, <3>2
    <3>3. CASE i # Len(q) + 1
      <4>1. i \in DOMAIN q /\ Append(q, e)[i] = q[i]
        BY <2>4, <3>1, <3>3
      <4>2. c[q[i].k].open /\ c[q[i].k].used
        BY <2>3, <2>6, <4>1 DEF ShownOpen, InOrder
      <4>3. q[i].k \in Conns /\ q[i].k # k
        BY <2>3, <4>1, <4>2, QueuedTyped
      <4>4. QED
        BY <2>5, <4>1, <4>2, <4>3
    <3>4. QED
      BY <3>2, <3>3
  <2>7. QED
    BY <2>3, <2>6 DEF ShownOpen
<1>8. CASE o.f # f
  <2>1. conn'[f] = conn[f] /\ events'[f] = events[f]
    BY <1>1, <1>4, <1>8, SocketsTyped
  <2>2. QED
    BY <2>1
<1>9. QED
  BY <1>7, <1>8

(* A client that closes its socket plays: it has shown its cookie.         *)
LEMMA CloseShown ==
  ASSUME Around, \A a \in Users : Kept(a), NEW f \in Fess, NEW k \in Conns,
         ShownOpen(events[f], conn[f]), ClientClose(f, k)
  PROVE  ShownOpen(events'[f], conn'[f])
<1>1. FSTyped /\ Sockets(f) /\ ClientsWait
  BY AroundTyped DEF Around, Settings
<1>2. /\ conn[f][k].open /\ conn[f][k].entered
      /\ conn'[f] = Closed(f, {k}) /\ events'[f] = Advertised(f, events[f], k)
  BY <1>1, SocketsTyped DEF ClientClose
<1>3. conn'[f] = Shut(conn[f], {k}) /\ events'[f] = Hung(events[f], conn[f], k)
  BY <1>2 DEF Closed, Shut, Advertised, Hung
<1>4. PICK u \in Users : u = conn[f][k].u
  BY <1>1, SocketsTyped DEF Conn
<1>5. conn[f][k].app
  <2>1. PICK d : d = <<f, k>>
    OBVIOUS
  <2>2. d \in Places /\ Sock(d) = conn[f][k]
    BY <2>1 DEF Places, Sock
  <2>3. d \notin Odd(u)
    BY <1>4 DEF Kept, Inside
  <2>4. QED
    BY <1>2, <1>4, <2>2, <2>3 DEF Odd
<1>6. \A i \in DOMAIN events[f] : events[f][i].ev = "validation" => events[f][i].k # k
  BY <1>1, <1>5 DEF Sockets, InOrder
<1>7. ShownOpen(Hung(events[f], conn[f], k), Shut(conn[f], {k}))
  BY <1>1, <1>6, SocketsTyped, HungShown
<1>8. QED
  BY <1>3, <1>7

(* The steps of the clients keep OpenShown.                                *)
LEMMA ClientsKeepShown ==
  ASSUME Around, \A a \in Users : Kept(a), ClientStep
  PROVE  OpenShown'
<1>1. FSTyped /\ \A f \in Fess : Sockets(f)
  BY AroundTyped DEF Around
<1>2. \A f \in Fess : ShownOpen(events[f], conn[f])
  BY OpenShownIs DEF Around
<1>3. ASSUME NEW f \in Fess
      PROVE  ShownOpen(events'[f], conn'[f])
  <2>1. ASSUME NEW u \in Users, ClientConnect(u)
        PROVE  ShownOpen(events'[f], conn'[f])
    BY <1>1, <1>2, <2>1, ConnectShown
  <2>2. ASSUME NEW g \in Fess, NEW k \in Conns, ClientClose(g, k) \/ FSChangeShardReq(g, k), g # f
        PROVE  ShownOpen(events'[f], conn'[f])
    <3>1. conn'[f] = conn[f] /\ events'[f] = events[f]
      BY <1>1, <2>2, OtherSockets
    <3>2. QED
      BY <1>2, <3>1
  <2>3. ASSUME NEW k \in Conns, ClientClose(f, k)
        PROVE  ShownOpen(events'[f], conn'[f])
    BY <1>2, <2>3, CloseShown
  <2>4. ASSUME NEW k \in Conns, FSChangeShardReq(f, k)
        PROVE  ShownOpen(events'[f], conn'[f])
    <3>1. conn' = [conn EXCEPT ![f][k].asked = TRUE] /\ UNCHANGED <<assoc, events>>
      BY <2>4 DEF FSChangeShardReq
    <3>2. \A j \in Conns : conn'[f][j].open = conn[f][j].open
      BY <1>1, <3>1, SocketsTyped DEF Conn
    <3>3. QED
      BY <1>1, <1>2, <3>1, <3>2, FlagsShown
  <2>5. QED
    BY <2>1, <2>2, <2>3, <2>4 DEF ClientStep
<1>4. QED
  BY <1>3, AllShown

(* The steps of the front ends keep OpenShown.                             *)
LEMMA FESKeepsShown ==
  ASSUME Around, FSNext
  PROVE  OpenShown'
<1>1. FSTyped /\ \A f \in Fess : Sockets(f)
  BY AroundTyped DEF Around
<1>2. \A f \in Fess : ShownOpen(events[f], conn[f])
  BY OpenShownIs DEF Around
<1>3. PICK g \in Fess :
        \/ FSChooseShard(g) \/ FSDisconnectClient(g) \/ FSEnterShardOk(g)
        \/ FSChangeShardAns(g) \/ FSShardValidation(g) \/ FSInvalidCookie(g)
        \/ FSDisconnected(g) \/ FSRefreshPending(g)
  BY DEF FSNext
<1>4. ASSUME FSChooseShard(g) \/ FSDisconnectClient(g)
      PROVE  ShownOpen(events'[g], conn'[g])
  <2>1. PICK u : DisconnectAccount(g, u) /\ u = Head(net[<<ShardOf[g], g>>]).u
    BY <1>4 DEF FSChooseShard, FSDisconnectClient
  <2>2. u \in Users
    BY <1>1, <1>4, <2>1, FSHeadTyped DEF FSChooseShard, FSDisconnectClient
  <2>3. QED
    BY <1>1, <1>2, <2>1, <2>2, AccountShown
<1>5. ASSUME FSEnterShardOk(g)
      PROVE  ShownOpen(events'[g], conn'[g])
  <2>1. PICK k : k = assoc[g][Head(net[<<ShardOf[g], g>>]).u]
    OBVIOUS
  <2>2. /\ UNCHANGED <<assoc, events>>
        /\ conn' = IF k = 0 THEN conn ELSE [conn EXCEPT ![g][k].entered = conn[g][k].open]
    BY <1>5, <2>1 DEF FSEnterShardOk
  <2>3. \A j \in Conns : conn'[g][j].open = conn[g][j].open
    BY <1>1, <2>2, SocketsTyped DEF Conn
  <2>4. QED
    BY <1>1, <1>2, <2>2, <2>3, FlagsShown
<1>6. ASSUME FSChangeShardAns(g)
      PROVE  ShownOpen(events'[g], conn'[g])
  <2>1. PICK K \in SUBSET Conns :
          conn' = [conn EXCEPT ![g] = [j \in Conns |->
                     IF j \in K THEN [@[j] EXCEPT !.asked = FALSE] ELSE @[j]]]
    BY <1>6 DEF FSChangeShardAns
  <2>2. UNCHANGED <<assoc, events>>
    BY <1>6 DEF FSChangeShardAns
  <2>3. \A j \in Conns : conn'[g][j].open = conn[g][j].open
    BY <1>1, <2>1, SocketsTyped DEF Conn
  <2>4. QED
    BY <1>1, <1>2, <2>2, <2>3, FlagsShown
<1>7. ASSUME FSRefreshPending(g)
      PROVE  ShownOpen(events'[g], conn'[g])
  BY <1>1, <1>2, <1>7, FlagsShown DEF FSRefreshPending
<1>8. ShownOpen(events'[g], conn'[g])
  BY <1>1, <1>2, <1>3, <1>4, <1>5, <1>6, <1>7, ValidationShown, InvalidShown, DisconnectedShown
<1>9. ASSUME NEW f \in Fess, f # g
      PROVE  ShownOpen(events'[f], conn'[f])
  <2>1. conn'[f] = conn[f] /\ events'[f] = events[f]
    BY <1>1, <1>3, <1>9, OtherSockets
  <2>2. QED
    BY <1>2, <2>1
<1>10. QED
  BY <1>8, <1>9, AllShown

(* Every step of the system keeps what is known of each user.              *)
LEMMA LSStepKeeps ==
  ASSUME Around, LSStep, \A a \in Users : Kept(a), NEW v \in Users
  PROVE  Kept(v)'
<1>1. LSNext /\ UNCHANGED <<wsVars, fsVars, ssVars, latest>> /\ Kept(v)
  BY DEF LSStep
<1>2. CASE LSShardsList \/ LSChooseShardRefused \/ LSChooseShard \/ LSDisconnectClient
  BY <1>1, <1>2, KeptShardsList, KeptChooseShardRefused, KeptChooseShard, KeptDisconnectClient
<1>3. ASSUME NEW s \in Shards,
             LSShardAnswer(s) \/ LSRemovedPendingCookie(s) \/ LSClientMustWait(s) \/ LSClientConnected(s)
      PROVE  Kept(v)'
  BY <1>1, <1>3, KeptShardAnswer, KeptRemovedPendingCookie, KeptClientMustWait, KeptClientConnected
<1>4. ASSUME NEW s \in Shards,
             LSClientDisconnected(s) \/ LSClientHandedOver(s) \/ LSChangeShardReq(s) \/ LSMoveDataEnd(s)
      PROVE  Kept(v)'
  BY <1>1, <1>4, KeptClientDisconnected, KeptClientHandedOver, KeptChangeShardReq, KeptMoveDataEnd
<1>5. QED
  BY <1>1, <1>2, <1>3, <1>4, NeverForced DEF LSNext

(* Every step of a WS keeps Kept ...                                       *)
LEMMA WSStepKeeps ==
  ASSUME Around, WSStep, \A a \in Users : Kept(a), NEW v \in Users
  PROVE  Kept(v)'
<1>1. WSNext /\ UNCHANGED <<dbVars, lsVars, fsVars, ssVars, latest>> /\ Kept(v)
  BY DEF WSStep
<1>2. ASSUME NEW f \in Fess,
             \/ WSShardAnswer(f) \/ WSLoginClient(f) \/ WSLogoffClient(f)
             \/ WSRemovedPendingCookie(f) \/ WSChangeShardReq(f)
      PROVE  Kept(v)'
  BY <1>1, <1>2, KeptWSShardAnswer, KeptWSLoginClient, KeptWSLogoffClient,
     KeptWSRemovedPendingCookie, KeptWSChangeShardReq
<1>3. ASSUME NEW s \in Shards, WSNoFrontend(s) \/ WSChooseShard(s) \/ WSDisconnectClient(s)
      PROVE  Kept(v)'
  BY <1>1, <1>3, KeptWSNoFrontend, KeptWSChooseShard, KeptWSDisconnectClient
<1>4. ASSUME NEW s \in Shards, WSRelayToFES(s) \/ WSMoveUserDataReq(s) \/ WSQueryDone(s)
      PROVE  Kept(v)'
  BY <1>1, <1>4, KeptWSRelayToFES, KeptWSMoveUserDataReq, KeptWSQueryDone
<1>5. ASSUME NEW s \in Shards, NEW from \in Shards \ {s}, WSSendUserData(from, s)
      PROVE  Kept(v)'
  BY <1>1, <1>5, KeptWSSendUserData
<1>6. QED
  BY <1>1, <1>2, <1>3, <1>4, <1>5, NeverForced DEF WSNext

(* ... every step of a front end ...                                       *)
LEMMA FSStepKeeps ==
  ASSUME Around, FSStep, \A a \in Users : Kept(a), NEW v \in Users
  PROVE  Kept(v)'
<1>1. FSNext /\ UNCHANGED <<dbVars, lsVars, wsVars, ssVars, latest>> /\ Kept(v)
  BY DEF FSStep
<1>2. ASSUME NEW f \in Fess,
             FSChooseShard(f) \/ FSDisconnectClient(f) \/ FSEnterShardOk(f) \/ FSChangeShardAns(f)
      PROVE  Kept(v)'
  BY <1>1, <1>2, KeptFSChooseShard, KeptFSDisconnectClient, KeptFSEnterShardOk, KeptFSChangeShardAns
<1>3. ASSUME NEW f \in Fess,
             FSShardValidation(f) \/ FSInvalidCookie(f) \/ FSDisconnected(f) \/ FSRefreshPending(f)
      PROVE  Kept(v)'
  BY <1>1, <1>3, KeptFSShardValidation, KeptFSInvalidCookie, KeptFSDisconnected, KeptFSRefreshPending
<1>4. QED
  BY <1>1, <1>2, <1>3 DEF FSNext

(* ... every step of a client ...                                          *)
LEMMA ClientStepKeeps ==
  ASSUME Around, ClientStep, \A a \in Users : Kept(a), NEW v \in Users
  PROVE  Kept(v)'
<1>1. /\ \/ \E u \in Users : ClientConnect(u)
         \/ \E f \in Fess, k \in Conns : ClientClose(f, k) \/ FSChangeShardReq(f, k)
      /\ UNCHANGED <<dbVars, lsVars, wsVars, ssVars, latest>> /\ Kept(v)
  BY DEF ClientStep
<1>2. QED
  BY <1>1, KeptClientConnect, KeptClientClose, KeptFSChangeShardReq

(* ... and every step of the SS.                                           *)
LEMMA SSStepKeeps ==
  ASSUME Around, SSStep, \A a \in Users : Kept(a), NEW v \in Users
  PROVE  Kept(v)'
<1>1. SSNext /\ UNCHANGED <<dbVars, lsVars, wsVars, fsVars, latest>> /\ Kept(v)
  BY DEF SSStep
<1>2. CASE SSDisplayShardList \/ SSClientConnected \/ SSFailed
  BY <1>1, <1>2, KeptSSDisplayShardList, KeptSSClientConnected, KeptSSFailed
<1>3. ASSUME NEW u \in Users, SSUserAuth(u)
      PROVE  Kept(v)'
  BY <1>1, <1>3, KeptSSUserAuth
<1>4. ASSUME NEW u \in Users, NEW n \in Logins, SSUserChooseShard(u, n) \/ SSUserDisconnection(u, n)
      PROVE  Kept(v)'
  BY <1>1, <1>4, KeptSSUserChooseShard, KeptSSUserDisconnection
<1>5. \A u \in Users : ~SSAlreadyOnline(u) /\ \A n \in Logins : ~SSForceLogin(u, n)
  BY NoSecondLogin
<1>6. QED
  BY <1>1, <1>2, <1>3, <1>4, <1>5, NeverForced DEF SSNext

(* Every step of the system keeps Kept for every user.                     *)
LEMMA NextKeeps ==
  ASSUME Around, Next, \A a \in Users : Kept(a), NEW v \in Users
  PROVE  Kept(v)'
BY LSStepKeeps, WSStepKeeps, FSStepKeeps, ClientStepKeeps, SSStepKeeps, KeptSSShardAnswer, KeptPlay DEF Next

(* What NoForce says of what is in flight, after a step.                   *)
LEMMA PeacefulThen ==
  ASSUME NetTyped', Peaceful'
  PROVE  /\ \A x \in Flights' : x[2].kind \notin {"M_NT_REQ_FORCE_LOGOFF", "M_LS_RELOGOFF"}
         /\ \A x \in Flights' : x[2].kind = "M_CLIENT_CONNECT_STATUS" => x[1][2] = SS \/ Source(x) \in Shards
<1>1. ASSUME NEW x \in Flights' PROVE x \in Flying
  <2>1. PICK l \in Links : \E i \in DOMAIN net'[l] : x = <<l, net'[l][i]>>
    BY DEF Flights
  <2>2. PICK i \in DOMAIN net'[l] : x = <<l, net'[l][i]>>
    BY <2>1
  <2>3. net'[l][i] \in Message
    BY PositionsTyped DEF NetTyped
  <2>4. QED
    BY <2>2, <2>3 DEF Flying
<1>2. \A x \in Flights' : x \notin Forced
  BY DEF Peaceful, Forced
<1>3. QED
  BY <1>1, <1>2 DEF Forced

(* Every step of the system keeps what is known of the system as a whole.  *)
LEMMA NoForceBy ==
  ASSUME Around, Peaceful', jobs' = jobs, fesList' = fesList, dbFaults' = dbFaults, moveTimeouts' = moveTimeouts
  PROVE  NoForce'
<1>1. NetTyped' /\ NoForce
  BY AroundTyped DEF Around
<1>2. /\ \A x \in Flights' : x[2].kind \notin {"M_NT_REQ_FORCE_LOGOFF", "M_LS_RELOGOFF"}
      /\ \A x \in Flights' : x[2].kind = "M_CLIENT_CONNECT_STATUS" => x[1][2] = SS \/ Source(x) \in Shards
  BY <1>1, PeacefulThen
<1>3. JobFlights' = JobFlights
  BY DEF JobFlights
<1>4. QED
  BY <1>1, <1>2, <1>3 DEF NoForce

(* Every step keeps NoForce: with one login per user, no failing query and *)
(* no dropped move, nobody is forced off.                                  *)
LEMMA NextKeepsNoForce ==
  ASSUME Around, Next, \A a \in Users : Kept(a)
  PROVE  NoForce'
<1>1. CASE LSStep
  <2>1. LSNext /\ jobs' = jobs /\ fesList' = fesList
    BY <1>1 DEF LSStep, wsVars
  <2>2. Peaceful' /\ dbFaults' = dbFaults /\ moveTimeouts' = moveTimeouts
    BY <2>1, LSKeepsPeace, LSKeepsCounts DEF Around, NoForce
  <2>3. QED
    BY <2>1, <2>2, NoForceBy
<1>2. CASE WSStep
  <2>1. WSNext /\ moveTimeouts' = moveTimeouts
    BY <1>2 DEF WSStep, lsVars
  <2>2. NetTyped' /\ moveTimeouts = 0
    BY AroundTyped DEF Around, NoForce
  <2>3. /\ Peaceful' /\ dbFaults' = 0 /\ fesList' = Fess
        /\ \A x \in JobFlights' : x[2].job # "ForcedLogout"
    BY <2>1, WSKeepsPeace, WSKeepsQueries, WSKeepsCounts
  <2>4. /\ \A x \in Flights' : x[2].kind \notin {"M_NT_REQ_FORCE_LOGOFF", "M_LS_RELOGOFF"}
        /\ \A x \in Flights' : x[2].kind = "M_CLIENT_CONNECT_STATUS" => x[1][2] = SS \/ Source(x) \in Shards
    BY <2>2, <2>3, PeacefulThen
  <2>5. QED
    BY <2>1, <2>2, <2>3, <2>4 DEF NoForce
<1>3. CASE FSStep
  <2>1. FSNext /\ jobs' = jobs /\ fesList' = fesList /\ moveTimeouts' = moveTimeouts
    BY <1>3 DEF FSStep, wsVars, lsVars
  <2>2. dbFaults' = dbFaults
    BY <2>1 DEF FSNext, FSChooseShard, FSDisconnectClient, FSEnterShardOk, FSChangeShardAns,
       FSShardValidation, FSInvalidCookie, FSDisconnected, FSRefreshPending, netVars
  <2>3. QED
    BY <2>1, <2>2, FESKeepsPeace, NoForceBy
<1>4. CASE ClientStep
  <2>1. jobs' = jobs /\ fesList' = fesList /\ moveTimeouts' = moveTimeouts
    BY <1>4 DEF ClientStep, wsVars, lsVars
  <2>2. dbFaults' = dbFaults
    BY <1>4 DEF ClientStep, ClientConnect, ClientClose, FSChangeShardReq, netVars
  <2>3. QED
    BY <1>4, <2>1, <2>2, ClientsKeepPeace, NoForceBy
<1>5. CASE SSStep
  <2>1. SSNext /\ jobs' = jobs /\ fesList' = fesList /\ moveTimeouts' = moveTimeouts
    BY <1>5 DEF SSStep, wsVars, lsVars
  <2>2. dbFaults' = dbFaults
    BY <2>1 DEF SSNext, SSUserAuth, SSAlreadyOnline, SSForceLogin, SSUserChooseShard, SSUserDisconnection,
       SSDisplayShardList, SSForceLogoff, SSClientConnected, SSFailed, netVars
  <2>3. QED
    BY <2>1, <2>2, SSKeepsPeace, NoForceBy
<1>6. CASE SSShardAnswer
  <2>1. jobs' = jobs /\ fesList' = fesList /\ moveTimeouts' = moveTimeouts /\ dbFaults' = dbFaults
    BY <1>6 DEF SSShardAnswer, wsVars, lsVars
  <2>2. QED
    BY <1>6, <2>1, SSKeepsPeace, NoForceBy
<1>7. ASSUME NEW f \in Fess, NEW k \in Conns, Play(f, k)
      PROVE  NoForce'
  <2>1. jobs' = jobs /\ fesList' = fesList /\ moveTimeouts' = moveTimeouts /\ dbFaults' = dbFaults /\ net' = net
    BY <1>7 DEF Play, netVars, lsVars
  <2>2. QED
    BY <2>1, StillPeaceful, NoForceBy
<1>8. QED
  BY <1>1, <1>2, <1>3, <1>4, <1>5, <1>6, <1>7 DEF Next

(* Every step keeps ChangesToShards.                                       *)
LEMMA NextKeepsChanges ==
  ASSUME Around, Next
  PROVE  ChangesToShards'
<1>1. CASE LSStep
  BY <1>1, LSKeepsChanges DEF LSStep
<1>2. CASE changeReq' = changeReq
  BY <1>2 DEF Around, ChangesToShards
<1>3. CASE WSStep \/ FSStep \/ SSStep \/ ClientStep \/ SSShardAnswer \/ \E f \in Fess, k \in Conns : Play(f, k)
  <2>1. changeReq' = changeReq
    BY <1>3 DEF WSStep, FSStep, SSStep, ClientStep, SSShardAnswer, Play, lsVars
  <2>2. QED
    BY <1>2, <2>1
<1>4. QED
  BY <1>1, <1>3 DEF Next

(* Every step keeps OpenShown.                                             *)
LEMMA NextKeepsShown ==
  ASSUME Around, Next, \A a \in Users : Kept(a)
  PROVE  OpenShown'
<1>1. CASE FSStep
  BY <1>1, FESKeepsShown DEF FSStep
<1>2. CASE ClientStep
  BY <1>2, ClientsKeepShown
<1>3. CASE LSStep \/ WSStep \/ SSStep \/ SSShardAnswer \/ \E f \in Fess, k \in Conns : Play(f, k)
  <2>1. conn' = conn /\ events' = events
    BY <1>3 DEF LSStep, WSStep, SSStep, SSShardAnswer, Play, fsVars
  <2>2. QED
    BY <2>1 DEF Around, OpenShown
<1>4. QED
  BY <1>1, <1>2, <1>3 DEF Next

-----------------------------------------------------------------------------
(* The invariant of the handover.                                          *)
HandoverInv ==
  /\ TypeOK /\ OfItsShard /\ WaitsForAnotherShard /\ \A f \in Fess : Sockets(f)
  /\ NoForce /\ ChangesToShards /\ OpenShown /\ \A u \in Users : Kept(u)

(* At the start nobody is anywhere, and nothing is under way.              *)
LEMMA NothingAtFirst ==
  ASSUME Init
  PROVE  /\ Flights = {} /\ JobFlights = {} /\ (\A K : LoneIn(K) /\ LoneJob(K))
         /\ (\A A, B : Ordered(A, B))
         /\ \A u \in Users : Room(u) = {} /\ Cand(u) = {} /\ Fresh(u) = {} /\ Gone(u) = {}
                             /\ Content(u) = {} /\ Odd(u) = {}
<1>1. /\ \A l \in Links : net[l] = << >>
      /\ \A s \in Shards : jobs[s] = << >>
      /\ \A f \in Fess, k \in Conns : conn[f][k] = FreeConn
  BY DEF Init, NetInit, WSInit, FSInit
<1>2. DOMAIN << >> = {}
  OBVIOUS
<1>3. ~FreeConn.open /\ ~FreeConn.used
  BY DEF FreeConn
<1>4. \A c \in Places : Sock(c) = FreeConn
  BY <1>1 DEF Places, Sock
<1>5. \A u \in Users : Room(u) = {} /\ Cand(u) = {} /\ Fresh(u) = {} /\ Gone(u) = {}
                       /\ Content(u) = {} /\ Odd(u) = {}
  BY <1>3, <1>4 DEF Room, Cand, Fresh, Gone, Content, Odd
<1>6. (\A l \in Links : DOMAIN net[l] = {}) /\ (\A s \in Shards : DOMAIN jobs[s] = {})
  BY <1>1, <1>2
<1>7. Flights = {} /\ JobFlights = {}
  <2>1. ASSUME NEW z \in Flights PROVE FALSE
    BY <1>6 DEF Flights
  <2>2. ASSUME NEW z \in JobFlights PROVE FALSE
    BY <1>6 DEF JobFlights
  <2>3. QED
    BY <2>1, <2>2
<1>8. (\A K : LoneIn(K) /\ LoneJob(K)) /\ \A A, B : Ordered(A, B)
  BY <1>6 DEF LoneIn, LoneJob, Ordered
<1>9. QED
  BY <1>5, <1>7, <1>8

(* Kept holds at the start.                                                *)
LEMMA KeptInit ==
  ASSUME Init, NEW u \in Users
  PROVE  Kept(u)
<1>1. /\ Flights = {} /\ JobFlights = {} /\ (\A K : LoneIn(K) /\ LoneJob(K)) /\ (\A A, B : Ordered(A, B))
      /\ Room(u) = {} /\ Cand(u) = {} /\ Fresh(u) = {} /\ Gone(u) = {} /\ Content(u) = {} /\ Odd(u) = {}
  BY NothingAtFirst
<1>2. /\ tempCookie[u] = NoShard /\ current[u] = NoShard /\ waiting[u] = Nowhere /\ changeReq[u] = Nowhere
      /\ moving[u] = NoMove /\ ~abnormal[u] /\ infoCur[u] = NoShard /\ offers[u] = {}
      /\ (\A s \in Shards : wsAssoc[s][u] = NoFes) /\ ~onlineStatus[u] /\ dbOnline[u] = NoShard
      /\ \A n \in Logins : sock[u][n] = "unused"
  BY DEF Init, LSInit, WSInit, FSInit, SSInit
<1>3. LoadedShard(u) \in Shards /\ data[LoadedShard(u)][u] = 1 /\ latest[u] = 1
  <2>1. MainShard[u] \in Shards /\ InitDbCur[u] \in ShardOrNone
    BY PlacesOK, InitDbCurOK
  <2>2. LoadedShard(u) = IF InitDbCur[u] = NoShard THEN MainShard[u] ELSE InitDbCur[u]
    BY DEF Init, LoadedShard
  <2>3. LoadedShard(u) \in Shards
    BY <2>1, <2>2 DEF ShardOrNone
  <2>4. QED
    BY <2>2, <2>3 DEF Init
<1>4. \A s \in Shards : ~EndsOn(u, s)
  BY <1>1 DEF EndsOn
<1>5. ~Waits(u) /\ ~Fetches(u)
  BY <1>2 DEF Waits, Fetches, NoMove
<1>6. \A s \in Shards : ~InDanger(u, s)
  <2>1. ASSUME NEW s \in Shards PROVE tempCookie[u] # s
    BY <1>2, NullsDistinct
  <2>2. QED
    BY <1>1, <2>1 DEF InDanger
<1>7. OneEnd(u) /\ OneCopy(u) /\ Inside(u) /\ Leaves(u) /\ TokensOK(u)
  BY <1>1, <1>4 DEF OneEnd, OneCopy, Inside, Leaves, TokensOK, IsLone
<1>8. Outside(u)
  BY <1>1, <1>2, <1>5 DEF Outside, OffersOK, FreshOK, WaitsOK, FetchOK, IsLone
<1>9. Young(u)
  BY <1>1, <1>2, <1>4, <1>5 DEF Young, Blank, Idle, Calls
<1>10. Kicked(u)
  BY <1>1, <1>6 DEF Kicked, DangerOK, KicksOK, KicksFirst
<1>11. Stored(u)
  BY <1>1, <1>2, <1>3 DEF Stored, HomeOfData
<1>12. QED
  BY <1>7, <1>8, <1>9, <1>10, <1>11 DEF Kept

(* The invariant holds at the start ...                                    *)
LEMMA HandoverInit ==
  ASSUME Init
  PROVE  HandoverInv
<1>1. TypeOK /\ \A f \in Fess : Sockets(f)
  BY InitTyped, SocketsInit DEF Init
<1>2. OfItsShard
  BY DEF Init, WSInit, OfItsShard
<1>3. WaitsForAnotherShard /\ ChangesToShards
  BY DEF Init, LSInit, WaitsForAnotherShard, ChangesToShards
<1>4. NoForce
  BY NothingAtFirst DEF NoForce, Init, WSInit, NetInit, LSInit
<1>5. OpenShown
  <2>1. \A f \in Fess : events[f] = << >>
    BY DEF Init, FSInit
  <2>2. DOMAIN << >> = {}
    OBVIOUS
  <2>3. QED
    BY <2>1, <2>2 DEF OpenShown
<1>6. QED
  BY <1>1, <1>2, <1>3, <1>4, <1>5, KeptInit DEF HandoverInv

(* A step in which nothing happens. *)
LEMMA KeptIdle ==
  ASSUME UNCHANGED vars, NEW u \in Users, Kept(u)
  PROVE  Kept(u)'
<1>1. /\ UNCHANGED <<net, dbOnline, dbCur, jobs, wsAssoc, data, conn, offers, sock, onlineStatus, latest>>
      /\ UNCHANGED <<tempCookie, current, waiting, changeReq, moving, abnormal, infoCur>>
  BY DEF vars, lsVars, wsVars, fsVars, ssVars
<1>2. /\ Flights' = Flights /\ JobFlights' = JobFlights /\ Room(u)' = Room(u) /\ Cand(u)' = Cand(u)
      /\ Fresh(u)' = Fresh(u) /\ Gone(u)' = Gone(u) /\ Content(u)' = Content(u) /\ Odd(u)' = Odd(u)
      /\ LoadedShard(u)' = LoadedShard(u)
  BY <1>1 DEF Flights, JobFlights, Sock, Room, Cand, Fresh, Gone, Content, Odd, LoadedShard
<1>3. /\ \A K : LoneIn(K)' = LoneIn(K) /\ LoneJob(K)' = LoneJob(K)
      /\ \A A, B : Ordered(A, B)' = Ordered(A, B)
  BY <1>1 DEF LoneIn, LoneJob, Ordered
<1>4. /\ \A s : EndsOn(u, s)' = EndsOn(u, s)
      /\ Waits(u)' = Waits(u) /\ Fetches(u)' = Fetches(u) /\ HomeOfData(u)' = HomeOfData(u)
  BY <1>1, <1>2 DEF EndsOn, Waits, Fetches, HomeOfData
<1>5. /\ Calls(u)' = Calls(u) /\ Blank(u)' = Blank(u) /\ Idle(u)' = Idle(u)
  BY <1>1, <1>2, <1>4 DEF Calls, Blank, Idle
<1>6. OneEnd(u)' /\ OneCopy(u)' /\ Inside(u)'
  BY <1>1, <1>2, <1>3, <1>4 DEF Kept, OneEnd, OneCopy, Inside, IsLone
<1>7. Outside(u)' /\ Leaves(u)'
  BY <1>1, <1>2, <1>4 DEF Kept, Outside, OffersOK, FreshOK, WaitsOK, FetchOK, Leaves, IsLone, LeftTok
<1>8. TokensOK(u)'
  <2>1. \A x : TokenOK(u, x)' = TokenOK(u, x)
    BY <1>1, <1>2, <1>4, <1>5 DEF TokenOK, AskOK, ReportOK, EntryOK
  <2>2. QED
    BY <1>2, <1>3, <2>1 DEF Kept, TokensOK
<1>9. Young(u)'
  BY <1>1, <1>2, <1>4, <1>5 DEF Kept, Young
<1>10. Kicked(u)'
  <2>1. \A s : First(u, s)' = First(u, s)
    BY <1>1, <1>2, <1>4 DEF First, FirstHere, FirstTok
  <2>2. \A s, f : Past(u, s, f)' = Past(u, s, f)
    BY <1>1, <1>2, <1>4 DEF Past, PastHere, PastTok
  <2>3. \A s : InDanger(u, s)' = InDanger(u, s)
    BY <1>1, <1>2 DEF InDanger
  <2>4. QED
    BY <1>1, <1>2, <1>3, <2>1, <2>2, <2>3 DEF Kept, Kicked, DangerOK, KicksOK, KicksFirst
<1>11. Stored(u)'
  BY <1>1, <1>2, <1>4 DEF Kept, Stored, CopyOK
<1>12. QED
  BY <1>6, <1>7, <1>8, <1>9, <1>10, <1>11 DEF Kept

(* ... is kept when nothing happens ...                                    *)
LEMMA HandoverIdle ==
  ASSUME UNCHANGED vars, HandoverInv
  PROVE  NoForce' /\ ChangesToShards' /\ OpenShown' /\ WaitsForAnotherShard'
BY DEF vars, lsVars, wsVars, fsVars, HandoverInv, NoForce, ChangesToShards, OpenShown, Flights, JobFlights,
   WaitsForAnotherShard

(* ... and by every step.                                                  *)
LEMMA HandoverKept ==
  ASSUME Settings, HandoverInv, [Next]_vars
  PROVE  HandoverInv'
<1>1. TypeOK' /\ OfItsShard' /\ \A f \in Fess : Sockets(f)'
  BY NextTyped, OfItsShardKept, SocketsKept DEF HandoverInv
<1>2. CASE UNCHANGED vars
  BY <1>1, <1>2, KeptIdle, HandoverIdle DEF HandoverInv
<1>3. CASE Next
  <2>1. Around
    BY <1>1 DEF Around, HandoverInv
  <2>2. \A a \in Users : Kept(a)
    BY DEF HandoverInv
  <2>3. WaitsForAnotherShard'
    <3>1. CASE LSStep
      BY <3>1, LSNextKeepsWaiting, TypeOKIs DEF LSStep, HandoverInv
    <3>2. CASE ~LSStep
      BY <3>2, OnlyLS DEF HandoverInv, WaitsForAnotherShard
    <3>3. QED
      BY <3>1, <3>2
  <2>4. \A a \in Users : Kept(a)'
    BY <1>3, <2>1, <2>2, NextKeeps
  <2>5. NoForce' /\ ChangesToShards' /\ OpenShown'
    BY <1>3, <2>1, <2>2, NextKeepsNoForce, NextKeepsChanges, NextKeepsShown
  <2>6. QED
    BY <1>1, <2>3, <2>4, <2>5 DEF HandoverInv
<1>4. QED
  BY <1>2, <1>3

(* What it says of the users.                                              *)
LEMMA PlaysIn ==
  ASSUME NEW u \in Users
  PROVE  \A s \in PlaysOn(u) : \E c \in Room(u) : s = ShardOf[c[1]]
BY DEF PlaysOn, InRoom, Room, Places, Sock

(* What the invariant says of rooms and data: the four properties of the   *)
(* run Handover on sessions and data.                                      *)
LEMMA HandoverGives ==
  ASSUME HandoverInv
  PROVE  EnteredOnOneShard /\ RoomHasLatestData /\ LatestDataKept /\ PlayIsRecorded
<1>1. ASSUME NEW u \in Users, NEW s \in PlaysOn(u)
      PROVE  current[u] = s /\ dbOnline[u] = s /\ data[s][u] = latest[u]
  <2>1. PICK c \in Room(u) : s = ShardOf[c[1]]
    BY <1>1, PlaysIn
  <2>2. Inside(u) /\ Stored(u)
    BY DEF HandoverInv, Kept
  <2>3. current[u] = s /\ infoCur[u] = s /\ moving[u] = NoMove
    BY <2>1, <2>2 DEF Inside
  <2>4. c[1] \in Fess
    BY <2>1 DEF Room, Places
  <2>5. s \in Shards /\ s # NoShard
    BY <2>1, <2>4, FSNulls, NullsDistinct
  <2>6. QED
    BY <2>2, <2>3, <2>5 DEF Stored, HomeOfData
<1>2. ASSUME NEW u \in Users, NEW s \in PlaysOn(u), NEW t \in PlaysOn(u)
      PROVE  s = t
  BY <1>1
<1>3. LatestDataKept
  BY DEF HandoverInv, Kept, Stored, LatestDataKept
<1>4. QED
  BY <1>1, <1>2, <1>3 DEF EnteredOnOneShard, RoomHasLatestData, PlayIsRecorded

-----------------------------------------------------------------------------
(* The inductive invariant of the handover holds in every reachable state, *)
(* for any number of users, shards, front ends, sockets and changes of     *)
(* shard, when clients wait for their entry, every user logs in once, no   *)
(* query fails and no move of data is dropped (Settings): the LS, the WSs, *)
(* the front ends and their sockets, what is queued and what is in flight  *)
(* agree on where each user is and where its last data is.                 *)
THEOREM Handover ==
  ASSUME Settings
  PROVE  Spec => []HandoverInv
<1>1. Init => HandoverInv
  BY HandoverInit
<1>2. HandoverInv /\ [Next]_vars => HandoverInv'
  BY HandoverKept
<1>3. QED
  BY <1>1, <1>2, PTL DEF Spec

(* Under the same settings a user is in the rooms of at most one shard:    *)
(* the LS lets it in on the next one (sendM_ENTER__SHARD) only after its   *)
(* old session was logged off, although choosing, connecting, reporting    *)
(* and logging off are messages on five kinds of links that no one orders. *)
(* The runs LeavesEarly and TwoShards show that it fails when a client     *)
(* does not wait and when a second login is forced.                        *)
THEOREM PlaysOnOneShard ==
  ASSUME Settings
  PROVE  Spec => []EnteredOnOneShard
<1>1. HandoverInv => EnteredOnOneShard
  BY HandoverGives
<1>2. QED
  BY <1>1, Handover, PTL

(* Under the same settings the shard on which a user plays has the last    *)
(* version of its data, whatever copies M_NT_MOVE_USER_DATA_REQ started    *)
(* before: no entry overtakes the copy that it needs.                      *)
THEOREM RoomsHaveLatestData ==
  ASSUME Settings
  PROVE  Spec => []RoomHasLatestData
<1>1. HandoverInv => RoomHasLatestData
  BY HandoverGives
<1>2. QED
  BY <1>1, Handover, PTL

(* Under the same settings some shard always has the last version of the   *)
(* data of every user: a copy that arrives late never overwrites the only  *)
(* last version by an older one.                                           *)
THEOREM LatestDataNeverLost ==
  ASSUME Settings
  PROVE  Spec => []LatestDataKept
<1>1. HandoverInv => LatestDataKept
  BY HandoverGives
<1>2. QED
  BY <1>1, Handover, PTL

(* Under the same settings a user that plays is recorded where it plays:   *)
(* g_mapCurrentUserWsSid of the LS and the online record of the main       *)
(* database name the shard whose rooms it is in, whatever logoff of an     *)
(* earlier session is reported late.                                       *)
THEOREM PlayAlwaysRecorded ==
  ASSUME Settings
  PROVE  Spec => []PlayIsRecorded
<1>1. HandoverInv => PlayIsRecorded
  BY HandoverGives
<1>2. QED
  BY <1>1, Handover, PTL

-----------------------------------------------------------------------------
(* The services implement ShardPlay                                        *)

(* A socket stays as it is, or is of u and no longer in a room.            *)
Steady(c) == Sock(c)'.u = Sock(c).u /\ Sock(c)'.open = Sock(c).open /\ Sock(c)'.entered = Sock(c).entered
Goes(c, u) == /\ ~(Sock(c)'.open /\ Sock(c)'.entered)
              /\ Sock(c).open /\ Sock(c).entered => Sock(c).u = u
(* Of all users only u may leave a room, and no one enters one.            *)
OnlyLeaves(u) == /\ \A v \in Users : v # u => Room(v)' = Room(v)
                 /\ Room(u)' \subseteq Room(u)

(* If no socket enters a room, and only sockets of u go, only u leaves.    *)
LEMMA OnlyLeavesBy ==
  ASSUME NEW u, \A c \in Places : Steady(c) \/ Goes(c, u)
  PROVE  OnlyLeaves(u)
<1>1. ASSUME NEW v, NEW c \in Room(v)'
      PROVE  c \in Room(v)
  BY <1>1 DEF Room, Steady, Goes
<1>2. ASSUME NEW v, v # u, NEW c \in Room(v)
      PROVE  c \in Room(v)'
  BY <1>2 DEF Room, Steady, Goes
<1>3. ASSUME NEW v, v # u
      PROVE  Room(v)' = Room(v)
  <2>1. \A c \in Room(v)' : c \in Room(v)
    BY <1>1
  <2>2. \A c \in Room(v) : c \in Room(v)'
    BY <1>2, <1>3
  <2>3. QED
    BY <2>1, <2>2
<1>4. Room(u)' \subseteq Room(u)
  BY <1>1
<1>5. QED
  BY <1>3, <1>4 DEF OnlyLeaves

(* A step of f, or of its clients, concerns the sockets of f.              *)
LEMMA OnItsSockets ==
  ASSUME FSTyped, NEW f \in Fess, \A g \in Fess : g # f => conn'[g] = conn[g],
         NEW u, \A k \in Conns : LET c == conn[f][k]
                                     d == conn'[f][k]
                                 IN  \/ d.u = c.u /\ d.open = c.open /\ d.entered = c.entered
                                     \/ ~(d.open /\ d.entered) /\ (c.open /\ c.entered => c.u = u)
  PROVE  OnlyLeaves(u)
<1>1. ASSUME NEW c \in Places
      PROVE  Steady(c) \/ Goes(c, u)
  <2>1. c[1] \in Fess /\ c[2] \in Conns
    BY DEF Places
  <2>2. CASE c[1] = f
    BY <2>1, <2>2 DEF Steady, Goes, Sock
  <2>3. CASE c[1] # f
    BY <2>1, <2>3 DEF Steady, Sock
  <2>4. QED
    BY <2>2, <2>3
<1>2. QED
  BY <1>1, OnlyLeavesBy

(* A session of u is closed. *)
LEMMA ShutLeaves ==
  ASSUME FSTyped, NEW f \in Fess, \A g \in Fess : g # f => conn'[g] = conn[g],
         NEW u, NEW k, NEW c \in [Conns -> Conn], conn'[f] = Shut(c, {k}), k \in Conns => conn[f][k].u = u,
         \A j \in Conns : c[j].u = conn[f][j].u /\ c[j].open = conn[f][j].open /\ c[j].entered = conn[f][j].entered
  PROVE  OnlyLeaves(u)
<1>1. ASSUME NEW j \in Conns
      PROVE  LET x == conn[f][j]
                 y == conn'[f][j]
             IN  \/ y.u = x.u /\ y.open = x.open /\ y.entered = x.entered
                 \/ ~(y.open /\ y.entered) /\ (x.open /\ x.entered => x.u = u)
  <2>1. CASE j = k
    <3>1. c[j] \in Conn /\ conn'[f][j] = [c[j] EXCEPT !.open = FALSE]
      BY <2>1 DEF Shut
    <3>2. ~conn'[f][j].open
      BY <3>1 DEF Conn
    <3>3. QED
      BY <2>1, <3>2
  <2>2. CASE j # k
    BY <2>2 DEF Shut
  <2>3. QED
    BY <2>1, <2>2
<1>2. QED
  BY <1>1, OnItsSockets

(* Closing the session of u makes at most u leave.                         *)
LEMMA AccountLeaves ==
  ASSUME FSTyped, NEW f \in Fess, Sockets(f), \A g \in Fess : g # f => conn'[g] = conn[g],
         NEW u \in Users, DisconnectAccount(f, u)
  PROVE  OnlyLeaves(u)
<1>1. conn'[f] = Shut(conn[f], {assoc[f][u]})
  BY DisconnectAccountIs
<1>2. PICK k : k = assoc[f][u]
  OBVIOUS
<1>3. k \in Conns => conn[f][k].u = u
  BY <1>2, ConnsOK DEF Sockets, Names, Conns
<1>4. PICK c \in [Conns -> Conn] : c = conn[f]
  BY SocketsTyped
<1>5. conn'[f] = Shut(c, {k})
  BY <1>1, <1>2, <1>4
<1>6. QED
  BY <1>3, <1>4, <1>5, ShutLeaves

(* A cookie that is shown makes at most its user leave.                    *)
LEMMA ValidationLeaves ==
  ASSUME FSTyped, NEW f \in Fess, Sockets(f), \A g \in Fess : g # f => conn'[g] = conn[g], FSShardValidation(f)
  PROVE  \E u \in Users : OnlyLeaves(u)
<1>1. PICK e : e = Head(events[f])
  OBVIOUS
<1>2. PICK u : u = conn[f][e.k].u
  OBVIOUS
<1>3. PICK c : c = App(conn[f], e.k)
  OBVIOUS
<1>4. PICK k : k = assoc[f][u]
  OBVIOUS
<1>5. u \in Users /\ e.k \in Conns /\ conn'[f] = Shut(c, {k})
  BY <1>1, <1>2, <1>3, <1>4, ShardValidationIs
<1>6. k \in Conns => conn[f][k].u = u
  BY <1>4, <1>5, ConnsOK DEF Sockets, Names, Conns
<1>7. PICK b \in [Conns -> Conn] : b = conn[f]
  BY SocketsTyped
<1>8. c \in [Conns -> Conn] /\ \A j \in Conns : c[j].u = b[j].u /\ c[j].open = b[j].open /\ c[j].entered = b[j].entered
  <2>1. c = App(b, e.k)
    BY <1>3, <1>7
  <2>2. QED
    BY <1>5, <2>1 DEF App, Conn
<1>9. OnlyLeaves(u)
  BY <1>5, <1>6, <1>7, <1>8, ShutLeaves
<1>10. QED
  BY <1>5, <1>9

(* Both sockets of an invalid cookie are its user's.                       *)
LEMMA InvalidLeaves ==
  ASSUME FSTyped, NEW f \in Fess, Sockets(f), \A g \in Fess : g # f => conn'[g] = conn[g], FSInvalidCookie(f)
  PROVE  \E u \in Users : OnlyLeaves(u)
<1>1. PICK e : e = Head(events[f])
  OBVIOUS
<1>2. PICK u : u = conn[f][e.k].u
  OBVIOUS
<1>3. PICK k : k = assoc[f][u]
  OBVIOUS
<1>4. PICK c \in [Conns -> Conn] : c = conn[f]
  BY SocketsTyped
<1>5. u \in Users /\ e.k \in Conns /\ conn'[f] = Shut(Shut(c, {k}), {e.k})
  BY <1>1, <1>2, <1>3, <1>4, InvalidCookieIs
<1>6. k \in Conns => c[k].u = u
  BY <1>3, <1>4, <1>5, ConnsOK DEF Sockets, Names, Conns
<1>7. ASSUME NEW j \in Conns
      PROVE  LET y == conn'[f][j]
             IN  \/ y.u = c[j].u /\ y.open = c[j].open /\ y.entered = c[j].entered
                 \/ ~(y.open /\ y.entered) /\ (c[j].open /\ c[j].entered => c[j].u = u)
  <2>1. CASE j = k \/ j = e.k
    <3>1. c[j].u = u
      BY <1>2, <1>4, <1>6, <2>1
    <3>2. conn'[f][j] \in {[c[j] EXCEPT !.open = FALSE], [[c[j] EXCEPT !.open = FALSE] EXCEPT !.open = FALSE]}
      BY <1>5, <2>1 DEF Shut
    <3>3. c[j] \in Conn
      OBVIOUS
    <3>4. ~conn'[f][j].open
      BY <3>2, <3>3 DEF Conn
    <3>5. QED
      BY <3>1, <3>4
  <2>2. CASE j # k /\ j # e.k
    <3>1. conn'[f][j] = c[j]
      BY <1>5, <2>2 DEF Shut
    <3>2. QED
      BY <3>1
  <2>3. QED
    BY <2>1, <2>2
<1>8. OnlyLeaves(u)
  BY <1>4, <1>7, OnItsSockets
<1>9. QED
  BY <1>5, <1>8

(* A socket that is freed is closed.                                       *)
LEMMA FreedLeaves ==
  ASSUME FSTyped, NEW f \in Fess, Sockets(f), \A g \in Fess : g # f => conn'[g] = conn[g], FSDisconnected(f)
  PROVE  \E u \in Users : OnlyLeaves(u)
<1>1. PICK q \in Seq(Event) : q = events[f]
  BY SocketsTyped
<1>2. PICK c \in [Conns -> Conn] : c = conn[f]
  BY SocketsTyped
<1>3. PICK k : k = Head(q).k
  OBVIOUS
<1>4. q # << >> /\ Head(q).ev = "disconnection" /\ conn' = [conn EXCEPT ![f][k] = FreeConn]
  BY <1>1, <1>3 DEF FSDisconnected
<1>5. conn'[f] = [c EXCEPT ![k] = FreeConn]
  BY <1>2, <1>4, SocketsTyped
<1>6. InOrder(q, c)
  BY <1>1, <1>2 DEF Sockets
<1>7. k \in Conns /\ ~c[k].open
  BY <1>3, <1>4, <1>6, HeadInOrder
<1>8. ~FreeConn.open
  BY DEF FreeConn
<1>9. PICK u \in Users : TRUE
  BY SomeUser
<1>10. ASSUME NEW j \in Conns
       PROVE  LET y == conn'[f][j]
              IN  \/ y.u = c[j].u /\ y.open = c[j].open /\ y.entered = c[j].entered
                  \/ ~(y.open /\ y.entered) /\ (c[j].open /\ c[j].entered => c[j].u = u)
  BY <1>5, <1>7, <1>8
<1>11. OnlyLeaves(u)
  BY <1>2, <1>10, OnItsSockets
<1>12. QED
  BY <1>9, <1>11

(* In a step of f the other front ends keep their sockets.                 *)
LEMMA OthersKeep ==
  ASSUME FSTyped, NEW f \in Fess,
         \/ FSChooseShard(f) \/ FSDisconnectClient(f) \/ FSEnterShardOk(f)
         \/ FSChangeShardAns(f) \/ FSShardValidation(f) \/ FSInvalidCookie(f)
         \/ FSDisconnected(f) \/ FSRefreshPending(f)
         \/ \E k \in Conns : ClientClose(f, k) \/ FSChangeShardReq(f, k)
  PROVE  \A g \in Fess : g # f => conn'[g] = conn[g]
<1>1. ASSUME NEW g \in Fess, g # f
      PROVE  conn'[g] = conn[g]
  <2>1. f \in Fess \ {g}
    BY <1>1
  <2>2. QED
    BY <2>1, OtherSockets
<1>2. QED
  BY <1>1

(* What a step does to the rooms: it changes nothing but the flags of some *)
(* sockets, or one user leaves ...                                         *)
LEMMA FlagsLeave ==
  ASSUME FSTyped, NEW f \in Fess, \A g \in Fess : g # f => conn'[g] = conn[g],
         \A k \in Conns : /\ conn'[f][k].u = conn[f][k].u /\ conn'[f][k].open = conn[f][k].open
                          /\ conn'[f][k].entered = conn[f][k].entered
  PROVE  \E u \in Users : OnlyLeaves(u)
<1>1. PICK u \in Users : TRUE
  BY SomeUser
<1>2. \A k \in Conns : LET c == conn[f][k]
                           d == conn'[f][k]
                       IN  \/ d.u = c.u /\ d.open = c.open /\ d.entered = c.entered
                           \/ ~(d.open /\ d.entered) /\ (c.open /\ c.entered => c.u = u)
  OBVIOUS
<1>3. OnlyLeaves(u)
  BY <1>2, OnItsSockets
<1>4. QED
  BY <1>1, <1>3

(* A step of a front end other than FSEnterShardOk lets nobody in, and at  *)
(* most one user leaves.                                                   *)
LEMMA FESLeaves ==
  ASSUME FSTyped, NEW f \in Fess, Sockets(f),
         \/ FSChooseShard(f) \/ FSDisconnectClient(f) \/ FSChangeShardAns(f) \/ FSShardValidation(f)
         \/ FSInvalidCookie(f) \/ FSDisconnected(f) \/ FSRefreshPending(f)
  PROVE  \E u \in Users : OnlyLeaves(u)
<1>1. \A g \in Fess : g # f => conn'[g] = conn[g]
  BY OthersKeep
<1>2. CASE FSChooseShard(f) \/ FSDisconnectClient(f)
  <2>1. PICK u : DisconnectAccount(f, u) /\ u = Head(net[<<ShardOf[f], f>>]).u
    BY <1>2 DEF FSChooseShard, FSDisconnectClient
  <2>2. u \in Users
    BY <1>2, <2>1, FSHeadTyped DEF FSChooseShard, FSDisconnectClient
  <2>3. OnlyLeaves(u)
    BY <1>1, <2>1, <2>2, AccountLeaves
  <2>4. QED
    BY <2>2, <2>3
<1>3. CASE FSChangeShardAns(f)
  <2>1. PICK K \in SUBSET Conns :
          conn' = [conn EXCEPT ![f] = [j \in Conns |->
                     IF j \in K THEN [@[j] EXCEPT !.asked = FALSE] ELSE @[j]]]
    BY <1>3 DEF FSChangeShardAns
  <2>2. \A j \in Conns : /\ conn'[f][j].u = conn[f][j].u /\ conn'[f][j].open = conn[f][j].open
                         /\ conn'[f][j].entered = conn[f][j].entered
    BY <2>1, SocketsTyped DEF Conn
  <2>3. QED
    BY <1>1, <2>2, FlagsLeave
<1>4. CASE FSRefreshPending(f)
  <2>1. conn' = conn
    BY <1>4 DEF FSRefreshPending
  <2>2. QED
    BY <1>1, <2>1, FlagsLeave
<1>5. QED
  BY <1>1, <1>2, <1>3, <1>4, ValidationLeaves, InvalidLeaves, FreedLeaves

(* A step of a client lets nobody in, and at most one user leaves.         *)
LEMMA ClientsLeave ==
  ASSUME FSTyped, \A f \in Fess : Sockets(f), ClientStep
  PROVE  \E u \in Users : OnlyLeaves(u)
<1>1. ASSUME NEW f \in Fess, NEW k \in Conns, ClientClose(f, k)
      PROVE  \E u \in Users : OnlyLeaves(u)
  <2>1. \A g \in Fess : g # f => conn'[g] = conn[g]
    BY <1>1, OthersKeep
  <2>2. PICK c \in [Conns -> Conn] : c = conn[f]
    BY SocketsTyped
  <2>3. conn'[f] = Shut(c, {k})
    BY <1>1, <2>2, SocketsTyped DEF ClientClose, Closed, Shut
  <2>4. PICK u \in Users : u = conn[f][k].u
    BY <2>2 DEF Conn
  <2>5. OnlyLeaves(u)
    BY <2>1, <2>2, <2>3, <2>4, ShutLeaves
  <2>6. QED
    BY <2>5
<1>2. ASSUME NEW f \in Fess, NEW k \in Conns, FSChangeShardReq(f, k)
      PROVE  \E u \in Users : OnlyLeaves(u)
  <2>1. \A g \in Fess : g # f => conn'[g] = conn[g]
    BY <1>2, OthersKeep
  <2>2. conn' = [conn EXCEPT ![f][k].asked = TRUE]
    BY <1>2 DEF FSChangeShardReq
  <2>3. \A j \in Conns : /\ conn'[f][j].u = conn[f][j].u /\ conn'[f][j].open = conn[f][j].open
                         /\ conn'[f][j].entered = conn[f][j].entered
    BY <2>2, SocketsTyped DEF Conn
  <2>4. QED
    BY <2>1, <2>3, FlagsLeave
<1>3. ASSUME NEW u \in Users, ClientConnect(u)
      PROVE  OnlyLeaves(u)
  <2>1. PICK o \in offers[u], k \in Conns :
          /\ ~conn[o.f][k].used
          /\ conn' = [conn EXCEPT ![o.f][k] =
               [FreeConn EXCEPT !.u = u, !.used = TRUE, !.open = TRUE]]
    BY <1>3 DEF ClientConnect
  <2>2. PICK f \in Fess : f = o.f
    BY DEF FSTyped, FSTypeOK, Offer
  <2>3. PICK new : new = [FreeConn EXCEPT !.u = u, !.used = TRUE, !.open = TRUE]
    OBVIOUS
  <2>4. ~new.entered
    BY <2>3 DEF FreeConn
  <2>5. PICK c \in [Conns -> Conn] : c = conn[f]
    BY SocketsTyped
  <2>6. conn' = [conn EXCEPT ![f][k] = new] /\ ~c[k].used
    BY <2>1, <2>2, <2>3, <2>5
  <2>7. conn'[f] = [c EXCEPT ![k] = new] /\ \A g \in Fess : g # f => conn'[g] = conn[g]
    BY <2>5, <2>6, SocketsTyped
  <2>8. ~c[k].open
    BY <2>5, <2>6 DEF Sockets, InOrder
  <2>9. ASSUME NEW j \in Conns
        PROVE  LET y == conn'[f][j]
               IN  \/ y.u = c[j].u /\ y.open = c[j].open /\ y.entered = c[j].entered
                   \/ ~(y.open /\ y.entered) /\ (c[j].open /\ c[j].entered => c[j].u = u)
    BY <2>4, <2>7, <2>8
  <2>10. QED
    BY <2>5, <2>7, <2>9, OnItsSockets
<1>4. QED
  BY <1>1, <1>2, <1>3 DEF ClientStep

(* ... or one user enters that was in none.                                *)
OnlyEnters(u) == Room(u) = {} /\ \A v \in Users : v # u => Room(v)' = Room(v)
(* FSEnterShardOk lets in one user that was in no room, and nobody else.   *)
LEMMA EnterShardEnters ==
  ASSUME Around, NEW f \in Fess, \A a \in Users : Kept(a), FSEnterShardOk(f)
  PROVE  \E u \in Users : OnlyEnters(u)
<1>1. FSTyped /\ Sockets(f) /\ NetTyped
  BY AroundTyped DEF Around
<1>2. \A g \in Fess : g # f => conn'[g] = conn[g]
  BY <1>1, OthersKeep
<1>3. PICK m : m = Head(net[<<ShardOf[f], f>>])
  OBVIOUS
<1>4. PICK k : k = assoc[f][m.u]
  OBVIOUS
<1>5. /\ Pending(ShardOf[f], f, "M_ENTER__SHARD")
      /\ conn' = IF k = 0 THEN conn ELSE [conn EXCEPT ![f][k].entered = conn[f][k].open]
  BY <1>3, <1>4 DEF FSEnterShardOk
<1>6. <<ShardOf[f], f>> \in Links
  BY LinksAre, FSNulls
<1>7. PICK x : x = <<<<ShardOf[f], f>>, m>>
  OBVIOUS
<1>8. x \in Flights /\ x \in Flying /\ m \in Message /\ m.kind = "M_ENTER__SHARD" /\ m.u \in Users
  <2>1. /\ <<<<ShardOf[f], f>>, m>> \in Flights /\ <<<<ShardOf[f], f>>, m>> \in Flying
        /\ m \in Message /\ m.kind = "M_ENTER__SHARD" /\ m.u \in Users
    BY <1>1, <1>3, <1>5, <1>6, HeadIs
  <2>2. QED
    BY <1>7, <2>1
<1>9. PICK u \in Users : u = m.u
  BY <1>8
<1>10. Room(u) = {}
  <2>1. x \in Entry(u)
    BY <1>7, <1>8, <1>9 DEF Entry
  <2>2. QED
    BY <1>8, <2>1 DEF Kept, TokensOK, TokenOK, EntryOK
<1>11. PICK c \in [Conns -> Conn] : c = conn[f]
  BY <1>1, SocketsTyped
<1>12. k \in Conns => c[k].u = u
  BY <1>1, <1>4, <1>9, <1>11, ConnsOK DEF Sockets, Names, Conns
<1>13. ASSUME NEW v \in Users, v # u
       PROVE  Room(v)' = Room(v)
  <2>1. ASSUME NEW p \in Places
        PROVE  Steady(p) \/ (Sock(p)'.u = u /\ Sock(p).u = u)
    <3>1. p[1] \in Fess /\ p[2] \in Conns
      BY DEF Places
    <3>2. CASE p[1] # f
      <4>1. conn'[p[1]] = conn[p[1]]
        BY <1>2, <3>1, <3>2
      <4>2. Steady(p)
        BY <4>1 DEF Steady, Sock
      <4>3. QED
        BY <4>2
    <3>3. CASE p[1] = f /\ (k = 0 \/ p[2] # k)
      <4> DEFINE j == p[2]
      <4>0. j \in Conns /\ (k = 0 \/ j # k)
        BY <3>1, <3>3
      <4> HIDE DEF j
      <4>3. conn'[f][j] = c[j]
        <5>1. CASE k = 0
          BY <1>5, <1>11, <5>1
        <5>2. CASE k # 0 /\ j # k
          <6>1. conn' = [conn EXCEPT ![f][k].entered = conn[f][k].open]
            BY <1>5, <5>2
          <6>2. QED
            BY <1>1, <1>11, <4>0, <5>2, <6>1, SocketsTyped
        <5>3. QED
          BY <4>0, <5>1, <5>2
      <4>1. conn'[f][p[2]] = c[p[2]]
        BY <4>3 DEF j
      <4>2. QED
        BY <1>11, <3>3, <4>1 DEF Steady, Sock
    <3>4. CASE p[1] = f /\ k # 0 /\ p[2] = k
      <4>1. conn'[f][k] = [c[k] EXCEPT !.entered = c[k].open]
        BY <1>1, <1>5, <1>11, <3>1, <3>4, SocketsTyped
      <4>2. conn'[f][k].u = u /\ c[k].u = u
        BY <1>12, <3>1, <3>4, <4>1 DEF Conn
      <4>3. QED
        BY <1>11, <3>4, <4>2 DEF Sock
    <3>5. QED
      BY <3>2, <3>3, <3>4
  <2>2. \A p \in Room(v)' : p \in Room(v)
    BY <1>13, <2>1 DEF Room, Steady
  <2>3. \A p \in Room(v) : p \in Room(v)'
    BY <1>13, <2>1 DEF Room, Steady
  <2>4. QED
    BY <2>2, <2>3
<1>14. QED
  BY <1>10, <1>13 DEF OnlyEnters

(* What a step does, seen from the rooms.                                  *)
StepOf(u) ==
  \/ OnlyLeaves(u) /\ latest' = latest
  \/ OnlyEnters(u) /\ latest' = latest
  \/ /\ Room(u) # {} /\ \A v \in Users : Room(v)' = Room(v)
     /\ latest' = [latest EXCEPT ![u] = @ + 1]

(* Every step of the system is, for the rooms and the data, a step about   *)
(* one user.                                                               *)
LEMMA RoomsStep ==
  ASSUME Around, \A a \in Users : Kept(a), Next
  PROVE  \E u \in Users : StepOf(u)
<1>1. FSTyped /\ \A f \in Fess : Sockets(f)
  BY AroundTyped DEF Around
<1>2. CASE FSStep
  <2>1. latest' = latest
    BY <1>2 DEF FSStep
  <2>2. PICK f \in Fess :
          \/ FSChooseShard(f) \/ FSDisconnectClient(f) \/ FSEnterShardOk(f)
          \/ FSChangeShardAns(f) \/ FSShardValidation(f) \/ FSInvalidCookie(f)
          \/ FSDisconnected(f) \/ FSRefreshPending(f)
    BY <1>2 DEF FSStep, FSNext
  <2>3. CASE FSEnterShardOk(f)
    <3>1. PICK u \in Users : OnlyEnters(u)
      BY <2>3, EnterShardEnters
    <3>2. QED
      BY <2>1, <3>1 DEF StepOf
  <2>4. CASE ~FSEnterShardOk(f)
    <3>1. PICK u \in Users : OnlyLeaves(u)
      BY <1>1, <2>2, <2>4, FESLeaves
    <3>2. QED
      BY <2>1, <3>1 DEF StepOf
  <2>5. QED
    BY <2>3, <2>4
<1>3. CASE ClientStep
  <2>1. latest' = latest
    BY <1>3 DEF ClientStep
  <2>2. PICK u \in Users : OnlyLeaves(u)
    BY <1>1, <1>3, ClientsLeave
  <2>3. QED
    BY <2>1, <2>2 DEF StepOf
<1>4. ASSUME NEW f \in Fess, NEW k \in Conns, Play(f, k)
      PROVE  \E u \in Users : StepOf(u)
  <2>1. PICK u \in Users : u = conn[f][k].u
    BY <1>1, SocketsTyped DEF Conn
  <2>2. /\ conn[f][k].open /\ conn[f][k].entered /\ conn' = conn
        /\ latest' = [latest EXCEPT ![u] = @ + 1]
    BY <1>4, <2>1 DEF Play, fsVars
  <2>3. PICK c : c = <<f, k>>
    OBVIOUS
  <2>4. c \in Room(u)
    BY <2>1, <2>2, <2>3 DEF Room, Places, Sock
  <2>5. \A v \in Users : Room(v)' = Room(v)
    BY <2>2 DEF Room, Sock
  <2>6. QED
    BY <2>2, <2>4, <2>5 DEF StepOf
<1>5. CASE LSStep \/ WSStep \/ SSStep \/ SSShardAnswer
  <2>1. conn' = conn /\ latest' = latest
    BY <1>5 DEF LSStep, WSStep, SSStep, SSShardAnswer, fsVars
  <2>2. PICK u \in Users : TRUE
    BY SomeUser
  <2>3. \A v : Room(v)' = Room(v)
    BY <2>1 DEF Room, Sock
  <2>4. QED
    BY <2>1, <2>2, <2>3 DEF StepOf, OnlyLeaves
<1>6. QED
  BY <1>2, <1>3, <1>4, <1>5 DEF Next

(* Where the promise has a user, and what it is given to see there.        *)
WhereOf(u) == IF PlaysOn(u) = {} THEN NoShard ELSE CHOOSE s \in PlaysOn(u) : TRUE
SeenOf(u) == IF PlaysOn(u) = {} THEN latest[u] ELSE data[CHOOSE s \in PlaysOn(u) : TRUE][u]
Placed ==
  /\ latest \in [Users -> Nat]
  /\ \A u \in Users : /\ Room(u) = {} => WhereOf(u) = NoShard
                      /\ \A c \in Room(u) : WhereOf(u) = ShardOf[c[1]]
                      /\ Room(u) # {} => WhereOf(u) \in Shards /\ WhereOf(u) # NoShard
                      /\ SeenOf(u) = latest[u]

(* The invariant says where everybody is, and which data it sees.          *)
LEMMA HandoverPlaces == HandoverInv => Placed
<1> SUFFICES ASSUME HandoverInv PROVE Placed
  OBVIOUS
<1>1. latest \in [Users -> Nat]
  BY DEF HandoverInv, TypeOK
<1>2. EnteredOnOneShard /\ RoomHasLatestData
  BY HandoverGives
<1>3. ASSUME NEW u \in Users, Room(u) = {}
      PROVE  WhereOf(u) = NoShard /\ SeenOf(u) = latest[u]
  <2>1. PlaysOn(u) = {}
    BY <1>3, PlaysIn
  <2>2. QED
    BY <2>1 DEF WhereOf, SeenOf
<1>4. ASSUME NEW u \in Users, NEW c \in Room(u)
      PROVE  /\ WhereOf(u) = ShardOf[c[1]] /\ WhereOf(u) \in Shards /\ WhereOf(u) # NoShard
             /\ SeenOf(u) = latest[u]
  <2>1. ShardOf[c[1]] \in PlaysOn(u) /\ c[1] \in Fess
    BY <1>4 DEF PlaysOn, InRoom, Room, Places, Sock
  <2>2. PICK s : s = CHOOSE t \in PlaysOn(u) : TRUE
    OBVIOUS
  <2>3. s \in PlaysOn(u) /\ WhereOf(u) = s /\ SeenOf(u) = data[s][u]
    BY <2>1, <2>2 DEF WhereOf, SeenOf
  <2>4. s = ShardOf[c[1]] /\ data[s][u] = latest[u]
    BY <1>2, <2>1, <2>3 DEF EnteredOnOneShard, RoomHasLatestData
  <2>5. ShardOf[c[1]] \in Shards /\ ShardOf[c[1]] # NoShard
    BY <2>1, FSNulls, NullsDistinct
  <2>6. QED
    BY <2>3, <2>4, <2>5
<1>5. QED
  BY <1>1, <1>3, <1>4 DEF Placed

(* The promise, as its variables are read here.                            *)
LEMMA PromiseVars ==
  Promise!playVars = <<[u \in Users |-> WhereOf(u)], latest, [u \in Users |-> SeenOf(u)]>>
BY DEF Promise!playVars, WhereOf, SeenOf

(* The initial states of the system are initial states of ShardPlay.       *)
LEMMA PromiseInit ==
  ASSUME Init
  PROVE  Promise!Init
<1>1. Placed
  BY HandoverInit, HandoverPlaces
<1>2. latest = [u \in Users |-> 1]
  BY DEF Init
<1>3. \A u \in Users : Room(u) = {}
  BY NothingAtFirst
<1>4. \A u \in Users : WhereOf(u) = NoShard /\ SeenOf(u) = latest[u]
  BY <1>1, <1>3 DEF Placed
<1>5. [u \in Users |-> WhereOf(u)] = [u \in Users |-> NoShard] /\ [u \in Users |-> SeenOf(u)] = latest
  BY <1>2, <1>4
<1>6. QED
  BY <1>2, <1>5 DEF Promise!Init, WhereOf, SeenOf

(* A step about one user is a step of ShardPlay, or a stutter.             *)
LEMMA PromiseStep ==
  ASSUME Placed, Placed', NEW u \in Users, StepOf(u)
  PROVE  [Promise!Next]_(Promise!playVars)
<1> DEFINE W == [x \in Users |-> WhereOf(x)]
           N == [x \in Users |-> SeenOf(x)]
<1>1. /\ \A v \in Users : SeenOf(v) = latest[v] /\ SeenOf(v)' = latest'[v]
      /\ latest \in [Users -> Nat] /\ latest' \in [Users -> Nat]
  BY DEF Placed
<1>2. N = latest /\ N' = latest'
  BY <1>1
<1>3. ASSUME NEW v \in Users, Room(v)' = Room(v)
      PROVE  WhereOf(v)' = WhereOf(v)
  <2>1. CASE Room(v) = {}
    BY <1>3, <2>1 DEF Placed
  <2>2. CASE Room(v) # {}
    <3>1. PICK c \in Room(v) : TRUE
      BY <2>2
    <3>2. WhereOf(v) = ShardOf[c[1]] /\ WhereOf(v)' = ShardOf[c[1]]
      BY <1>3, <3>1 DEF Placed
    <3>3. QED
      BY <3>2
  <2>3. QED
    BY <2>1, <2>2
<1>4. ASSUME \A v \in Users : v # u => Room(v)' = Room(v)
      PROVE  W' = [W EXCEPT ![u] = WhereOf(u)']
  <2>1. \A v \in Users : v # u => WhereOf(v)' = WhereOf(v)
    BY <1>3, <1>4
  <2>2. QED
    BY <2>1
<1>5. CASE OnlyLeaves(u) /\ latest' = latest
  <2>1. W' = [W EXCEPT ![u] = WhereOf(u)']
    BY <1>4, <1>5 DEF OnlyLeaves
  <2>2. CASE Room(u)' = {} /\ Room(u) # {}
    <3>1. WhereOf(u)' = NoShard /\ WhereOf(u) # NoShard
      BY <2>2 DEF Placed
    <3>2. W[u] # NoShard /\ W' = [W EXCEPT ![u] = NoShard]
      BY <2>1, <3>1
    <3>3. Promise!LeaveShard(u)
      BY <1>2, <1>5, <3>2 DEF Promise!LeaveShard, WhereOf, SeenOf
    <3>4. QED
      BY <3>3 DEF Promise!Next
  <2>3. CASE Room(u)' # {} \/ Room(u) = {}
    <3>1. WhereOf(u)' = WhereOf(u)
      <4>1. CASE Room(u) = {}
        BY <1>3, <1>5, <4>1 DEF OnlyLeaves
      <4>2. CASE Room(u)' # {}
        <5>1. PICK c : c \in Room(u)' /\ c \in Room(u)
          BY <1>5, <4>2 DEF OnlyLeaves
        <5>2. WhereOf(u) = ShardOf[c[1]] /\ WhereOf(u)' = ShardOf[c[1]]
          BY <5>1 DEF Placed
        <5>3. QED
          BY <5>2
      <4>3. QED
        BY <2>3, <4>1, <4>2
    <3>2. W' = W /\ N' = N
      BY <1>2, <1>5, <2>1, <3>1
    <3>3. QED
      BY <1>5, <3>2, PromiseVars DEF Promise!playVars, WhereOf, SeenOf
  <2>4. QED
    BY <2>2, <2>3
<1>6. CASE OnlyEnters(u) /\ latest' = latest
  <2>1. W' = [W EXCEPT ![u] = WhereOf(u)']
    BY <1>4, <1>6 DEF OnlyEnters
  <2>2. WhereOf(u) = NoShard
    BY <1>6 DEF OnlyEnters, Placed
  <2>3. CASE Room(u)' = {}
    <3>1. WhereOf(u)' = WhereOf(u)
      BY <2>2, <2>3 DEF Placed
    <3>2. W' = W /\ N' = N
      BY <1>2, <1>6, <2>1, <3>1
    <3>3. QED
      BY <1>6, <3>2, PromiseVars DEF Promise!playVars, WhereOf, SeenOf
  <2>4. CASE Room(u)' # {}
    <3>1. PICK s \in Shards : s = WhereOf(u)'
      BY <2>4 DEF Placed
    <3>2. W[u] = NoShard /\ W' = [W EXCEPT ![u] = s]
      BY <2>1, <2>2, <3>1
    <3>3. Promise!EnterShard(u, s)
      BY <1>2, <1>6, <3>2 DEF Promise!EnterShard, WhereOf, SeenOf
    <3>4. QED
      BY <3>3 DEF Promise!Next
  <2>5. QED
    BY <2>3, <2>4
<1>7. CASE /\ Room(u) # {} /\ \A v \in Users : Room(v)' = Room(v)
           /\ latest' = [latest EXCEPT ![u] = @ + 1]
  <2>1. W[u] # NoShard
    BY <1>7 DEF Placed
  <2>2. W' = W
    BY <1>3, <1>7
  <2>3. N[u] = latest[u] /\ N' = [N EXCEPT ![u] = latest'[u]]
    BY <1>1, <1>2, <1>7
  <2>4. Promise!Change(u)
    BY <1>7, <2>1, <2>2, <2>3 DEF Promise!Change, WhereOf, SeenOf
  <2>5. QED
    BY <2>4 DEF Promise!Next
<1>8. QED
  BY <1>5, <1>6, <1>7 DEF StepOf

(* When nothing happens nothing happens in ShardPlay.                      *)
LEMMA PromiseIdle ==
  ASSUME UNCHANGED vars
  PROVE  UNCHANGED Promise!playVars
BY DEF vars, fsVars, wsVars, Promise!playVars, PlaysOn, InRoom

(* Under the same settings LS, WSs, front ends, SS and clients together    *)
(* implement ShardPlay: what a user sees, in whose rooms it is and which   *)
(* data it finds there, changes as if it entered, played and left one      *)
(* shard at a time, with its data always with it. Every step of the        *)
(* services is a step of ShardPlay about one user, or a stutter.           *)
THEOREM HandoverKeepsPromise ==
  ASSUME Settings
  PROVE  Spec => PromiseKept
<1>1. Init => Promise!Init
  BY PromiseInit
<1>2. ASSUME HandoverInv, HandoverInv', [Next]_vars
      PROVE  [Promise!Next]_(Promise!playVars)
  <2>1. CASE UNCHANGED vars
    BY <2>1, PromiseIdle
  <2>2. CASE Next
    <3>1. Around /\ \A a \in Users : Kept(a)
      BY <1>2 DEF Around, HandoverInv
    <3>2. PICK u \in Users : StepOf(u)
      BY <2>2, <3>1, RoomsStep
    <3>3. Placed /\ Placed'
      BY <1>2, HandoverPlaces, PTL
    <3>4. QED
      BY <3>2, <3>3, PromiseStep
  <2>3. QED
    BY <1>2, <2>1, <2>2
<1>3. QED
  BY <1>1, <1>2, Handover, PTL DEF Spec, PromiseKept, Promise!Spec

-----------------------------------------------------------------------------
(* The reports of a user's sessions.                                       *)

(* No end of a session is behind the start of a later one, and while a     *)
(* start is between its front end and its WS, the ends of sessions on that *)
(* shard are on the same front end, behind it.                             *)
InTurn(u) ==
  /\ Ordered(Reports(u, 0), Reports(u, 1))
  /\ \A x \in Flights : x \in Reports(u, 1) /\ x[1][2] # LS =>
       /\ \A y \in Flights : y \in Reports(u, 0) /\ Source(y) = Source(x) => y[1] = x[1]
       /\ \A y \in JobFlights : y \in EndJobs(u) => y[1] # Source(x)
       /\ \A c \in Gone(u) : ShardOf[c[1]] = Source(x) => c[1] = x[1][1]
(* The LS has u on s, or is to have it there, ...                          *)
Led(u, s) ==
  \/ current[u] = s \/ waiting[u].s = s
  \/ \E x \in Flights : x \in Reports(u, 1) /\ x[1] = <<s, LS>>
(* ... and the WS of s has a session of u, or is about to report its end.  *)
Backs(u, s) ==
  \/ wsAssoc[s][u] # NoFes
  \/ \E y \in JobFlights : y \in EndJobs(u) /\ y[1] = s
  \/ \E y \in Flights : y \in Reports(u, 0) /\ y[1] = <<s, LS>>
Backed(u) == \A s \in Shards : Led(u, s) => Backs(u, s)
Told(u) == InTurn(u) /\ Backed(u)

(* What is on a link stays on it when more is sent behind it. *)
LEMMA SentStays ==
  ASSUME NEW q \in Seq(Message), NEW r \in Seq(Message)
  PROVE  /\ \A i \in DOMAIN q : i \in DOMAIN (q \o r) /\ (q \o r)[i] = q[i]
         /\ \A j \in DOMAIN r : \E i \in DOMAIN (q \o r) : (q \o r)[i] = r[j]
<1>1. /\ DOMAIN q = 1..Len(q) /\ DOMAIN r = 1..Len(r) /\ Len(q) \in Nat /\ Len(r) \in Nat
      /\ DOMAIN (q \o r) = 1..(Len(q) + Len(r))
      /\ \A j \in 1..(Len(q) + Len(r)) :
           (q \o r)[j] = IF j <= Len(q) THEN q[j] ELSE r[j - Len(q)]
  BY LenProperties, ConcatProperties
<1>2. \A i \in DOMAIN q : i \in DOMAIN (q \o r) /\ (q \o r)[i] = q[i]
  BY <1>1
<1>3. ASSUME NEW j \in DOMAIN r
      PROVE  Len(q) + j \in DOMAIN (q \o r) /\ (q \o r)[Len(q) + j] = r[j]
  BY <1>1, <1>3
<1>4. QED
  BY <1>2, <1>3

(* What is on a link after a step is in flight then. *)
LEMMA FlightThen ==
  ASSUME NEW l \in Links, NEW i \in DOMAIN net'[l]
  PROVE  <<l, net'[l][i]>> \in Flights'
BY DEF Flights

(* What is sent is in flight when every message of the outbox is. *)
LEMMA SentFlies ==
  ASSUME NEW me, NEW outs,
         \A l \in Links : l[1] = me => \A j \in DOMAIN outs[l[2]] : <<l, outs[l[2]][j]>> \in Flights'
  PROVE  \A z \in Sent(me, outs) : z \in Flights'
<1>1. ASSUME NEW z \in Sent(me, outs) PROVE z \in Flights'
  <2>1. PICK n \in Nodes : <<me, n>> \in Links /\ \E i \in DOMAIN outs[n] : z = <<<<me, n>>, outs[n][i]>>
    BY SentHas
  <2>2. PICK l \in Links : l = <<me, n>>
    BY <2>1
  <2>3. QED
    BY <2>1, <2>2
<1>2. QED
  BY <1>1

(* A link that grows. *)
LEMMA LinkGrows ==
  ASSUME NetTyped, NEW l \in Links, NEW r \in Seq(Message), net'[l] = net[l] \o r
  PROVE  /\ \A i \in DOMAIN net[l] : <<l, net[l][i]>> \in Flights'
         /\ \A j \in DOMAIN r : <<l, r[j]>> \in Flights'
<1> DEFINE q == net[l]
<1>1. q \in Seq(Message)
  BY DEF NetTyped
<1>2. /\ \A i \in DOMAIN q : i \in DOMAIN (q \o r) /\ (q \o r)[i] = q[i]
      /\ \A j \in DOMAIN r : \E i \in DOMAIN (q \o r) : (q \o r)[i] = r[j]
  <2> HIDE DEF q
  <2> QED
    BY <1>1, SentStays
<1>3. /\ \A i \in DOMAIN net[l] : i \in DOMAIN net'[l] /\ net'[l][i] = net[l][i]
      /\ \A j \in DOMAIN r : \E i \in DOMAIN net'[l] : net'[l][i] = r[j]
  BY <1>2
<1>4. \A i \in DOMAIN net'[l] : <<l, net'[l][i]>> \in Flights'
  BY FlightThen
<1>5. ASSUME NEW j \in DOMAIN r PROVE <<l, r[j]>> \in Flights'
  <2>1. PICK i \in DOMAIN net'[l] : net'[l][i] = r[j]
    BY <1>3
  <2>2. QED
    BY <1>4, <2>1
<1>6. ASSUME NEW i \in DOMAIN net[l] PROVE <<l, net[l][i]>> \in Flights'
  BY <1>3, <1>4
<1>7. QED
  BY <1>5, <1>6

(* A step that only sends leaves what is in flight, and adds what it sends. *)
LEMMA EmitLeaves ==
  ASSUME NetTyped, NEW me, NEW outs \in Outbox, Emit(me, outs)
  PROVE  (\A z \in Flights : z \in Flights') /\ \A z \in Sent(me, outs) : z \in Flights'
<1>1. ASSUME NEW l \in Links, l[1] = me
      PROVE  /\ \A i \in DOMAIN net[l] : <<l, net[l][i]>> \in Flights'
             /\ \A j \in DOMAIN outs[l[2]] : <<l, outs[l[2]][j]>> \in Flights'
  <2>1. net'[l] = net[l] \o outs[l[2]]
    BY <1>1 DEF Emit
  <2>2. outs[l[2]] \in Seq(Message)
    BY LinksAre DEF Outbox
  <2>3. QED
    BY <2>1, <2>2, LinkGrows
<1>2. ASSUME NEW l \in Links, l[1] # me
      PROVE  \A i \in DOMAIN net[l] : <<l, net[l][i]>> \in Flights'
  <2>1. net'[l] = net[l]
    BY <1>2 DEF Emit
  <2>2. \A i \in DOMAIN net'[l] : <<l, net'[l][i]>> \in Flights'
    BY DEF Flights
  <2>3. QED
    BY <2>1, <2>2
<1>3. ASSUME NEW z \in Flights PROVE z \in Flights'
  <2>1. PICK l \in Links : \E i \in DOMAIN net[l] : z = <<l, net[l][i]>>
    BY FlightHas
  <2>2. QED
    BY <1>1, <1>2, <2>1
<1>4. \A z \in Sent(me, outs) : z \in Flights'
  BY <1>1, SentFlies
<1>5. QED
  BY <1>3, <1>4

(* A step that reads a message leaves the others. *)
LEMMA ReceiveLeaves ==
  ASSUME NetTyped, NEW src, NEW me, <<src, me>> \in Links, NEW kind, Pending(src, me, kind),
         NEW m, m = Head(net[<<src, me>>]), NEW outs \in Outbox, Receive(src, me, outs)
  PROVE  /\ \A z \in Flights : z \in Flights' \/ z = <<<<src, me>>, m>>
         /\ \A z \in Sent(me, outs) : z \in Flights'
<1>1. ASSUME NEW l \in Links, l[1] = me, l # <<src, me>>
      PROVE  /\ \A i \in DOMAIN net[l] : <<l, net[l][i]>> \in Flights'
             /\ \A j \in DOMAIN outs[l[2]] : <<l, outs[l[2]][j]>> \in Flights'
  <2>1. net'[l] = net[l] \o outs[l[2]]
    BY <1>1 DEF Receive
  <2>2. outs[l[2]] \in Seq(Message)
    BY LinksAre DEF Outbox
  <2>3. QED
    BY <2>1, <2>2, LinkGrows
<1>2. ASSUME NEW l \in Links, l[1] # me, l # <<src, me>>
      PROVE  \A i \in DOMAIN net[l] : <<l, net[l][i]>> \in Flights'
  <2>1. net'[l] = net[l]
    BY <1>2 DEF Receive
  <2>2. \A i \in DOMAIN net'[l] : <<l, net'[l][i]>> \in Flights'
    BY DEF Flights
  <2>3. QED
    BY <2>1, <2>2
<1>3. ASSUME NEW l \in Links, l = <<src, me>>, NEW i \in DOMAIN net[l]
      PROVE  <<l, net[l][i]>> \in Flights' \/ net[l][i] = m
  <2> DEFINE q == net[l]
  <2>1. q \in Seq(Message) /\ q # << >> /\ m = Head(q) /\ net'[l] = Tail(q)
    BY <1>3 DEF NetTyped, Pending, Receive
  <2>2. /\ Head(q) = q[1]
        /\ \A j \in DOMAIN q \ {1} : j - 1 \in DOMAIN Tail(q) /\ Tail(q)[j - 1] = q[j]
    <3> HIDE DEF q
    <3> QED
      BY <2>1, PositionsRead
  <2>3. \A j \in DOMAIN net'[l] : <<l, net'[l][j]>> \in Flights'
    BY DEF Flights
  <2>4. QED
    BY <1>3, <2>1, <2>2, <2>3
<1>4. ASSUME NEW z \in Flights PROVE z \in Flights' \/ z = <<<<src, me>>, m>>
  <2>1. PICK l \in Links : \E i \in DOMAIN net[l] : z = <<l, net[l][i]>>
    BY FlightHas
  <2>2. PICK i \in DOMAIN net[l] : z = <<l, net[l][i]>>
    BY <2>1
  <2>3. QED
    BY <1>1, <1>2, <1>3, <2>2
<1>5. \A z \in Sent(me, outs) : z \in Flights'
  <2>1. \A l \in Links : l[1] = me => l # <<src, me>>
    BY NodesDistinct, PlacesOK DEF Links
  <2>2. QED
    BY <1>1, <2>1, SentFlies
<1>6. QED
  BY <1>4, <1>5

(* What is in a queue after a step is under way then. *)
LEMMA JobThen ==
  ASSUME NEW t \in Shards, NEW i \in DOMAIN jobs'[t]
  PROVE  <<t, jobs'[t][i]>> \in JobFlights'
BY DEF JobFlights

(* A query that is queued leaves the others where they are. *)
LEMMA QueuedLeaves ==
  ASSUME jobs \in [Shards -> Seq(Job)], NEW s \in Shards, NEW job, NEW u, NEW to,
         NEW j \in Job, j = [job |-> job, u |-> u, to |-> to], jobs' = Queued(s, job, u, to)
  PROVE  (\A y \in JobFlights : y \in JobFlights') /\ <<s, j>> \in JobFlights'
<1>1. /\ jobs'[s] = Append(jobs[s], j) /\ jobs[s] \in Seq(Job)
      /\ \A t \in Shards : t # s => jobs'[t] = jobs[t]
  BY DEF Queued
<1>2. /\ Len(jobs[s]) + 1 \in DOMAIN jobs'[s] /\ jobs'[s][Len(jobs[s]) + 1] = j
      /\ \A i \in DOMAIN jobs[s] : i \in DOMAIN jobs'[s] /\ jobs'[s][i] = jobs[s][i]
  <2> DEFINE q == jobs[s]
  <2>1. q \in Seq(Job) /\ jobs'[s] = Append(q, j)
    BY <1>1
  <2> HIDE DEF q
  <2>2. Len(q) \in Nat /\ DOMAIN q = 1..Len(q)
    BY <2>1, LenProperties
  <2>3. /\ DOMAIN Append(q, j) = 1..(Len(q) + 1) /\ Append(q, j)[Len(q) + 1] = j
        /\ \A i \in 1..Len(q) : Append(q, j)[i] = q[i]
    BY <2>1, <2>2, AppendProperties
  <2>4. QED
    BY <2>1, <2>2, <2>3 DEF q
<1>3. \A t \in Shards : \A i \in DOMAIN jobs[t] : i \in DOMAIN jobs'[t] /\ jobs'[t][i] = jobs[t][i]
  BY <1>1, <1>2
<1>4. \A t \in Shards : \A i \in DOMAIN jobs'[t] : <<t, jobs'[t][i]>> \in JobFlights'
  BY JobThen
<1>5. ASSUME NEW y \in JobFlights PROVE y \in JobFlights'
  <2>1. PICK t \in Shards : \E i \in DOMAIN jobs[t] : y = <<t, jobs[t][i]>>
    BY DEF JobFlights
  <2>2. PICK i \in DOMAIN jobs[t] : y = <<t, jobs[t][i]>>
    BY <2>1
  <2>3. QED
    BY <1>3, <1>4, <2>2
<1>6. <<s, j>> \in JobFlights'
  BY <1>2, <1>4
<1>7. QED
  BY <1>5, <1>6

(* What is left of a queue when the query at i is taken out is still there. *)
LEMMA TakenKeeps ==
  ASSUME NEW S, NEW q \in Seq(S), NEW i \in DOMAIN q, NEW k \in DOMAIN q, k # i
  PROVE  \E j \in DOMAIN Without(q, i) : Without(q, i)[j] = q[k]
<1>1. Len(q) \in Nat /\ DOMAIN q = 1..Len(q) /\ i \in 1..Len(q) /\ k \in 1..Len(q)
  BY LenProperties
<1> DEFINE n == Len(q)
           a == SubSeq(q, 1, i - 1)
           b == SubSeq(q, i + 1, n)
<1>2. a \in Seq(S) /\ Len(a) = IF 1 <= i - 1 THEN (i - 1) - 1 + 1 ELSE 0
  <2>1. 1 \in Int /\ i - 1 \in Int
    BY <1>1
  <2>2. \A m \in 1..(i - 1) : q[m] \in S
    BY <1>1, ElementOfSeq
  <2>3. QED
    BY <2>1, <2>2, SubSeqProperties
<1>3. b \in Seq(S) /\ Len(b) = IF i + 1 <= n THEN n - (i + 1) + 1 ELSE 0
  <2>1. i + 1 \in Int /\ n \in Int
    BY <1>1
  <2>2. \A m \in (i + 1)..n : q[m] \in S
    BY <1>1, ElementOfSeq
  <2>3. QED
    BY <2>1, <2>2, SubSeqProperties
<1>4. DOMAIN Without(q, i) = 1..(n - 1)
  <2> DEFINE r == a \o b
  <2>1. Without(q, i) = r
    BY DEF Without
  <2> HIDE DEF a, b
  <2>2. Len(r) = Len(a) + Len(b) /\ DOMAIN r = 1..(Len(a) + Len(b))
    BY <1>2, <1>3, ConcatProperties, LenProperties
  <2> HIDE DEF r, n
  <2>3. Len(a) = i - 1 /\ Len(b) = n - i
    BY <1>1, <1>2, <1>3 DEF n
  <2>4. Len(a) + Len(b) = n - 1
    BY <1>1, <2>3 DEF n
  <2>5. QED
    BY <2>1, <2>2, <2>4
<1> HIDE DEF n, a, b
<1>5. CASE k < i
  <2>1. k \in DOMAIN Without(q, i)
    BY <1>1, <1>4, <1>5 DEF n
  <2>2. Without(q, i)[k] = q[k]
    BY <1>1, <1>5, <2>1, TakenOut
  <2>3. QED
    BY <2>1, <2>2
<1>6. CASE k > i
  <2>1. k - 1 \in DOMAIN Without(q, i) /\ k - 1 >= i /\ (k - 1) + 1 = k
    BY <1>1, <1>4, <1>6 DEF n
  <2>2. PICK j : j = k - 1
    OBVIOUS
  <2>3. j \in DOMAIN Without(q, i) /\ j >= i /\ ~(j < i) /\ j + 1 = k
    BY <1>1, <2>1, <2>2
  <2>4. Without(q, i)[j] = q[j + 1]
    BY <2>3, TakenOut
  <2>5. QED
    BY <2>3, <2>4
<1>7. QED
  BY <1>1, <1>5, <1>6

(* A query that is done leaves the others. *)
LEMMA TakenLeaves ==
  ASSUME jobs \in [Shards -> Seq(Job)], NEW s \in Shards, NEW n \in DOMAIN jobs[s],
         jobs' = [jobs EXCEPT ![s] = SubSeq(@, 1, n - 1) \o SubSeq(@, n + 1, Len(@))]
  PROVE  \A y \in JobFlights : y \in JobFlights' \/ y = <<s, jobs[s][n]>>
<1> DEFINE q == jobs[s]
<1>1. /\ q \in Seq(Job) /\ n \in DOMAIN q /\ jobs'[s] = Without(q, n)
      /\ \A t \in Shards : t # s => jobs'[t] = jobs[t]
  BY DEF Without
<1>2. ASSUME NEW k \in DOMAIN q, k # n
      PROVE  \E j \in DOMAIN jobs'[s] : jobs'[s][j] = q[k]
  <2>1. \E j \in DOMAIN Without(q, n) : Without(q, n)[j] = q[k]
    <3> HIDE DEF q
    <3> QED
      BY <1>1, <1>2, TakenKeeps
  <2>2. QED
    BY <1>1, <2>1
<1>3. \A t \in Shards : \A i \in DOMAIN jobs'[t] : <<t, jobs'[t][i]>> \in JobFlights'
  BY JobThen
<1>4. ASSUME NEW y \in JobFlights PROVE y \in JobFlights' \/ y = <<s, jobs[s][n]>>
  <2>1. PICK t \in Shards : \E i \in DOMAIN jobs[t] : y = <<t, jobs[t][i]>>
    BY DEF JobFlights
  <2>2. PICK i \in DOMAIN jobs[t] : y = <<t, jobs[t][i]>>
    BY <2>1
  <2>3. CASE t # s
    BY <1>1, <1>3, <2>2, <2>3
  <2>4. CASE t = s /\ i # n
    <3>1. PICK j \in DOMAIN jobs'[s] : jobs'[s][j] = q[i]
      BY <1>2, <2>2, <2>4
    <3>2. QED
      BY <1>3, <2>2, <2>4, <3>1
  <2>5. QED
    BY <2>2, <2>3, <2>4
<1>5. QED
  BY <1>4

(* Nothing is reported of u anew, and no report to the LS of an end is     *)
(* taken; nor is a logout of u queued or done.                             *)
StillNet(u) ==
  /\ \A z \in Flights' : z \in Reports(u, 0) \/ z \in Reports(u, 1) => z \in Flights
  /\ \A z \in Flights : z \in Reports(u, 0) /\ z[1][2] = LS => z \in Flights'
  /\ Ordered(Reports(u, 0), Reports(u, 1)) => Ordered(Reports(u, 0), Reports(u, 1))'
StillJobs(u) ==
  /\ \A y \in JobFlights' : y \in EndJobs(u) => y \in JobFlights
  /\ \A y \in JobFlights : y \in EndJobs(u) => y \in JobFlights'
(* The sockets of u that close were open. *)
GoneFrom(u) == \A c \in Gone(u)' : c \in Gone(u) \/ c \in Room(u) \/ c \in Cand(u)

(* A socket that closes while a start is on its way to the WS is that of   *)
(* the start, or on another shard.                                         *)
LEMMA GoneBeside ==
  ASSUME Around, NEW u \in Users, Kept(u), InTurn(u), GoneFrom(u),
         NEW x \in Flights, x \in Reports(u, 1), x[1][2] # LS
  PROVE  \A c \in Gone(u)' : ShardOf[c[1]] = Source(x) => c[1] = x[1][1]
<1>1. ReportOK(u, x)
  BY ReportHead
<1>2. Reporter(x) = x[1][1] /\ current[u] # Source(x) /\ \A c \in Cand(u) : c[1] = Reporter(x)
  BY <1>1 DEF ReportOK, Reporter
<1>3. \A c \in Room(u) : current[u] = ShardOf[c[1]]
  BY DEF Kept, Inside
<1>4. \A c \in Gone(u) : ShardOf[c[1]] = Source(x) => c[1] = x[1][1]
  BY DEF InTurn
<1>5. QED
  BY <1>2, <1>3, <1>4 DEF GoneFrom

(* Reports stay in turn when nothing is added to them.                     *)
LEMMA InTurnStays ==
  ASSUME Around, NEW u \in Users, Kept(u), InTurn(u), GoneFrom(u),
         \A z \in Flights' : z \in Reports(u, 0) \/ z \in Reports(u, 1) => z \in Flights,
         \A y \in JobFlights' : y \in EndJobs(u) => y \in JobFlights,
         Ordered(Reports(u, 0), Reports(u, 1))'
  PROVE  InTurn(u)'
<1>1. ASSUME NEW x \in Flights', x \in Reports(u, 1), x[1][2] # LS
      PROVE  /\ \A y \in Flights' : y \in Reports(u, 0) /\ Source(y) = Source(x) => y[1] = x[1]
             /\ \A y \in JobFlights' : y \in EndJobs(u) => y[1] # Source(x)
             /\ \A c \in Gone(u)' : ShardOf[c[1]] = Source(x) => c[1] = x[1][1]
  <2>1. x \in Flights
    BY <1>1
  <2>2. \A c \in Gone(u)' : ShardOf[c[1]] = Source(x) => c[1] = x[1][1]
    BY <1>1, <2>1, GoneBeside
  <2>3. /\ \A y \in Flights : y \in Reports(u, 0) /\ Source(y) = Source(x) => y[1] = x[1]
        /\ \A y \in JobFlights : y \in EndJobs(u) => y[1] # Source(x)
    BY <1>1, <2>1 DEF InTurn
  <2>4. QED
    BY <2>2, <2>3
<1>2. QED
  BY <1>1 DEF InTurn

(* What backs the LS stays. *)
LEMMA BacksStay ==
  ASSUME NEW u, NEW s, Backs(u, s), wsAssoc'[s][u] = wsAssoc[s][u],
         \A y \in JobFlights : y \in EndJobs(u) /\ y[1] = s => y \in JobFlights',
         \A y \in Flights : y \in Reports(u, 0) /\ y[1] = <<s, LS>> => y \in Flights'
  PROVE  Backs(u, s)'
BY DEF Backs

(* What backs the records of a user stays.                                 *)
LEMMA BackedStays ==
  ASSUME NEW u \in Users, Backed(u),
         current'[u] \in {current[u], NoShard}, waiting'[u] \in {waiting[u], Nowhere},
         \A s \in Shards : wsAssoc'[s][u] = wsAssoc[s][u], StillNet(u), StillJobs(u)
  PROVE  Backed(u)'
<1>1. ASSUME NEW s \in Shards, Led(u, s)'
      PROVE  Led(u, s)
  <2>1. s # NoShard /\ Nowhere.s = NoShard
    BY NullsDistinct DEF Nowhere
  <2>2. QED
    BY <1>1, <2>1 DEF Led, StillNet
<1>2. ASSUME NEW s \in Shards, Backs(u, s)
      PROVE  Backs(u, s)'
  <2>1. \A y \in JobFlights : y \in EndJobs(u) => y \in JobFlights'
    BY DEF StillJobs
  <2>2. ASSUME NEW y \in Flights, y \in Reports(u, 0), y[1] = <<s, LS>>
        PROVE  y \in Flights'
    <3>1. y[1][2] = LS
      BY <2>2
    <3>2. QED
      BY <2>2, <3>1 DEF StillNet
  <2>3. QED
    BY <1>2, <2>1, <2>2, BacksStay
<1>3. QED
  BY <1>1, <1>2 DEF Backed

(* A step that reports nothing of u keeps what is told of it. *)
LEMMA ToldStays ==
  ASSUME Around, NEW u \in Users, Kept(u), Told(u), StillNet(u), StillJobs(u), GoneFrom(u),
         current'[u] \in {current[u], NoShard}, waiting'[u] \in {waiting[u], Nowhere},
         \A s \in Shards : wsAssoc'[s][u] = wsAssoc[s][u]
  PROVE  Told(u)'
<1>1. Ordered(Reports(u, 0), Reports(u, 1))'
  BY DEF Told, InTurn, StillNet
<1>2. InTurn(u)'
  BY <1>1, InTurnStays DEF Told, StillNet, StillJobs
<1>3. Backed(u)'
  BY BackedStays DEF Told
<1>4. QED
  BY <1>2, <1>3 DEF Told

(* What is sent without a report. *)
LEMMA UnreportedLone ==
  ASSUME NEW me, NEW outs, NEW K, K \subseteq Flying, \A y \in Sent(me, outs) : y \notin K
  PROVE  LoneSent(me, outs, K)
<1>1. ASSUME NEW n \in Nodes, NEW i \in DOMAIN outs[n]
      PROVE  <<<<me, n>>, outs[n][i]>> \notin K
  <2>1. <<<<me, n>>, outs[n][i]>> \in K => <<me, n>> \in Links
    BY DEF Flying
  <2>2. QED
    BY <1>1, <2>1, SentIs
<1>2. QED
  BY <1>1 DEF LoneSent

(* A message of another kind is no report. *)
LEMMA OtherKind ==
  ASSUME NEW l, NEW m, m.kind # "M_CLIENT_CONNECT_STATUS", NEW u, NEW v
  PROVE  <<l, m>> \notin Reports(u, v)
BY DEF Reports
(* A message that is no report: the reports are as before.                 *)
LEMMA StillReceived ==
  ASSUME Around, NEW src, NEW me, <<src, me>> \in Links, NEW kind, Pending(src, me, kind),
         NEW m, m = Head(net[<<src, me>>]), NEW outs \in Outbox, Receive(src, me, outs), NEW u,
         \A y \in Sent(me, outs) : y \notin Reports(u, 0) /\ y \notin Reports(u, 1),
         <<<<src, me>>, m>> \notin Reports(u, 0) \/ me # LS
  PROVE  StillNet(u)
<1>1. NetTyped /\ NetTyped'
  BY AroundTyped
<1>2. LoneSent(me, outs, Reports(u, 0)) /\ LoneSent(me, outs, Reports(u, 1))
  <2>1. Reports(u, 0) \subseteq Flying /\ Reports(u, 1) \subseteq Flying
    BY DEF Reports
  <2>2. QED
    BY <2>1, UnreportedLone
<1>3. /\ Moves({<<<<src, me>>, m>>}, Sent(me, outs), Reports(u, 0))
      /\ Moves({<<<<src, me>>, m>>}, Sent(me, outs), Reports(u, 1))
  BY <1>1, <1>2, ReceiveMoves
<1>4. \A z \in Flights' : z \in Reports(u, 0) \/ z \in Reports(u, 1) => z \in Flights
  BY <1>3 DEF Moves
<1>5. \A z \in Flights : z \in Flights' \/ z = <<<<src, me>>, m>>
  BY <1>1, ReceiveLeaves
<1>6. Ordered(Reports(u, 0), Reports(u, 1)) => Ordered(Reports(u, 0), Reports(u, 1))'
  <2>1. PICK A : A = Reports(u, 0)
    OBVIOUS
  <2>2. PICK B : B = Reports(u, 1)
    OBVIOUS
  <2>3. Ordered(A, B) => Ordered(A, B)'
    BY <1>1, <2>2, ReceiveOrdered
  <2>4. QED
    BY <2>1, <2>2, <2>3
<1>7. QED
  BY <1>4, <1>5, <1>6 DEF StillNet

(* ... and so when what is sent is none.                                   *)
LEMMA StillEmitted ==
  ASSUME Around, NEW me, NEW outs \in Outbox, Emit(me, outs), NEW u,
         \A y \in Sent(me, outs) : y \notin Reports(u, 0) /\ y \notin Reports(u, 1)
  PROVE  StillNet(u)
<1>1. NetTyped /\ NetTyped'
  BY AroundTyped
<1>2. LoneSent(me, outs, Reports(u, 0)) /\ LoneSent(me, outs, Reports(u, 1))
  <2>1. Reports(u, 0) \subseteq Flying /\ Reports(u, 1) \subseteq Flying
    BY DEF Reports
  <2>2. QED
    BY <2>1, UnreportedLone
<1>3. Moves({}, Sent(me, outs), Reports(u, 0)) /\ Moves({}, Sent(me, outs), Reports(u, 1))
  BY <1>1, <1>2, EmitMoves
<1>4. \A z \in Flights' : z \in Reports(u, 0) \/ z \in Reports(u, 1) => z \in Flights
  BY <1>3 DEF Moves
<1>5. \A z \in Flights : z \in Flights'
  BY <1>1, EmitLeaves
<1>6. Ordered(Reports(u, 0), Reports(u, 1)) => Ordered(Reports(u, 0), Reports(u, 1))'
  <2>1. PICK A : A = Reports(u, 0)
    OBVIOUS
  <2>2. PICK B : B = Reports(u, 1)
    OBVIOUS
  <2>3. Ordered(A, B) => Ordered(A, B)'
    BY <1>1, <2>2, EmitOrdered
  <2>4. QED
    BY <2>1, <2>2, <2>3
<1>7. QED
  BY <1>4, <1>5, <1>6 DEF StillNet

(* Nothing is sent: the reports are as before.                             *)
LEMMA StillUnsent ==
  ASSUME net' = net, NEW u
  PROVE  StillNet(u)
BY DEF StillNet, Flights, Ordered

(* A message answered by one message, neither a report.                    *)
LEMMA StillReceivedTo ==
  ASSUME Around, NEW src, NEW me, <<src, me>> \in Links, NEW kind, Pending(src, me, kind),
         NEW n, NEW p \in Message, Receive(src, me, To(n, p)), NEW u,
         p.kind # "M_CLIENT_CONNECT_STATUS" \/ n = SS, kind # "M_CLIENT_CONNECT_STATUS" \/ me # LS
  PROVE  StillNet(u)
<1>1. To(n, p) \in Outbox
  BY ToTyped
<1>2. ASSUME NEW y \in Sent(me, To(n, p))
      PROVE  y \notin Reports(u, 0) /\ y \notin Reports(u, 1)
  <2>1. y = <<<<me, n>>, p>>
    BY <1>2, SentOne
  <2>2. y[2] = p /\ y[1][2] = n
    BY <2>1
  <2>3. QED
    BY <2>2 DEF Reports
<1>3. PICK m : m = Head(net[<<src, me>>])
  OBVIOUS
<1>4. <<<<src, me>>, m>> \notin Reports(u, 0) \/ me # LS
  BY <1>3, HeadIs, OtherKind
<1>5. QED
  BY <1>1, <1>2, <1>3, <1>4, StillReceived

(* A message nobody answers, and no report.                                *)
LEMMA StillReceivedSilent ==
  ASSUME Around, NEW src, NEW me, <<src, me>> \in Links, NEW kind, Pending(src, me, kind),
         Receive(src, me, Silent), NEW u, kind # "M_CLIENT_CONNECT_STATUS" \/ me # LS
  PROVE  StillNet(u)
<1>1. \A y \in Sent(me, Silent) : y \notin Reports(u, 0) /\ y \notin Reports(u, 1)
  BY SentNone
<1>2. PICK m : m = Head(net[<<src, me>>])
  OBVIOUS
<1>3. <<<<src, me>>, m>> \notin Reports(u, 0) \/ me # LS
  BY <1>2, HeadIs, OtherKind
<1>4. QED
  BY <1>1, <1>2, <1>3, SilentTyped, StillReceived

(* One message is sent, and it is no report.                               *)
LEMMA StillEmittedTo ==
  ASSUME Around, NEW me, NEW n, NEW p \in Message, Emit(me, To(n, p)), NEW u,
         p.kind # "M_CLIENT_CONNECT_STATUS" \/ n = SS
  PROVE  StillNet(u)
<1>1. To(n, p) \in Outbox
  BY ToTyped
<1>2. ASSUME NEW y \in Sent(me, To(n, p))
      PROVE  y \notin Reports(u, 0) /\ y \notin Reports(u, 1)
  <2>1. y = <<<<me, n>>, p>>
    BY <1>2, SentOne
  <2>2. y[2] = p /\ y[1][2] = n
    BY <2>1
  <2>3. QED
    BY <2>2 DEF Reports
<1>3. QED
  BY <1>1, <1>2, StillEmitted

(* A step of the LS that reports nothing keeps what is told of a user. *)
LEMMA ToldByLS ==
  ASSUME Around, NEW u \in Users, Kept(u), Told(u), StillNet(u), UNCHANGED <<wsVars, fsVars, ssVars, latest>>,
         current'[u] \in {current[u], NoShard}, waiting'[u] \in {waiting[u], Nowhere}
  PROVE  Told(u)'
<1>1. wsAssoc' = wsAssoc /\ jobs' = jobs /\ conn' = conn
  BY DEF wsVars, fsVars
<1>2. StillJobs(u) /\ GoneFrom(u)
  BY <1>1 DEF StillJobs, JobFlights, GoneFrom, Gone, Sock
<1>3. \A s \in Shards : wsAssoc'[s][u] = wsAssoc[s][u]
  BY <1>1
<1>4. QED
  BY <1>2, <1>3, ToldStays

(* LSShardsList keeps Told for every user.                                 *)
LEMMA ToldShardsList ==
  ASSUME Around, LSShardsList, UNCHANGED <<wsVars, fsVars, ssVars, latest>>, NEW v \in Users, Kept(v), Told(v)
  PROVE  Told(v)'
<1>1. PICK m : m = Head(net[<<SS, LS>>])
  OBVIOUS
<1>2. /\ <<SS, LS>> \in Links /\ Pending(SS, LS, "M_SC_SHARDS")
      /\ Receive(SS, LS, To(SS, Msg("M_SC_SHARDS", m.u))) /\ SendShardListToSS(m.u)
  BY <1>1, LinksAre DEF LSShardsList, ToSS
<1>3. /\ <<<<SS, LS>>, m>> \in Flights /\ <<<<SS, LS>>, m>> \in Flying
      /\ m.kind = "M_SC_SHARDS" /\ m.u \in Users /\ m \in Message
  BY <1>1, <1>2, HeadIs
<1>4. PICK p : p = Msg("M_SC_SHARDS", m.u)
  OBVIOUS
<1>5. p \in Message /\ p.kind = "M_SC_SHARDS"
  BY <1>3, <1>4, MsgTyped, NullsTyped, WSNulls DEF Kinds, Answers, Msg
<1>6. StillNet(v)
  BY <1>1, <1>2, <1>3, <1>4, <1>5, StillReceivedTo
<1>7. current'[v] \in {current[v], NoShard} /\ waiting'[v] \in {waiting[v], Nowhere}
  <2>1. current \in [Users -> ShardOrNone] /\ waiting \in [Users -> Place]
    BY DEF Around, TypeOK, LSTypeOK
  <2>2. current' = [current EXCEPT ![m.u] = NoShard] /\ waiting' = [waiting EXCEPT ![m.u] = Nowhere]
    BY <1>2 DEF SendShardListToSS, ResetSession
  <2>3. QED
    BY <2>1, <2>2
<1>8. QED
  BY <1>6, <1>7, ToldByLS

(* LSChooseShardRefused keeps Told for every user.                         *)
LEMMA ToldChooseShardRefused ==
  ASSUME Around, LSChooseShardRefused, UNCHANGED <<wsVars, fsVars, ssVars, latest>>,
         NEW v \in Users, Kept(v), Told(v)
  PROVE  Told(v)'
<1>1. PICK m : m = Head(net[<<SS, LS>>])
  OBVIOUS
<1>2. /\ <<SS, LS>> \in Links /\ Pending(SS, LS, "M_ENTER_SHARD_REQUEST")
      /\ Receive(SS, LS, To(SS, Msg("M_SC_FAIL", m.u))) /\ UNCHANGED lsVars
  BY <1>1, LinksAre DEF LSChooseShardRefused, ToSS
<1>3. /\ <<<<SS, LS>>, m>> \in Flights /\ <<<<SS, LS>>, m>> \in Flying
      /\ m.kind = "M_ENTER_SHARD_REQUEST" /\ m.u \in Users /\ m \in Message
  BY <1>1, <1>2, HeadIs
<1>4. PICK p : p = Msg("M_SC_FAIL", m.u)
  OBVIOUS
<1>5. p \in Message /\ p.kind = "M_SC_FAIL"
  BY <1>3, <1>4, MsgTyped, NullsTyped, WSNulls DEF Kinds, Answers, Msg
<1>6. StillNet(v)
  BY <1>1, <1>2, <1>3, <1>4, <1>5, StillReceivedTo
<1>7. current' = current /\ waiting' = waiting
  BY <1>2 DEF lsVars
<1>8. QED
  BY <1>6, <1>7, ToldByLS

(* LSChooseShard keeps Told for every user.                                *)
LEMMA ToldChooseShard ==
  ASSUME Around, LSChooseShard, UNCHANGED <<wsVars, fsVars, ssVars, latest>>, NEW v \in Users, Kept(v), Told(v)
  PROVE  Told(v)'
<1>1. PICK m : m = Head(net[<<SS, LS>>])
  OBVIOUS
<1>2. PICK ck : ck = [key |-> lastKey + 1, sock |-> m.v]
  OBVIOUS
<1>3. PICK p : p = [Msg("M_ENTER_SHARD_REQUEST", m.u) EXCEPT !.ck = ck]
  OBVIOUS
<1>4. /\ <<SS, LS>> \in Links /\ Pending(SS, LS, "M_ENTER_SHARD_REQUEST")
      /\ Receive(SS, LS, To(m.s, p)) /\ current' = current /\ waiting' = waiting
  BY <1>1, <1>2, <1>3, LinksAre DEF LSChooseShard
<1>5. /\ <<<<SS, LS>>, m>> \in Flights /\ <<<<SS, LS>>, m>> \in Flying
      /\ m.kind = "M_ENTER_SHARD_REQUEST" /\ m.u \in Users /\ m \in Message
  BY <1>1, <1>4, HeadIs
<1>6. ck \in Cookie
  <2>1. lastKey \in Nat /\ m.v \in Nat
    BY <1>5 DEF Around, TypeOK, LSTypeOK, Message
  <2>2. QED
    BY <1>2, <2>1 DEF Cookie
<1>7. p \in Message /\ p.kind = "M_ENTER_SHARD_REQUEST"
  BY <1>3, <1>5, <1>6, MsgTyped, NullsTyped, WSNulls DEF Kinds, Answers, Msg
<1>8. StillNet(v)
  BY <1>1, <1>4, <1>5, <1>7, StillReceivedTo
<1>9. QED
  BY <1>4, <1>8, ToldByLS

(* LSDisconnectClient keeps Told for every user.                           *)
LEMMA ToldDisconnectClient ==
  ASSUME Around, LSDisconnectClient, UNCHANGED <<wsVars, fsVars, ssVars, latest>>,
         NEW v \in Users, Kept(v), Told(v)
  PROVE  Told(v)'
<1>1. PICK m : m = Head(net[<<SS, LS>>])
  OBVIOUS
<1>2. <<SS, LS>> \in Links /\ Pending(SS, LS, "M_CLIENT_DISCONNECT") /\ UNCHANGED lsVars
  BY LinksAre DEF LSDisconnectClient
<1>3. /\ <<<<SS, LS>>, m>> \in Flights /\ <<<<SS, LS>>, m>> \in Flying
      /\ m.kind = "M_CLIENT_DISCONNECT" /\ m.u \in Users /\ m \in Message
  BY <1>1, <1>2, HeadIs
<1>4. PICK p : p = Msg("M_CLIENT_DISCONNECT", m.u)
  OBVIOUS
<1>5. p \in Message /\ p.kind = "M_CLIENT_DISCONNECT"
  BY <1>3, <1>4, MsgTyped, NullsTyped, WSNulls DEF Kinds, Answers, Msg
<1>6. Receive(SS, LS, Silent) \/ Receive(SS, LS, To(tempCookie[m.u], p))
  BY <1>1, <1>4 DEF LSDisconnectClient
<1>7. StillNet(v)
  BY <1>1, <1>2, <1>3, <1>5, <1>6, StillReceivedSilent, StillReceivedTo
<1>8. current' = current /\ waiting' = waiting
  BY <1>2 DEF lsVars
<1>9. QED
  BY <1>7, <1>8, ToldByLS

(* LSShardAnswer keeps Told for every user.                                *)
LEMMA ToldShardAnswer ==
  ASSUME Around, NEW s \in Shards, LSShardAnswer(s), UNCHANGED <<wsVars, fsVars, ssVars, latest>>,
         NEW v \in Users, Kept(v), Told(v)
  PROVE  Told(v)'
<1>1. PICK m : m = Head(net[<<s, LS>>])
  OBVIOUS
<1>2. /\ <<s, LS>> \in Links /\ Pending(s, LS, "M_ENTER_SHARD_ANSWER")
      /\ current' = current /\ waiting' = waiting
  BY LinksAre DEF LSShardAnswer
<1>3. /\ <<<<s, LS>>, m>> \in Flights /\ <<<<s, LS>>, m>> \in Flying
      /\ m.kind = "M_ENTER_SHARD_ANSWER" /\ m.u \in Users /\ m \in Message
  BY <1>1, <1>2, HeadIs
<1>4. PICK r : r = changeReq[m.u]
  OBVIOUS
<1>5. PICK p : p = [m EXCEPT !.kind = "M_SC_CHANGE_SHARD_ANS", !.fsSid = r.f]
  OBVIOUS
<1>6. p \in Message /\ p.kind = "M_SC_CHANGE_SHARD_ANS"
  <2>1. r \in Place
    BY <1>3, <1>4, UserTyped
  <2>2. QED
    BY <1>3, <1>5, <2>1 DEF Message, Place, Kinds, Answers
<1>7. Receive(s, LS, To(SS, m)) \/ Receive(s, LS, To(r.s, p)) \/ Receive(s, LS, Silent)
  BY <1>1, <1>4, <1>5 DEF LSShardAnswer
<1>8. StillNet(v)
  BY <1>1, <1>2, <1>3, <1>6, <1>7, StillReceivedSilent, StillReceivedTo
<1>9. QED
  BY <1>2, <1>8, ToldByLS

(* LSRemovedPendingCookie keeps Told for every user.                       *)
LEMMA ToldRemovedPendingCookie ==
  ASSUME Around, NEW s \in Shards, LSRemovedPendingCookie(s), UNCHANGED <<wsVars, fsVars, ssVars, latest>>,
         NEW v \in Users, Kept(v), Told(v)
  PROVE  Told(v)'
<1>1. PICK m : m = Head(net[<<s, LS>>])
  OBVIOUS
<1>2. /\ <<s, LS>> \in Links /\ Pending(s, LS, "M_LOGIN_SERVER_RPC") /\ Receive(s, LS, Silent)
      /\ current' = current /\ waiting' = waiting
  BY LinksAre DEF LSRemovedPendingCookie
<1>3. /\ <<<<s, LS>>, m>> \in Flights /\ <<<<s, LS>>, m>> \in Flying
      /\ m.kind = "M_LOGIN_SERVER_RPC" /\ m.u \in Users /\ m \in Message
  BY <1>1, <1>2, HeadIs
<1>4. StillNet(v)
  BY <1>1, <1>2, <1>3, StillReceivedSilent
<1>5. QED
  BY <1>2, <1>4, ToldByLS

(* LSChangeShardReq keeps Told for every user.                             *)
LEMMA ToldChangeShardReq ==
  ASSUME Around, NEW s \in Shards, LSChangeShardReq(s), UNCHANGED <<wsVars, fsVars, ssVars, latest>>,
         NEW v \in Users, Kept(v), Told(v)
  PROVE  Told(v)'
<1>1. PICK m : m = Head(net[<<s, LS>>])
  OBVIOUS
<1>2. /\ <<s, LS>> \in Links /\ Pending(s, LS, "M_CS_CHANGE_SHARD_REQ")
      /\ current' = current /\ waiting' = waiting
  BY LinksAre DEF LSChangeShardReq
<1>3. /\ <<<<s, LS>>, m>> \in Flights /\ <<<<s, LS>>, m>> \in Flying
      /\ m.kind = "M_CS_CHANGE_SHARD_REQ" /\ m.u \in Users /\ m \in Message
  BY <1>1, <1>2, HeadIs
<1>4. PICK p : p = [Msg("M_ENTER_SHARD_REQUEST", m.u) EXCEPT !.ck = loginCookie[m.u]]
  OBVIOUS
<1>5. p \in Message /\ p.kind = "M_ENTER_SHARD_REQUEST"
  <2>1. loginCookie[m.u] \in Cookie
    BY <1>3 DEF Around, TypeOK, LSTypeOK
  <2>2. QED
    BY <1>3, <1>4, <2>1, MsgTyped, NullsTyped, WSNulls DEF Kinds, Answers, Msg
<1>6. Receive(s, LS, To(m.s, p)) \/ Receive(s, LS, Silent)
  BY <1>1, <1>4 DEF LSChangeShardReq
<1>7. StillNet(v)
  BY <1>1, <1>2, <1>3, <1>5, <1>6, StillReceivedSilent, StillReceivedTo
<1>8. QED
  BY <1>2, <1>7, ToldByLS

(* LSMoveDataEnd keeps Told for every user.                                *)
LEMMA ToldMoveDataEnd ==
  ASSUME Around, NEW s \in Shards, LSMoveDataEnd(s), UNCHANGED <<wsVars, fsVars, ssVars, latest>>,
         NEW v \in Users, Kept(v), Told(v)
  PROVE  Told(v)'
<1>1. PICK m : m = Head(net[<<s, LS>>])
  OBVIOUS
<1>2. /\ <<s, LS>> \in Links /\ Pending(s, LS, "M_NT_MOVE_USER_DATA_END")
      /\ current' = current /\ waiting' = waiting /\ Receive(s, LS, MoveEndOutbox(m.u, s))
  BY <1>1, LinksAre DEF LSMoveDataEnd, MoveEndOutbox
<1>3. /\ <<<<s, LS>>, m>> \in Flights /\ <<<<s, LS>>, m>> \in Flying
      /\ m.kind = "M_NT_MOVE_USER_DATA_END" /\ m.u \in Users /\ m \in Message
  BY <1>1, <1>2, HeadIs
<1>4. ASSUME NEW y \in Sent(LS, MoveEndOutbox(m.u, s))
      PROVE  y[2].kind # "M_CLIENT_CONNECT_STATUS"
  <2>1. \/ y[2].kind = "M_NT_MOVE_USER_DATA_REQ"
        \/ y = EntryTo(m.u, s, moving[m.u].f)
    BY <1>3, <1>4, MoveEndSends
  <2>2. EntryTo(m.u, s, moving[m.u].f)[2].kind = "M_ENTER__SHARD"
    BY DEF EntryTo, Msg
  <2>3. QED
    BY <2>1, <2>2
<1>5. MoveEndOutbox(m.u, s) \in Outbox
  BY <1>3, MoveEndSends
<1>6. StillNet(v)
  <2>1. \A y \in Sent(LS, MoveEndOutbox(m.u, s)) : y \notin Reports(v, 0) /\ y \notin Reports(v, 1)
    BY <1>4 DEF Reports
  <2>2. <<<<s, LS>>, m>> \notin Reports(v, 0)
    BY <1>3, OtherKind
  <2>3. QED
    BY <1>1, <1>2, <1>5, <2>1, <2>2, StillReceived
<1>7. QED
  BY <1>2, <1>6, ToldByLS

-----------------------------------------------------------------------------
(* The steps of the LS that take a report. *)

(* A step of the LS that leads the user to no further shard.               *)
LEMMA ToldLed ==
  ASSUME Around, NEW u \in Users, Kept(u), Told(u), UNCHANGED <<wsVars, fsVars, ssVars, latest>>,
         \A z \in Flights' : z \in Reports(u, 0) \/ z \in Reports(u, 1) => z \in Flights,
         Ordered(Reports(u, 0), Reports(u, 1)) => Ordered(Reports(u, 0), Reports(u, 1))',
         \A s \in Shards : Led(u, s)' =>
           /\ Led(u, s)
           /\ \A y \in Flights : y \in Reports(u, 0) /\ y[1] = <<s, LS>> => y \in Flights'
  PROVE  Told(u)'
<1>1. wsAssoc' = wsAssoc /\ jobs' = jobs /\ conn' = conn
  BY DEF wsVars, fsVars
<1>2. /\ GoneFrom(u)
      /\ \A y \in JobFlights' : y \in EndJobs(u) => y \in JobFlights
      /\ \A y \in JobFlights : y \in EndJobs(u) => y \in JobFlights'
  BY <1>1 DEF JobFlights, GoneFrom, Gone, Sock
<1>3. InTurn(u) /\ Backed(u) /\ Ordered(Reports(u, 0), Reports(u, 1))'
  BY DEF Told, InTurn
<1>4. InTurn(u)'
  BY <1>2, <1>3, InTurnStays
<1>5. ASSUME NEW s \in Shards, Led(u, s)'
      PROVE  Backs(u, s)'
  <2>1. Backs(u, s)
    BY <1>3, <1>5 DEF Backed
  <2>2. wsAssoc'[s][u] = wsAssoc[s][u]
    BY <1>1
  <2>3. \A y \in Flights : y \in Reports(u, 0) /\ y[1] = <<s, LS>> => y \in Flights'
    BY <1>5
  <2>4. \A y \in JobFlights : y \in EndJobs(u) /\ y[1] = s => y \in JobFlights'
    BY <1>2
  <2>5. QED
    BY <2>1, <2>2, <2>3, <2>4, BacksStay
<1>6. Backed(u)'
  BY <1>5 DEF Backed
<1>7. QED
  BY <1>4, <1>6 DEF Told

(* The LS takes a report: those left are in turn.                          *)
LEMMA ReportTaken ==
  ASSUME Around, NEW s \in Shards, Pending(s, LS, "M_CLIENT_CONNECT_STATUS"),
         NEW m, m = Head(net[<<s, LS>>]), NEW outs \in Outbox, Receive(s, LS, outs), NEW u,
         \A y \in Sent(LS, outs) : y \notin Reports(u, 0) /\ y \notin Reports(u, 1)
  PROVE  /\ \A z \in Flights' : z \in Reports(u, 0) \/ z \in Reports(u, 1) => z \in Flights
         /\ Ordered(Reports(u, 0), Reports(u, 1)) => Ordered(Reports(u, 0), Reports(u, 1))'
         /\ \A z \in Flights : z \in Flights' \/ z = <<<<s, LS>>, m>>
<1>1. NetTyped /\ NetTyped' /\ <<s, LS>> \in Links
  BY AroundTyped, LinksAre
<1>2. LoneSent(LS, outs, Reports(u, 0)) /\ LoneSent(LS, outs, Reports(u, 1))
  <2>1. Reports(u, 0) \subseteq Flying /\ Reports(u, 1) \subseteq Flying
    BY DEF Reports
  <2>2. QED
    BY <2>1, UnreportedLone
<1>3. /\ Moves({<<<<s, LS>>, m>>}, Sent(LS, outs), Reports(u, 0))
      /\ Moves({<<<<s, LS>>, m>>}, Sent(LS, outs), Reports(u, 1))
  BY <1>1, <1>2, ReceiveMoves
<1>4. \A z \in Flights' : z \in Reports(u, 0) \/ z \in Reports(u, 1) => z \in Flights
  BY <1>3 DEF Moves
<1>5. \A z \in Flights : z \in Flights' \/ z = <<<<s, LS>>, m>>
  BY <1>1, ReceiveLeaves
<1>6. Ordered(Reports(u, 0), Reports(u, 1)) => Ordered(Reports(u, 0), Reports(u, 1))'
  <2>1. PICK A : A = Reports(u, 0)
    OBVIOUS
  <2>2. PICK B : B = Reports(u, 1)
    OBVIOUS
  <2>3. Ordered(A, B) => Ordered(A, B)'
    BY <1>1, <2>2, ReceiveOrdered
  <2>4. QED
    BY <2>1, <2>2, <2>3
<1>7. QED
  BY <1>4, <1>5, <1>6

(* A start is taken: the shard is where the LS has, or is to have, the user. *)
LEMMA StartTaken ==
  ASSUME Around, NEW s \in Shards, Pending(s, LS, "M_CLIENT_CONNECT_STATUS"),
         NEW m, m = Head(net[<<s, LS>>]), m.v = 1, NEW outs \in Outbox, Receive(s, LS, outs),
         UNCHANGED <<wsVars, fsVars, ssVars, latest>>, NEW v \in Users, Kept(v), Told(v),
         \A y \in Sent(LS, outs) : y \notin Reports(v, 0) /\ y \notin Reports(v, 1),
         current'[v] = current[v] \/ (v = m.u /\ current'[v] = s),
         waiting'[v] = waiting[v] \/ (v = m.u /\ waiting'[v].s = s)
  PROVE  Told(v)'
<1>1. <<s, LS>> \in Links
  BY LinksAre
<1>2. /\ <<<<s, LS>>, m>> \in Flights /\ <<<<s, LS>>, m>> \in Flying
      /\ m.kind = "M_CLIENT_CONNECT_STATUS" /\ m.u \in Users /\ m \in Message
  BY <1>1, HeadIs
<1>3. PICK x : x = <<<<s, LS>>, m>>
  OBVIOUS
<1>4. x[1] = <<s, LS>> /\ x[1][2] = LS /\ x[2] = m /\ x \in Flights /\ x \in Flying
  BY <1>2, <1>3
<1>5. x \notin Reports(v, 0) /\ (v = m.u => x \in Reports(v, 1))
  BY <1>2, <1>4, NodesDistinct DEF Reports
<1>6. /\ \A z \in Flights' : z \in Reports(v, 0) \/ z \in Reports(v, 1) => z \in Flights
      /\ Ordered(Reports(v, 0), Reports(v, 1)) => Ordered(Reports(v, 0), Reports(v, 1))'
      /\ \A z \in Flights : z \in Flights' \/ z = x
  BY <1>3, ReportTaken
<1>7. ASSUME NEW t \in Shards, Led(v, t)'
      PROVE  Led(v, t)
  BY <1>4, <1>5, <1>6, <1>7 DEF Led
<1>8. \A y \in Flights : y \in Reports(v, 0) => y \in Flights'
  BY <1>5, <1>6
<1>9. QED
  BY <1>6, <1>7, <1>8, ToldLed

(* LSClientMustWait keeps Told for every user.                             *)
LEMMA ToldClientMustWait ==
  ASSUME Around, NEW s \in Shards, LSClientMustWait(s), UNCHANGED <<wsVars, fsVars, ssVars, latest>>,
         NEW v \in Users, Kept(v), Told(v)
  PROVE  Told(v)'
<1>1. PICK m : m = Head(net[<<s, LS>>])
  OBVIOUS
<1>2. /\ Pending(s, LS, "M_CLIENT_CONNECT_STATUS")
      /\ m.v = 1 /\ current' = current
      /\ waiting' = [waiting EXCEPT ![m.u] = IF @ = Nowhere THEN [s |-> s, f |-> m.fsSid] ELSE @]
      /\ Receive(s, LS, Silent)
  BY <1>1 DEF LSClientMustWait
<1>3. waiting \in [Users -> Place]
  BY DEF Around, TypeOK, LSTypeOK
<1>4. waiting'[v] = waiting[v] \/ (v = m.u /\ waiting'[v].s = s)
  BY <1>2, <1>3
<1>5. \A y \in Sent(LS, Silent) : y \notin Reports(v, 0) /\ y \notin Reports(v, 1)
  BY SentNone
<1>6. QED
  BY <1>1, <1>2, <1>4, <1>5, SilentTyped, StartTaken

(* LSClientConnected keeps Told for every user.                            *)
LEMMA ToldClientConnected ==
  ASSUME Around, NEW s \in Shards, LSClientConnected(s), UNCHANGED <<wsVars, fsVars, ssVars, latest>>,
         NEW v \in Users, Kept(v), Told(v)
  PROVE  Told(v)'
<1>1. PICK m : m = Head(net[<<s, LS>>])
  OBVIOUS
<1>2. PICK f : f = m.fsSid
  OBVIOUS
<1>3. PICK outs : outs = AdmitOutbox(m.u, s, f, 1)
  OBVIOUS
<1>4. PICK fails \in BOOLEAN : /\ m.v = 1 /\ Admit(m.u, s, f, 1, dbOnline[m.u], nPlayers, fails)
                               /\ Receive(s, LS, outs)
  BY <1>1, <1>2, <1>3 DEF LSClientConnected
<1>5. <<s, LS>> \in Links /\ Pending(s, LS, "M_CLIENT_CONNECT_STATUS") /\ waiting' = waiting
  BY LinksAre DEF LSClientConnected
<1>6. /\ <<<<s, LS>>, m>> \in Flights /\ <<<<s, LS>>, m>> \in Flying
      /\ m.kind = "M_CLIENT_CONNECT_STATUS" /\ m.u \in Users /\ m \in Message
  BY <1>1, <1>5, HeadIs
<1>7. f \in FesOrNone
  BY <1>2, <1>6, MessageIs
<1>8. current'[v] = current[v] \/ (v = m.u /\ current'[v] = s)
  <2>1. current' = [current EXCEPT ![m.u] = s]
    BY <1>4 DEF Admit
  <2>2. current \in [Users -> ShardOrNone]
    BY DEF Around, TypeOK, LSTypeOK
  <2>3. QED
    BY <2>1, <2>2
<1>9. outs \in Outbox /\ \A y \in Sent(LS, outs) : y \notin Reports(v, 0) /\ y \notin Reports(v, 1)
  <2>1. PICK u \in Users : u = m.u
    BY <1>6
  <2>2. outs = AdmitOutbox(u, s, f, 1)
    BY <1>3, <2>1
  <2>3. /\ outs \in Outbox /\ LoneFor(v, LS, outs)
        /\ \A y \in Sent(LS, outs) :
              \/ ~Concerns(v, y)
              \/ v = u /\ moving[u] = NoMove /\ infoCur[u] = s /\ y = EntryTo(u, s, f)
              \/ /\ v = u /\ MoveBeforeEntry(u, s) /\ y[1] = <<LS, infoCur[u]>>
                 /\ y[2].kind = "M_NT_MOVE_USER_DATA_REQ" /\ y[2].u = u
    BY <1>7, <2>2, AdmitSends
  <2>4. EntryTo(u, s, f)[2].kind = "M_ENTER__SHARD"
    BY DEF EntryTo, Msg
  <2>5. QED
    BY <2>3, <2>4 DEF Concerns, Ahead, Reports
<1>10. QED
  BY <1>1, <1>4, <1>5, <1>8, <1>9, StartTaken

(* An end is taken: what backs another shard stays.                        *)
LEMMA EndTaken ==
  ASSUME Around, NEW s \in Shards, Pending(s, LS, "M_CLIENT_CONNECT_STATUS"),
         NEW m, m = Head(net[<<s, LS>>]), m.v = 0, NEW outs \in Outbox, Receive(s, LS, outs),
         UNCHANGED <<wsVars, fsVars, ssVars, latest>>, NEW v \in Users, Kept(v), Told(v),
         \A y \in Sent(LS, outs) : y \notin Reports(v, 0) /\ y \notin Reports(v, 1),
         v # m.u => current'[v] = current[v] /\ waiting'[v] = waiting[v],
         v = m.u => \A t \in Shards : Led(v, t)' =>
                      \/ t # s /\ Led(v, t)
                      \/ \E x \in Flights : x \in Reports(v, 1) /\ x[1] = <<t, LS>>
  PROVE  Told(v)'
<1>1. <<s, LS>> \in Links /\ NetTyped
  BY LinksAre, AroundTyped
<1>2. /\ <<<<s, LS>>, m>> \in Flights /\ <<<<s, LS>>, m>> \in Flying
      /\ m.kind = "M_CLIENT_CONNECT_STATUS" /\ m.u \in Users /\ m \in Message
  BY <1>1, HeadIs
<1>3. PICK y : y = <<<<s, LS>>, m>>
  OBVIOUS
<1>4. y[1] = <<s, LS>> /\ y[1][2] = LS /\ y[2] = m /\ y \in Flights /\ y \in Flying
  BY <1>2, <1>3
<1>5. y \in Reports(v, 0) <=> v = m.u
  BY <1>2, <1>4, NodesDistinct DEF Reports
<1>6. /\ \A z \in Flights' : z \in Reports(v, 0) \/ z \in Reports(v, 1) => z \in Flights
      /\ Ordered(Reports(v, 0), Reports(v, 1)) => Ordered(Reports(v, 0), Reports(v, 1))'
      /\ \A z \in Flights : z \in Flights' \/ z = y
  BY <1>3, ReportTaken
<1>7. ASSUME NEW t \in Shards, Led(v, t)'
      PROVE  /\ Led(v, t)
             /\ \A z \in Flights : z \in Reports(v, 0) /\ z[1] = <<t, LS>> => z \in Flights'
  <2>1. CASE v # m.u
    <3>1. Led(v, t)
      BY <1>6, <1>7, <2>1 DEF Led
    <3>2. QED
      BY <1>5, <1>6, <2>1, <3>1
  <2>2. CASE v = m.u /\ \E x \in Flights : x \in Reports(v, 1) /\ x[1] = <<t, LS>>
    <3>1. PICK x \in Flights : x \in Reports(v, 1) /\ x[1] = <<t, LS>>
      BY <2>2
    <3>2. Led(v, t)
      BY <3>1 DEF Led
    <3>3. Ordered(Reports(v, 0), Reports(v, 1))
      BY DEF Told, InTurn
    <3>4. PICK a \in Links : a = <<s, LS>>
      BY <1>1
    <3>5. /\ 1 \in DOMAIN net[a] /\ m = net[a][1]
      BY <1>1, <3>4, HeadFlies
    <3>6. <<a, net[a][1]>> \in Reports(v, 0)
      BY <1>3, <1>5, <2>2, <3>4, <3>5
    <3>7. x[1] # a
      BY <1>1, <3>1, <3>3, <3>5, <3>6, HeadOrdered
    <3>8. <<t, LS>> # <<s, LS>>
      BY <3>1, <3>4, <3>7
    <3>9. QED
      BY <1>4, <1>6, <3>2, <3>8
  <2>3. CASE v = m.u /\ t # s /\ Led(v, t)
    <3>1. <<t, LS>> # <<s, LS>>
      BY <2>3
    <3>2. QED
      BY <1>4, <1>6, <2>3, <3>1
  <2>4. QED
    BY <1>7, <2>1, <2>2, <2>3
<1>8. QED
  BY <1>6, <1>7, ToldLed

(* LSClientDisconnected keeps Told for every user.                         *)
LEMMA ToldClientDisconnected ==
  ASSUME Around, NEW s \in Shards, LSClientDisconnected(s), UNCHANGED <<wsVars, fsVars, ssVars, latest>>,
         NEW v \in Users, \A a \in Users : Kept(a), Told(v)
  PROVE  Told(v)'
<1>1. PICK m : m = Head(net[<<s, LS>>])
  OBVIOUS
<1>2. PICK u : u = m.u
  OBVIOUS
<1>3. /\ <<s, LS>> \in Links /\ Pending(s, LS, "M_CLIENT_CONNECT_STATUS")
  BY LinksAre DEF LSClientDisconnected
<1>4. /\ <<<<s, LS>>, m>> \in Flights /\ <<<<s, LS>>, m>> \in Flying
      /\ m.kind = "M_CLIENT_CONNECT_STATUS" /\ m.u \in Users /\ m \in Message
  BY <1>1, <1>3, HeadIs
<1>5. ~abnormal[u] /\ u \in Users
  BY <1>2, <1>4 DEF Kept, Stored
<1>6. PICK go : go = (IF Abroad(u) THEN MoveRequest(u, infoCur[u], MainShard[u]) ELSE Silent)
  OBVIOUS
<1>7. PICK outs : outs = LogoffOutbox(u) \oplus go
  OBVIOUS
<1>8. /\ m.v = 0 /\ NobodyWaits(u) /\ current' = [current EXCEPT ![u] = NoShard]
      /\ waiting' = waiting /\ Receive(s, LS, outs)
  BY <1>1, <1>2, <1>5, <1>6, <1>7 DEF LSClientDisconnected, Abroad
<1>9. current \in [Users -> ShardOrNone]
  BY DEF Around, TypeOK, LSTypeOK
<1>10. /\ go \in Outbox /\ LoneFor(v, LS, go)
       /\ \A y \in Sent(LS, go) : y[2].kind = "M_NT_MOVE_USER_DATA_REQ"
  <2>1. CASE Abroad(u)
    BY <1>5, <1>6, <2>1, HomeSends
  <2>2. CASE ~Abroad(u)
    <3>1. go = Silent
      BY <1>6, <2>2
    <3>2. \A y \in Sent(LS, Silent) : FALSE
      BY SentNone
    <3>3. QED
      BY <3>1, <3>2, SilentTyped, LoneForOne
  <2>3. QED
    BY <2>1, <2>2
<1>11. LogoffOutbox(u) \in Outbox /\ LoneFor(v, LS, LogoffOutbox(u)) /\ Mute(v, LS, LogoffOutbox(u))
  BY <1>5, LogoffSends
<1>12. PICK G : G = Sent(LS, go)
  OBVIOUS
<1>13. outs \in Outbox /\ \A y \in Sent(LS, outs) : y \in Sent(LS, LogoffOutbox(u)) \/ y \in G
  <2>1. Mute(v, LS, LogoffOutbox(u)) \/ Mute(v, LS, go)
    BY <1>11
  <2>2. outs \in Outbox /\ LoneFor(v, LS, outs) /\ \A y \in Sent(LS, outs) : y \in Sent(LS, LogoffOutbox(u)) \/ y \in Sent(LS, go)
    BY <1>7, <1>10, <1>11, <2>1, LoneForBoth, JoinTyped
  <2>3. QED
    BY <1>12, <2>2
<1>14. \A y \in Sent(LS, outs) : y \notin Reports(v, 0) /\ y \notin Reports(v, 1)
  <2>1. \A y \in G : y[2].kind # "M_CLIENT_CONNECT_STATUS"
    BY <1>10, <1>12
  <2>2. \A y \in Sent(LS, LogoffOutbox(u)) : ~Concerns(v, y)
    BY <1>11 DEF Mute
  <2>3. QED
    BY <1>13, <2>1, <2>2 DEF Concerns, Ahead, Reports
<1>15. v # m.u => current'[v] = current[v] /\ waiting'[v] = waiting[v]
  BY <1>2, <1>8, <1>9
<1>16. ASSUME v = m.u, NEW t \in Shards, Led(v, t)'
       PROVE  \E x \in Flights : x \in Reports(v, 1) /\ x[1] = <<t, LS>>
  <2>1. waiting[v] = Nowhere /\ t # NoShard /\ Nowhere.s = NoShard
    BY <1>2, <1>5, <1>8, <1>16, NullsDistinct DEF NobodyWaits, Nowhere
  <2>2. current'[v] = NoShard /\ waiting'[v] = Nowhere
    BY <1>2, <1>8, <1>9, <1>16, <2>1
  <2>3. \E x \in Flights' : x \in Reports(v, 1) /\ x[1] = <<t, LS>>
    BY <1>16, <2>1, <2>2 DEF Led
  <2>4. \A z \in Flights' : z \in Reports(v, 1) => z \in Flights
    BY <1>1, <1>3, <1>8, <1>13, <1>14, ReportTaken
  <2>5. QED
    BY <2>3, <2>4
<1>17. QED
  BY <1>1, <1>3, <1>8, <1>13, <1>14, <1>15, <1>16, EndTaken

(* LSClientHandedOver keeps Told for every user.                           *)
LEMMA ToldClientHandedOver ==
  ASSUME Around, NEW s \in Shards, LSClientHandedOver(s), UNCHANGED <<wsVars, fsVars, ssVars, latest>>,
         NEW v \in Users, \A a \in Users : Kept(a), Told(v)
  PROVE  Told(v)'
<1>1. PICK m : m = Head(net[<<s, LS>>])
  OBVIOUS
<1>2. PICK u : u = m.u
  OBVIOUS
<1>3. PICK w : w = waiting[u]
  OBVIOUS
<1>4. PICK adm : adm = AdmitOutbox(u, w.s, w.f, 0)
  OBVIOUS
<1>5. PICK failsOut \in BOOLEAN, failsIn \in BOOLEAN :
        /\ m.v = 0 /\ ~NobodyWaits(u)
        /\ waiting' = [waiting EXCEPT ![u] = Nowhere]
        /\ Admit(u, w.s, w.f, 0, OnlineAfterLogoff(u, s, failsOut), PlayersAfterLogoff(u, s, failsOut), failsIn)
        /\ Receive(s, LS, LogoffOutbox(u) \oplus adm)
  BY <1>1, <1>2, <1>3, <1>4 DEF LSClientHandedOver
<1>6. <<s, LS>> \in Links /\ Pending(s, LS, "M_CLIENT_CONNECT_STATUS")
  BY LinksAre DEF LSClientHandedOver
<1>7. /\ <<<<s, LS>>, m>> \in Flights /\ <<<<s, LS>>, m>> \in Flying
      /\ m.kind = "M_CLIENT_CONNECT_STATUS" /\ m.u \in Users /\ m \in Message
  BY <1>1, <1>6, HeadIs
<1>8. u \in Users /\ Kept(u)
  BY <1>2, <1>7
<1>9. current' = [current EXCEPT ![u] = w.s]
  BY <1>5 DEF Admit
<1>10. /\ current \in [Users -> ShardOrNone] /\ waiting \in [Users -> Place]
  BY DEF Around, TypeOK, LSTypeOK
<1>11. /\ ~abnormal[u] /\ w # Nowhere /\ w.s \in ShardOrNone
       /\ current[u] \notin {NoShard, w.s}
  BY <1>3, <1>5, <1>8, <1>10 DEF NobodyWaits, Place, Around, WaitsForAnotherShard
<1>12. PICK s2 \in Shards, f2 \in Fess : s2 = w.s /\ f2 = w.f /\ ShardOf[f2] = s2
  <2>1. Waits(u)
    BY <1>3, <1>11 DEF Waits
  <2>2. w.f \in Fess /\ ShardOf[w.f] = w.s
    BY <1>3, <1>8, <2>1 DEF Kept, Outside, WaitsOK
  <2>3. QED
    BY <2>2, PlacesOK
<1>13. PICK outs : outs = LogoffOutbox(u) \oplus adm
  OBVIOUS
<1>14. /\ adm \in Outbox /\ LoneFor(v, LS, adm)
       /\ \A y \in Sent(LS, adm) :
            \/ ~Concerns(v, y)
            \/ v = u /\ moving[u] = NoMove /\ infoCur[u] = s2 /\ y = EntryTo(u, s2, f2)
            \/ /\ v = u /\ MoveBeforeEntry(u, s2) /\ y[1] = <<LS, infoCur[u]>>
               /\ y[2].kind = "M_NT_MOVE_USER_DATA_REQ" /\ y[2].u = u
  <2>1. adm = AdmitOutbox(u, s2, f2, 0) /\ f2 \in FesOrNone
    BY <1>4, <1>12 DEF FesOrNone
  <2>2. QED
    BY <1>8, <2>1, AdmitSends
<1>15. LogoffOutbox(u) \in Outbox /\ LoneFor(v, LS, LogoffOutbox(u)) /\ Mute(v, LS, LogoffOutbox(u))
  BY <1>8, <1>11, LogoffSends
<1>16. outs \in Outbox /\ LoneFor(v, LS, outs)
       /\ \A y \in Sent(LS, outs) : y \in Sent(LS, LogoffOutbox(u)) \/ y \in Sent(LS, adm)
  BY <1>13, <1>14, <1>15, LoneForBoth, JoinTyped
<1>17. \A y \in Sent(LS, outs) : y \notin Reports(v, 0) /\ y \notin Reports(v, 1)
  <2>1. EntryTo(u, s2, f2)[2].kind = "M_ENTER__SHARD"
    BY DEF EntryTo, Msg
  <2>2. ASSUME NEW y \in Sent(LS, adm)
        PROVE  y \notin Reports(v, 0) /\ y \notin Reports(v, 1)
    BY <1>14, <2>1, <2>2 DEF Concerns, Ahead, Reports
  <2>3. ASSUME NEW y \in Sent(LS, LogoffOutbox(u))
        PROVE  y \notin Reports(v, 0) /\ y \notin Reports(v, 1)
    BY <1>15, <2>3 DEF Mute, Concerns, Ahead
  <2>4. QED
    BY <1>16, <2>2, <2>3
<1>18. v # m.u => current'[v] = current[v] /\ waiting'[v] = waiting[v]
  BY <1>2, <1>5, <1>9, <1>10
<1>19. ASSUME v = m.u, NEW t \in Shards, Led(v, t)'
       PROVE  t # s /\ Led(v, t)
  <2>1. PICK y : y = <<<<s, LS>>, m>>
    OBVIOUS
  <2>2. y \in Flights /\ y \in Reports(v, 0) /\ Source(y) = s
    <3>1. y[1] = <<s, LS>> /\ y[1][2] = LS /\ y[2] = m /\ y[1][1] = s /\ y \in Flying
      BY <1>7, <2>1
    <3>2. QED
      BY <1>5, <1>7, <1>19, <2>1, <3>1, NodesDistinct DEF Reports, Source
  <2>3. current[v] = s
    <3>1. EndsOn(v, s) /\ Leaves(v)
      BY <1>2, <1>8, <1>19, <2>2 DEF EndsOn, Kept
    <3>2. QED
      BY <1>2, <1>11, <1>19, <3>1 DEF Leaves
  <2>4. \A x \in Flights : x \notin Reports(v, 1)
    <3>1. Waits(v)
      BY <1>2, <1>3, <1>11, <1>19 DEF Waits
    <3>2. ASSUME NEW x \in Flights, x \in Reports(v, 1)
          PROVE  FALSE
      <4>1. ReportOK(v, x)
        BY <1>2, <1>8, <1>19, <3>2, ReportHead
      <4>2. QED
        BY <3>1, <4>1 DEF ReportOK, Calls
    <3>3. QED
      BY <3>2
  <2>5. \A z \in Flights' : z \in Reports(v, 1) => z \in Flights
    BY <1>1, <1>5, <1>6, <1>13, <1>16, <1>17, ReportTaken
  <2>6. t # NoShard /\ Nowhere.s = NoShard
    BY NullsDistinct DEF Nowhere
  <2>7. waiting'[v] = Nowhere /\ current'[v] = w.s
    BY <1>2, <1>5, <1>9, <1>10, <1>19
  <2>8. t = w.s
    BY <1>19, <2>4, <2>5, <2>6, <2>7 DEF Led
  <2>9. Led(v, t) /\ t # s
    BY <1>2, <1>3, <1>11, <1>19, <2>3, <2>8 DEF Led
  <2>10. QED
    BY <2>9
<1>20. QED
  BY <1>1, <1>5, <1>6, <1>13, <1>16, <1>17, <1>18, <1>19, EndTaken

-----------------------------------------------------------------------------
(* What a welcome service passes on.                                       *)

(* A step of a WS that leaves its sessions and the reports as they are.    *)
LEMMA ToldByWS ==
  ASSUME Around, NEW u \in Users, Kept(u), Told(u), UNCHANGED <<dbVars, lsVars, fsVars, ssVars, latest>>,
         StillNet(u), StillJobs(u), \A s \in Shards : wsAssoc'[s][u] = wsAssoc[s][u]
  PROVE  Told(u)'
<1>1. conn' = conn /\ current' = current /\ waiting' = waiting
  BY DEF fsVars, lsVars
<1>2. GoneFrom(u)
  BY <1>1 DEF GoneFrom, Gone, Sock
<1>3. QED
  BY <1>1, <1>2, ToldStays

(* No query is queued: those about u are as before.                        *)
LEMMA NoJobs ==
  ASSUME jobs' = jobs, NEW u
  PROVE  StillJobs(u)
BY DEF StillJobs, JobFlights

(* WSShardAnswer keeps Told for every user.                                *)
LEMMA ToldWSShardAnswer ==
  ASSUME Around, NEW f \in Fess, WSShardAnswer(f), UNCHANGED <<dbVars, lsVars, fsVars, ssVars, latest>>,
         NEW v \in Users, Kept(v), Told(v)
  PROVE  Told(v)'
<1>1. PICK s \in Shards : s = ShardOf[f]
  BY PlacesOK
<1>2. PICK m : m = Head(net[<<f, s>>])
  OBVIOUS
<1>3. /\ <<f, s>> \in Links /\ Pending(f, s, "M_ENTER_SHARD_ANSWER") /\ Receive(f, s, To(LS, m))
      /\ wsAssoc' = wsAssoc /\ jobs' = jobs
  BY <1>1, <1>2, LinksAre DEF WSShardAnswer, wsVars
<1>4. /\ <<<<f, s>>, m>> \in Flights /\ <<<<f, s>>, m>> \in Flying
      /\ m.kind = "M_ENTER_SHARD_ANSWER" /\ m.u \in Users /\ m \in Message
  BY <1>2, <1>3, HeadIs
<1>5. StillNet(v)
  BY <1>3, <1>4, StillReceivedTo
<1>6. QED
  BY <1>3, <1>5, NoJobs, ToldByWS

(* WSRemovedPendingCookie keeps Told for every user.                       *)
LEMMA ToldWSRemovedPendingCookie ==
  ASSUME Around, NEW f \in Fess, WSRemovedPendingCookie(f), UNCHANGED <<dbVars, lsVars, fsVars, ssVars, latest>>,
         NEW v \in Users, Kept(v), Told(v)
  PROVE  Told(v)'
<1>1. PICK s \in Shards : s = ShardOf[f]
  BY PlacesOK
<1>2. PICK m : m = Head(net[<<f, s>>])
  OBVIOUS
<1>3. /\ <<f, s>> \in Links /\ Pending(f, s, "M_LOGIN_SERVER_RPC") /\ Receive(f, s, To(LS, m))
      /\ wsAssoc' = wsAssoc /\ jobs' = jobs
  BY <1>1, <1>2, LinksAre DEF WSRemovedPendingCookie
<1>4. /\ <<<<f, s>>, m>> \in Flights /\ <<<<f, s>>, m>> \in Flying
      /\ m.kind = "M_LOGIN_SERVER_RPC" /\ m.u \in Users /\ m \in Message
  BY <1>2, <1>3, HeadIs
<1>5. StillNet(v)
  BY <1>3, <1>4, StillReceivedTo
<1>6. QED
  BY <1>3, <1>5, NoJobs, ToldByWS

(* WSChangeShardReq keeps Told for every user.                             *)
LEMMA ToldWSChangeShardReq ==
  ASSUME Around, NEW f \in Fess, WSChangeShardReq(f), UNCHANGED <<dbVars, lsVars, fsVars, ssVars, latest>>,
         NEW v \in Users, Kept(v), Told(v)
  PROVE  Told(v)'
<1>1. PICK s \in Shards : s = ShardOf[f]
  BY PlacesOK
<1>2. PICK m : m = Head(net[<<f, s>>])
  OBVIOUS
<1>3. PICK p : p = [m EXCEPT !.fsSid = f]
  OBVIOUS
<1>4. /\ <<f, s>> \in Links /\ Pending(f, s, "M_CS_CHANGE_SHARD_REQ")
      /\ wsAssoc' = wsAssoc /\ jobs' = jobs
  BY <1>1, LinksAre DEF WSChangeShardReq, wsVars
<1>5. Receive(f, s, Silent) \/ Receive(f, s, To(LS, p))
  BY <1>1, <1>2, <1>3 DEF WSChangeShardReq
<1>6. /\ <<<<f, s>>, m>> \in Flights /\ <<<<f, s>>, m>> \in Flying
      /\ m.kind = "M_CS_CHANGE_SHARD_REQ" /\ m.u \in Users /\ m \in Message
  BY <1>2, <1>4, HeadIs
<1>7. p \in Message /\ p.kind = "M_CS_CHANGE_SHARD_REQ"
  BY <1>3, <1>6 DEF Message, FesOrNone
<1>8. StillNet(v)
  BY <1>4, <1>5, <1>7, StillReceivedTo, StillReceivedSilent
<1>9. QED
  BY <1>4, <1>8, NoJobs, ToldByWS

(* WSChooseShard keeps Told for every user.                                *)
LEMMA ToldWSChooseShard ==
  ASSUME Around, NEW s \in Shards, WSChooseShard(s), UNCHANGED <<dbVars, lsVars, fsVars, ssVars, latest>>,
         NEW v \in Users, Kept(v), Told(v)
  PROVE  Told(v)'
<1>1. PICK m : m = Head(net[<<LS, s>>])
  OBVIOUS
<1>2. PICK f \in Best(s) : Receive(LS, s, To(f, m))
  BY <1>1 DEF WSChooseShard
<1>3. /\ <<LS, s>> \in Links /\ Pending(LS, s, "M_ENTER_SHARD_REQUEST")
      /\ wsAssoc' = wsAssoc /\ jobs' = jobs
  BY LinksAre DEF WSChooseShard
<1>4. /\ <<<<LS, s>>, m>> \in Flights /\ <<<<LS, s>>, m>> \in Flying
      /\ m.kind = "M_ENTER_SHARD_REQUEST" /\ m.u \in Users /\ m \in Message
  BY <1>1, <1>3, HeadIs
<1>5. StillNet(v)
  BY <1>2, <1>3, <1>4, StillReceivedTo
<1>6. QED
  BY <1>3, <1>5, NoJobs, ToldByWS

(* WSNoFrontend keeps Told for every user.                                 *)
LEMMA ToldWSNoFrontend ==
  ASSUME Around, NEW s \in Shards, WSNoFrontend(s), UNCHANGED <<dbVars, lsVars, fsVars, ssVars, latest>>,
         NEW v \in Users, Kept(v), Told(v)
  PROVE  Told(v)'
<1>1. PICK m : m = Head(net[<<LS, s>>])
  OBVIOUS
<1>2. PICK p : p = [m EXCEPT !.kind = "M_ENTER_SHARD_ANSWER", !.v = 1]
  OBVIOUS
<1>3. /\ <<LS, s>> \in Links /\ Pending(LS, s, "M_ENTER_SHARD_REQUEST")
      /\ wsAssoc' = wsAssoc /\ jobs' = jobs /\ Receive(LS, s, To(LS, p))
  BY <1>1, <1>2, LinksAre DEF WSNoFrontend, wsVars
<1>4. /\ <<<<LS, s>>, m>> \in Flights /\ <<<<LS, s>>, m>> \in Flying
      /\ m.kind = "M_ENTER_SHARD_REQUEST" /\ m.u \in Users /\ m \in Message
  BY <1>1, <1>3, HeadIs
<1>5. p \in Message /\ p.kind = "M_ENTER_SHARD_ANSWER"
  <2>1. /\ m = [kind |-> m.kind, u |-> m.u, ck |-> m.ck, s |-> m.s,
                f |-> m.f, fsSid |-> m.fsSid, v |-> m.v]
        /\ m.ck \in Cookie /\ m.s \in ShardOrNone /\ m.f \in FesOrNone /\ m.fsSid \in FesOrNone
    BY <1>4, MessageIs
  <2>2. p = [kind |-> "M_ENTER_SHARD_ANSWER", u |-> m.u, ck |-> m.ck, s |-> m.s,
             f |-> m.f, fsSid |-> m.fsSid, v |-> 1]
    BY <1>2, <2>1
  <2>3. QED
    BY <1>4, <2>1, <2>2 DEF Message, Kinds
<1>6. StillNet(v)
  BY <1>3, <1>5, StillReceivedTo
<1>7. QED
  BY <1>3, <1>6, NoJobs, ToldByWS

(* WSRelayToFES keeps Told for every user.                                 *)
LEMMA ToldWSRelayToFES ==
  ASSUME Around, NEW s \in Shards, WSRelayToFES(s), UNCHANGED <<dbVars, lsVars, fsVars, ssVars, latest>>,
         NEW v \in Users, Kept(v), Told(v)
  PROVE  Told(v)'
<1>1. PICK m : m = Head(net[<<LS, s>>])
  OBVIOUS
<1>2. PICK kind \in {"M_ENTER__SHARD", "M_SC_CHANGE_SHARD_ANS"} : Pending(LS, s, kind)
  BY DEF WSRelayToFES
<1>3. /\ <<LS, s>> \in Links
      /\ wsAssoc' = wsAssoc /\ jobs' = jobs
      /\ Receive(LS, s, IF m.fsSid = NoFes THEN Silent ELSE To(m.fsSid, m))
  BY <1>1, LinksAre DEF WSRelayToFES, wsVars
<1>4. /\ <<<<LS, s>>, m>> \in Flights /\ <<<<LS, s>>, m>> \in Flying
      /\ m.kind = kind /\ m.u \in Users /\ m \in Message
  BY <1>1, <1>2, <1>3, HeadIs
<1>5. /\ kind # "M_CLIENT_CONNECT_STATUS"
      /\ Receive(LS, s, Silent) \/ Receive(LS, s, To(m.fsSid, m))
  BY <1>3
<1>6. StillNet(v)
  BY <1>2, <1>3, <1>4, <1>5, StillReceivedTo, StillReceivedSilent
<1>7. QED
  BY <1>3, <1>6, NoJobs, ToldByWS

(* WSDisconnectClient keeps Told for every user.                           *)
LEMMA ToldWSDisconnectClient ==
  ASSUME Around, NEW s \in Shards, WSDisconnectClient(s), UNCHANGED <<dbVars, lsVars, fsVars, ssVars, latest>>,
         NEW v \in Users, Kept(v), Told(v)
  PROVE  Told(v)'
<1>1. PICK m : m = Head(net[<<LS, s>>])
  OBVIOUS
<1>2. /\ <<LS, s>> \in Links /\ Pending(LS, s, "M_CLIENT_DISCONNECT")
      /\ wsAssoc' = wsAssoc /\ jobs' = jobs /\ Receive(LS, s, DisconnectClient(s, m.u))
  BY <1>1, LinksAre DEF WSDisconnectClient, wsVars
<1>3. /\ <<<<LS, s>>, m>> \in Flights /\ <<<<LS, s>>, m>> \in Flying
      /\ m.kind = "M_CLIENT_DISCONNECT" /\ m.u \in Users /\ m \in Message
  BY <1>1, <1>2, HeadIs
<1>4. PICK p : p = Msg("M_CLIENT_DISCONNECT", m.u)
  OBVIOUS
<1>5. p \in Message /\ p.kind = "M_CLIENT_DISCONNECT"
  BY <1>3, <1>4, MsgTyped, NullsTyped, WSNulls DEF Kinds, Answers, Msg
<1>6. Receive(LS, s, Silent) \/ Receive(LS, s, To(wsAssoc[s][m.u], p))
  BY <1>2, <1>4 DEF DisconnectClient
<1>7. StillNet(v)
  BY <1>2, <1>5, <1>6, StillReceivedTo, StillReceivedSilent
<1>8. QED
  BY <1>2, <1>7, NoJobs, ToldByWS

(* WSMoveUserDataReq keeps Told for every user.                            *)
LEMMA ToldWSMoveUserDataReq ==
  ASSUME Around, NEW s \in Shards, WSMoveUserDataReq(s), UNCHANGED <<dbVars, lsVars, fsVars, ssVars, latest>>,
         NEW v \in Users, Kept(v), Told(v)
  PROVE  Told(v)'
<1>1. PICK m : m = Head(net[<<LS, s>>])
  OBVIOUS
<1>2. /\ <<LS, s>> \in Links /\ Pending(LS, s, "M_NT_MOVE_USER_DATA_REQ")
      /\ wsAssoc' = wsAssoc /\ Receive(LS, s, Silent)
      /\ jobs' = Queued(s, "GetUserMoveData", m.u, m.s)
  BY <1>1, LinksAre DEF WSMoveUserDataReq
<1>3. /\ <<<<LS, s>>, m>> \in Flights /\ <<<<LS, s>>, m>> \in Flying
      /\ m.kind = "M_NT_MOVE_USER_DATA_REQ" /\ m.u \in Users /\ m \in Message
  BY <1>1, <1>2, HeadIs
<1>4. PICK j : j = [job |-> "GetUserMoveData", u |-> m.u, to |-> m.s]
  OBVIOUS
<1>5. j \in Job /\ j.job = "GetUserMoveData"
  BY <1>3, <1>4, MessageIs DEF Job
<1>6. jobs \in [Shards -> Seq(Job)]
  BY DEF Around, TypeOK, WSTypeOK
<1>7. StillJobs(v)
  <2>1. JobsMove({}, {<<s, j>>}, EndJobs(v))
    BY <1>2, <1>4, <1>5, <1>6, QueuedMoves
  <2>2. PICK z : z = <<s, j>>
    OBVIOUS
  <2>3. z \notin EndJobs(v)
    BY <1>5, <2>2 DEF EndJobs
  <2>4. \A y \in JobFlights' : y \in EndJobs(v) => y \in JobFlights
    BY <2>1, <2>2, <2>3 DEF JobsMove
  <2>5. \A y \in JobFlights : y \in JobFlights'
    BY <1>2, <1>4, <1>5, <1>6, QueuedLeaves
  <2>6. QED
    BY <2>4, <2>5 DEF StillJobs
<1>8. StillNet(v)
  BY <1>2, StillReceivedSilent
<1>9. QED
  BY <1>2, <1>7, <1>8, ToldByWS

(* WSSendUserData keeps Told for every user.                               *)
LEMMA ToldWSSendUserData ==
  ASSUME Around, NEW s \in Shards, NEW from \in Shards \ {s}, WSSendUserData(from, s),
         UNCHANGED <<dbVars, lsVars, fsVars, ssVars, latest>>,
         NEW v \in Users, Kept(v), Told(v)
  PROVE  Told(v)'
<1>1. PICK m : m = Head(net[<<from, s>>])
  OBVIOUS
<1>2. PICK p : p = Msg("M_NT_MOVE_USER_DATA_END", m.u)
  OBVIOUS
<1>3. /\ <<from, s>> \in Links /\ Pending(from, s, "M_NT_SEND_USER_DATA")
      /\ wsAssoc' = wsAssoc /\ jobs' = jobs /\ Receive(from, s, To(LS, p))
  BY <1>1, <1>2, LinksAre DEF WSSendUserData
<1>4. /\ <<<<from, s>>, m>> \in Flights /\ <<<<from, s>>, m>> \in Flying
      /\ m.kind = "M_NT_SEND_USER_DATA" /\ m.u \in Users /\ m \in Message
  BY <1>1, <1>3, HeadIs
<1>5. p \in Message /\ p.kind = "M_NT_MOVE_USER_DATA_END"
  BY <1>2, <1>4, MsgTyped, NullsTyped, WSNulls DEF Kinds, Answers, Msg
<1>6. StillNet(v)
  BY <1>3, <1>5, StillReceivedTo
<1>7. QED
  BY <1>3, <1>6, NoJobs, ToldByWS

-----------------------------------------------------------------------------
(* The reports a welcome service takes and makes.                          *)

(* Starts of sessions on their way, none of them new, and each with the    *)
(* ends behind it.                                                         *)
LEMMA InTurnFewer ==
  ASSUME Around, NEW u \in Users, Kept(u), InTurn(u), GoneFrom(u),
         \A z \in Flights' : z \in Reports(u, 1) /\ z[1][2] # LS => z \in Flights,
         \A x \in Flights : x \in Reports(u, 1) /\ x[1][2] # LS =>
           /\ \A y \in Flights' : y \in Reports(u, 0) /\ Source(y) = Source(x) => y[1] = x[1]
           /\ \A y \in JobFlights' : y \in EndJobs(u) => y[1] # Source(x),
         Ordered(Reports(u, 0), Reports(u, 1))'
  PROVE  InTurn(u)'
<1>1. ASSUME NEW x \in Flights', x \in Reports(u, 1), x[1][2] # LS
      PROVE  /\ \A y \in Flights' : y \in Reports(u, 0) /\ Source(y) = Source(x) => y[1] = x[1]
             /\ \A y \in JobFlights' : y \in EndJobs(u) => y[1] # Source(x)
             /\ \A c \in Gone(u)' : ShardOf[c[1]] = Source(x) => c[1] = x[1][1]
  <2>1. x \in Flights
    BY <1>1
  <2>2. \A c \in Gone(u)' : ShardOf[c[1]] = Source(x) => c[1] = x[1][1]
    BY <1>1, <2>1, GoneBeside
  <2>3. /\ \A y \in Flights' : y \in Reports(u, 0) /\ Source(y) = Source(x) => y[1] = x[1]
        /\ \A y \in JobFlights' : y \in EndJobs(u) => y[1] # Source(x)
    BY <1>1, <2>1
  <2>4. QED
    BY <2>2, <2>3
<1>2. QED
  BY <1>1 DEF InTurn

(* WSLoginClient keeps Told for every user.                                *)
LEMMA ToldWSLoginClient ==
  ASSUME Around, NEW f \in Fess, WSLoginClient(f), UNCHANGED <<dbVars, lsVars, fsVars, ssVars, latest>>,
         NEW v \in Users, Kept(v), Told(v)
  PROVE  Told(v)'
<1>1. PICK s \in Shards : s = ShardOf[f]
  BY PlacesOK
<1>2. PICK m : m = Head(net[<<f, s>>])
  OBVIOUS
<1>3. PICK p : p = [m EXCEPT !.fsSid = f]
  OBVIOUS
<1>4. <<f, s>> \in Links /\ Pending(f, s, "M_CLIENT_CONNECT_STATUS")
  BY <1>1, LinksAre DEF WSLoginClient
<1>5. /\ <<<<f, s>>, m>> \in Flights /\ <<<<f, s>>, m>> \in Flying
      /\ m.kind = "M_CLIENT_CONNECT_STATUS" /\ m.u \in Users /\ m \in Message
  BY <1>2, <1>4, HeadIs
<1>6. PICK u : u = m.u
  OBVIOUS
<1>7. /\ m.v = 1
      /\ wsAssoc' = [wsAssoc EXCEPT ![s][u] = IF @ = NoFes THEN f ELSE @]
      /\ jobs' = jobs
      /\ Receive(f, s, To(LS, p))
  <2>1. PICK fails \in BOOLEAN :
       /\ m.v = 1
       /\ Queries(fails)
       /\ ~fails => /\ wsAssoc' = [wsAssoc EXCEPT ![s][u] = IF @ = NoFes THEN f ELSE @]
                    /\ UNCHANGED jobs
                    /\ Receive(f, s, To(LS, p))
    BY <1>1, <1>2, <1>3, <1>6 DEF WSLoginClient
  <2>2. ~fails
    BY <2>1, NoFailure
  <2>3. QED
    BY <2>1, <2>2
<1>8. p \in Message /\ p.u = u /\ p.kind = m.kind /\ p.v = 1
  BY <1>3, <1>5, <1>6, <1>7 DEF Message, FesOrNone
<1>9. wsAssoc \in [Shards -> [Users -> FesOrNone]] /\ f # NoFes
  BY NullsDistinct DEF Around, TypeOK, WSTypeOK
<1>10. s # LS /\ LS # SS /\ s # SS
  BY NodesDistinct
<1>11. To(LS, p) \in Outbox
  BY <1>8, ToTyped
<1>12. PICK z : z = <<<<s, LS>>, p>>
  OBVIOUS
<1>13. z[1] = <<s, LS>> /\ z[1][2] = LS /\ z[2] = p /\ \A y \in Sent(s, To(LS, p)) : y = z
  BY <1>12, SentOne
<1>14. StillJobs(v)
  BY <1>7, NoJobs
<1>15. CASE u # v
  <2>1. z \notin Reports(v, 0) /\ z \notin Reports(v, 1)
    BY <1>8, <1>13, <1>15 DEF Reports
  <2>2. \A y \in Sent(s, To(LS, p)) : y \notin Reports(v, 0) /\ y \notin Reports(v, 1)
    BY <1>13, <2>1
  <2>3. StillNet(v)
    BY <1>2, <1>4, <1>7, <1>10, <1>11, <2>2, StillReceived
  <2>4. \A t \in Shards : wsAssoc'[t][v] = wsAssoc[t][v]
    BY <1>7, <1>9, <1>15
  <2>5. QED
    BY <1>14, <2>3, <2>4, ToldByWS
<1>16. CASE u = v
  <2>1. PICK x : x = <<<<f, s>>, m>>
    OBVIOUS
  <2>2. x[1] = <<f, s>> /\ x[1][2] = s /\ x[2] = m /\ x \in Flights /\ x \in Flying
    BY <1>5, <2>1
  <2>3. x \in Reports(v, 1) /\ Source(x) = s /\ x[1][2] # LS
    BY <1>5, <1>6, <1>7, <1>10, <1>16, <2>2 DEF Reports, Source
  <2>4. InTurn(v) /\ Backed(v) /\ z \notin Reports(v, 0)
    BY <1>8, <1>13 DEF Told, Reports
  <2>5. NetTyped /\ NetTyped'
    BY AroundTyped
  <2>6. LoneFor(v, s, To(LS, p))
    BY LoneForOne
  <2>7. LoneSent(s, To(LS, p), Reports(v, 0))
    BY <2>6 DEF LoneFor
  <2>8. \A y \in Flights' : y \in Reports(v, 0) => y \in Flights
    <3>1. Moves({x}, Sent(s, To(LS, p)), Reports(v, 0))
      BY <1>2, <1>4, <1>7, <1>11, <2>1, <2>5, <2>7, ReceiveMoves
    <3>2. QED
      BY <1>13, <2>4, <3>1 DEF Moves
  <2>9. \A y \in Flights' : y \in Reports(v, 1) => y \in Flights \/ y = z
    <3>1. NetOf(v, {x}, {z})
      BY <1>2, <1>4, <1>7, <1>8, <1>12, <2>1, ReceivedTo
    <3>2. \A y \in Flights' : y \in Ahead(v) => y \in Flights \/ y \in {z}
      BY <3>1 DEF NetOf, Moves
    <3>3. QED
      BY <3>2 DEF Ahead
  <2>10. \A y \in Flights : y \in Flights' \/ y = x
    BY <1>2, <1>4, <1>7, <1>11, <2>1, <2>5, ReceiveLeaves
  <2>11. \A y \in Flights : y \in Reports(v, 0) => y[1] # <<s, LS>>
    <3>1. ASSUME NEW y \in Flights, y \in Reports(v, 0), y[1] = <<s, LS>>
          PROVE  FALSE
      <4>1. y[1][1] = s /\ y[1][2] = LS
        BY <3>1
      <4>2. Source(y) = s
        BY <4>1 DEF Source
      <4>3. y[1] = x[1]
        BY <2>2, <2>3, <2>4, <3>1, <4>2 DEF InTurn
      <4>4. QED
        BY <1>10, <2>2, <4>1, <4>3
    <3>2. QED
      BY <3>1
  <2>12. Ordered(Reports(v, 0), Reports(v, 1))'
    <3>1. PICK A : A = Reports(v, 0)
      OBVIOUS
    <3>2. PICK B : B = Reports(v, 1)
      OBVIOUS
    <3>3. Ordered(A, B)
      BY <2>4, <3>1, <3>2 DEF InTurn
    <3>4. \A y \in Sent(s, To(LS, p)) : y \in B => \A w \in Flights' : w \in A => w[1] # y[1]
      BY <1>13, <2>8, <2>11, <3>1
    <3>5. Ordered(A, B)'
      BY <1>4, <1>7, <1>11, <2>5, <3>3, <3>4, ReceiveOrdered
    <3>6. QED
      BY <3>1, <3>2, <3>5
  <2>13. InTurn(v)'
    <3>1. GoneFrom(v)
      BY DEF fsVars, GoneFrom, Gone, Sock
    <3>2. \A y \in Flights' : y \in Reports(v, 1) /\ y[1][2] # LS => y \in Flights
      BY <1>13, <2>9
    <3>3. ASSUME NEW w \in Flights, w \in Reports(v, 1), w[1][2] # LS
          PROVE  /\ \A y \in Flights' : y \in Reports(v, 0) /\ Source(y) = Source(w) => y[1] = w[1]
                 /\ \A y \in JobFlights' : y \in EndJobs(v) => y[1] # Source(w)
      <4>1. /\ \A y \in Flights : y \in Reports(v, 0) /\ Source(y) = Source(w) => y[1] = w[1]
            /\ \A y \in JobFlights : y \in EndJobs(v) => y[1] # Source(w)
        BY <2>4, <3>3 DEF InTurn
      <4>2. QED
        BY <1>14, <2>8, <4>1 DEF StillJobs
    <3>4. QED
      BY <2>4, <2>12, <3>1, <3>2, <3>3, InTurnFewer
  <2>14. Backed(v)'
    <3>1. current' = current /\ waiting' = waiting
      BY DEF lsVars
    <3>2. ASSUME NEW t \in Shards, Led(v, t)'
          PROVE  Backs(v, t)'
      <4>1. CASE t = s
        <5>1. wsAssoc'[t][v] # NoFes
          BY <1>7, <1>9, <1>16, <4>1
        <5>2. QED
          BY <5>1 DEF Backs
      <4>2. CASE t # s
        <5>1. z[1] # <<t, LS>>
          BY <1>13, <4>2
        <5>2. Led(v, t)
          BY <2>9, <3>1, <3>2, <5>1 DEF Led
        <5>3. Backs(v, t)
          BY <2>4, <5>2 DEF Backed
        <5>4. wsAssoc'[t][v] = wsAssoc[t][v]
          BY <1>7, <1>9, <4>2
        <5>5. \A y \in JobFlights : y \in EndJobs(v) /\ y[1] = t => y \in JobFlights'
          BY <1>14 DEF StillJobs
        <5>6. x \notin Reports(v, 0)
          BY <1>7, <2>2 DEF Reports
        <5>7. \A y \in Flights : y \in Reports(v, 0) /\ y[1] = <<t, LS>> => y \in Flights'
          BY <2>10, <5>6
        <5>8. QED
          BY <5>3, <5>4, <5>5, <5>7, BacksStay
      <4>3. QED
        BY <4>1, <4>2
    <3>3. QED
      BY <3>2 DEF Backed
  <2>15. QED
    BY <2>13, <2>14 DEF Told
<1>17. QED
  BY <1>15, <1>16

(* WSLogoffClient keeps Told for every user.                               *)
LEMMA ToldWSLogoffClient ==
  ASSUME Around, NEW f \in Fess, WSLogoffClient(f), UNCHANGED <<dbVars, lsVars, fsVars, ssVars, latest>>,
         NEW v \in Users, Kept(v), Told(v)
  PROVE  Told(v)'
<1>1. PICK s \in Shards : s = ShardOf[f]
  BY PlacesOK
<1>2. PICK m : m = Head(net[<<f, s>>])
  OBVIOUS
<1>3. PICK u : u = m.u
  OBVIOUS
<1>4. /\ <<f, s>> \in Links /\ Pending(f, s, "M_CLIENT_CONNECT_STATUS") /\ Receive(f, s, Silent)
      /\ m.v = 0
      /\ wsAssoc' = [wsAssoc EXCEPT ![s][u] = NoFes]
      /\ jobs' = Queued(s, "FamilyLogout", u, NoShard)
  BY <1>1, <1>2, <1>3, LinksAre DEF WSLogoffClient, LogoffClient
<1>5. /\ <<<<f, s>>, m>> \in Flights /\ <<<<f, s>>, m>> \in Flying
      /\ m.kind = "M_CLIENT_CONNECT_STATUS" /\ m.u \in Users /\ m \in Message
  BY <1>2, <1>4, HeadIs
<1>6. PICK j : j = [job |-> "FamilyLogout", u |-> u, to |-> NoShard]
  OBVIOUS
<1>7. j \in Job /\ j.job = "FamilyLogout" /\ j.u = u
  BY <1>3, <1>5, <1>6 DEF Job, ShardOrNone
<1>8. jobs \in [Shards -> Seq(Job)] /\ wsAssoc \in [Shards -> [Users -> FesOrNone]]
  BY DEF Around, TypeOK, WSTypeOK
<1>9. s # LS /\ LS # SS /\ s # SS
  BY NodesDistinct
<1>10. PICK k : k = <<s, j>>
  OBVIOUS
<1>11. k[1] = s /\ k[2] = j
  BY <1>10
<1>12. JobsMove({}, {k}, EndJobs(v))
  BY <1>4, <1>6, <1>7, <1>8, <1>10, QueuedMoves
<1>13. \A y \in JobFlights' : y \in EndJobs(v) => y \in JobFlights \/ y = k
  BY <1>12 DEF JobsMove
<1>14. (\A y \in JobFlights : y \in JobFlights') /\ k \in JobFlights'
  BY <1>4, <1>6, <1>7, <1>8, <1>10, QueuedLeaves
<1>15. StillNet(v)
  BY <1>4, <1>9, StillReceivedSilent
<1>16. CASE u # v
  <2>1. k \notin EndJobs(v)
    BY <1>7, <1>11, <1>16 DEF EndJobs
  <2>2. StillJobs(v)
    BY <1>13, <1>14, <2>1 DEF StillJobs
  <2>3. \A t \in Shards : wsAssoc'[t][v] = wsAssoc[t][v]
    BY <1>4, <1>8, <1>16
  <2>4. QED
    BY <1>15, <2>2, <2>3, ToldByWS
<1>17. CASE u = v
  <2>1. PICK y0 : y0 = <<<<f, s>>, m>>
    OBVIOUS
  <2>2. y0[1] = <<f, s>> /\ y0[1][2] = s /\ y0[2] = m /\ y0 \in Flights /\ y0 \in Flying
    BY <1>5, <2>1
  <2>3. y0 \in Reports(v, 0) /\ Source(y0) = s
    BY <1>3, <1>4, <1>5, <1>9, <1>17, <2>2 DEF Reports, Source
  <2>4. InTurn(v) /\ Backed(v) /\ Ordered(Reports(v, 0), Reports(v, 1)) /\ NetTyped
    BY AroundTyped DEF Told, InTurn
  <2>5. \A x \in Flights : x \in Reports(v, 1) => x[1] # <<f, s>>
    <3>1. PICK a \in Links : a = <<f, s>>
      BY <1>4
    <3>2. /\ 1 \in DOMAIN net[a] /\ m = net[a][1]
      BY <1>2, <1>4, <2>4, <3>1, HeadFlies
    <3>3. <<a, net[a][1]>> \in Reports(v, 0)
      BY <2>1, <2>3, <3>1, <3>2
    <3>4. ASSUME NEW x \in Flights, x \in Reports(v, 1)
          PROVE  x[1] # a
      BY <2>4, <3>2, <3>3, <3>4, HeadOrdered
    <3>5. QED
      BY <3>1, <3>4
  <2>6. InTurn(v)'
    <3>1. GoneFrom(v)
      BY DEF fsVars, GoneFrom, Gone, Sock
    <3>2. ASSUME NEW x \in Flights, x \in Reports(v, 1), x[1][2] # LS
          PROVE  /\ \A y \in Flights' : y \in Reports(v, 0) /\ Source(y) = Source(x) => y[1] = x[1]
                 /\ \A y \in JobFlights' : y \in EndJobs(v) => y[1] # Source(x)
      <4>1. /\ \A y \in Flights : y \in Reports(v, 0) /\ Source(y) = Source(x) => y[1] = x[1]
            /\ \A y \in JobFlights : y \in EndJobs(v) => y[1] # Source(x)
        BY <2>4, <3>2 DEF InTurn
      <4>2. k[1] # Source(x)
        BY <1>11, <2>2, <2>3, <2>5, <3>2, <4>1
      <4>3. QED
        BY <1>13, <1>15, <4>1, <4>2 DEF StillNet
    <3>3. QED
      BY <1>15, <2>4, <3>1, <3>2, InTurnFewer DEF StillNet
  <2>7. Backed(v)'
    <3>1. current' = current /\ waiting' = waiting
      BY DEF lsVars
    <3>2. ASSUME NEW t \in Shards, Led(v, t)'
          PROVE  Backs(v, t)'
      <4>1. CASE t = s
        <5>1. k \in EndJobs(v) /\ k[1] = t
          BY <1>7, <1>10, <1>11, <1>17, <4>1 DEF EndJobs
        <5>2. QED
          BY <1>14, <5>1 DEF Backs, EndJobs
      <4>2. CASE t # s
        <5>1. Led(v, t)
          BY <1>15, <3>1, <3>2 DEF Led, StillNet
        <5>2. Backs(v, t)
          BY <2>4, <5>1 DEF Backed
        <5>3. wsAssoc'[t][v] = wsAssoc[t][v]
          BY <1>4, <1>8, <4>2
        <5>4. ASSUME NEW y \in Flights, y \in Reports(v, 0), y[1] = <<t, LS>>
              PROVE  y \in Flights'
          <6>1. y[1][2] = LS
            BY <5>4
          <6>2. QED
            BY <1>15, <5>4, <6>1 DEF StillNet
        <5>5. QED
          BY <1>14, <5>2, <5>3, <5>4, BacksStay
      <4>3. QED
        BY <4>1, <4>2
    <3>3. QED
      BY <3>2 DEF Backed
  <2>8. QED
    BY <2>6, <2>7 DEF Told
<1>18. QED
  BY <1>16, <1>17

(* A logout that is done is reported to the LS.                            *)
LEMMA ToldLogoff ==
  ASSUME Around, NEW s \in Shards, NEW v \in Users, Kept(v), Told(v),
         UNCHANGED <<dbVars, lsVars, fsVars, ssVars, latest, wsAssoc>>,
         NEW j \in Job, <<s, j>> \in JobFlights, j.job = "FamilyLogout",
         JobsMove({<<s, j>>}, {}, EndJobs(v)), \A y \in JobFlights : y \in JobFlights' \/ y = <<s, j>>,
         Emit(s, To(LS, Msg("M_CLIENT_CONNECT_STATUS", j.u)))
  PROVE  Told(v)'
<1>1. PICK u \in Users : u = j.u
  BY DEF Job
<1>2. PICK p : p = Msg("M_CLIENT_CONNECT_STATUS", u)
  OBVIOUS
<1>3. p \in Message /\ p.u = u /\ p.kind = "M_CLIENT_CONNECT_STATUS" /\ p.v = 0
  BY <1>2, MsgTyped, NullsTyped, WSNulls DEF Kinds, Answers, Msg
<1>4. s # LS /\ LS # SS /\ s # SS
  BY NodesDistinct
<1>5. PICK z : z = <<<<s, LS>>, p>>
  OBVIOUS
<1>6. To(LS, p) \in Outbox /\ Emit(s, To(LS, p)) /\ NetTyped /\ NetTyped'
  BY <1>1, <1>2, <1>3, ToTyped, AroundTyped
<1>7. z[1] = <<s, LS>> /\ z[1][2] = LS /\ z[1][1] = s /\ z[2] = p /\ \A y \in Sent(s, To(LS, p)) : y = z
  BY <1>5, SentOne
<1>8. PICK k : k = <<s, j>>
  OBVIOUS
<1>9. k[1] = s /\ k[2] = j
  BY <1>8
<1>10. /\ \A y \in JobFlights' : y \in EndJobs(v) => y \in JobFlights
       /\ \A y \in JobFlights : y \in JobFlights' \/ y = k
  BY <1>8 DEF JobsMove
<1>11. z \notin Reports(v, 1)
  BY <1>3, <1>7 DEF Reports
<1>12. CASE u # v
  <2>1. z \notin Reports(v, 0) /\ k \notin EndJobs(v)
    BY <1>1, <1>3, <1>7, <1>9, <1>12 DEF Reports, EndJobs
  <2>2. \A y \in Sent(s, To(LS, p)) : y \notin Reports(v, 0) /\ y \notin Reports(v, 1)
    BY <1>7, <1>11, <2>1
  <2>3. StillNet(v)
    BY <1>6, <2>2, StillEmitted
  <2>4. StillJobs(v)
    BY <1>10, <2>1 DEF StillJobs
  <2>5. QED
    BY <2>3, <2>4, ToldByWS
<1>13. CASE u = v
  <2>1. k \in EndJobs(v) /\ k \in JobFlights
    BY <1>1, <1>8, <1>13 DEF EndJobs
  <2>2. z \in Reports(v, 0) /\ Source(z) = s
    <3>1. z \in Flying
      BY <1>3, <1>5, LinksAre DEF Flying
    <3>2. QED
      BY <1>3, <1>4, <1>7, <1>13, <3>1 DEF Reports, Source
  <2>3. InTurn(v) /\ Backed(v) /\ Ordered(Reports(v, 0), Reports(v, 1))
    BY DEF Told, InTurn
  <2>4. \A y \in Flights : y \in Flights'
    BY <1>6, EmitLeaves
  <2>5. NetOf(v, {}, {z})
    BY <1>3, <1>5, <1>6, EmittedTo
  <2>6. \A y \in Flights' : y \in Reports(v, 1) => y \in Flights
    <3>1. \A y \in Flights' : y \in Ahead(v) => y \in Flights \/ y \in {z}
      BY <2>5 DEF NetOf, Moves
    <3>2. QED
      BY <1>11, <3>1 DEF Ahead
  <2>7. \A y \in Flights' : y \in Reports(v, 0) => y \in Flights \/ y = z
    <3>1. \A y \in Flights' : y \in Reports(v, 0) => y \in Flights \/ y \in {z}
      BY <2>5 DEF NetOf, Moves
    <3>2. QED
      BY <3>1
  <2>8. Ordered(Reports(v, 0), Reports(v, 1))'
    <3>1. PICK A : A = Reports(v, 0)
      OBVIOUS
    <3>2. PICK B : B = Reports(v, 1)
      OBVIOUS
    <3>3. Ordered(A, B)
      BY <2>3, <3>1, <3>2
    <3>4. \A y \in Sent(s, To(LS, p)) : y \notin B
      BY <1>7, <1>11, <3>2
    <3>5. Ordered(A, B)'
      BY <1>6, <3>3, <3>4, EmitOrdered
    <3>6. QED
      BY <3>1, <3>2, <3>5
  <2>9. InTurn(v)'
    <3>1. GoneFrom(v)
      BY DEF fsVars, GoneFrom, Gone, Sock
    <3>2. ASSUME NEW x \in Flights, x \in Reports(v, 1), x[1][2] # LS
          PROVE  /\ \A y \in Flights' : y \in Reports(v, 0) /\ Source(y) = Source(x) => y[1] = x[1]
                 /\ \A y \in JobFlights' : y \in EndJobs(v) => y[1] # Source(x)
      <4>1. /\ \A y \in Flights : y \in Reports(v, 0) /\ Source(y) = Source(x) => y[1] = x[1]
            /\ \A y \in JobFlights : y \in EndJobs(v) => y[1] # Source(x)
        BY <2>3, <3>2 DEF InTurn
      <4>2. Source(z) # Source(x)
        BY <1>9, <2>1, <2>2, <4>1
      <4>3. QED
        BY <1>10, <2>7, <4>1, <4>2
    <3>3. QED
      BY <2>3, <2>6, <2>8, <3>1, <3>2, InTurnFewer
  <2>10. z \in Flights'
    <3>1. LS \in Nodes /\ <<s, LS>> \in Links
      BY LinksAre DEF Nodes
    <3>2. z \in Sent(s, To(LS, p))
      <4>1. To(LS, p)[LS] = <<p>>
        BY <3>1 DEF To, Silent
      <4>2. PICK q : q = To(LS, p)[LS]
        OBVIOUS
      <4>3. 1 \in DOMAIN q /\ q[1] = p
        BY <4>1, <4>2
      <4>4. <<<<s, LS>>, q[1]>> \in Sent(s, To(LS, p))
        BY <3>1, <4>2, <4>3, SentIs
      <4>5. QED
        BY <1>5, <4>3, <4>4
    <3>3. QED
      BY <1>6, <3>2, EmitLeaves
  <2>11. Backed(v)'
    <3>1. current' = current /\ waiting' = waiting /\ wsAssoc' = wsAssoc
      BY DEF lsVars
    <3>2. ASSUME NEW t \in Shards, Led(v, t)'
          PROVE  Backs(v, t)'
      <4>1. CASE t = s
        BY <1>7, <2>2, <2>10, <4>1 DEF Backs, Reports
      <4>2. CASE t # s
        <5>1. Led(v, t)
          BY <2>6, <3>1, <3>2 DEF Led
        <5>2. Backs(v, t)
          BY <2>3, <5>1 DEF Backed
        <5>3. wsAssoc'[t][v] = wsAssoc[t][v]
          BY <3>1
        <5>4. \A y \in JobFlights : y \in EndJobs(v) /\ y[1] = t => y \in JobFlights'
          BY <1>9, <1>10, <4>2
        <5>5. QED
          BY <2>4, <5>2, <5>3, <5>4, BacksStay
      <4>3. QED
        BY <4>1, <4>2
    <3>3. QED
      BY <3>2 DEF Backed
  <2>12. QED
    BY <2>9, <2>11 DEF Told
<1>14. QED
  BY <1>12, <1>13

(* WSQueryDone keeps Told for every user.                                  *)
LEMMA ToldWSQueryDone ==
  ASSUME Around, NEW s \in Shards, WSQueryDone(s), UNCHANGED <<dbVars, lsVars, fsVars, ssVars, latest>>,
         NEW v \in Users, Kept(v), Told(v)
  PROVE  Told(v)'
<1>1. jobs \in [Shards -> Seq(Job)]
  BY DEF Around, TypeOK, WSTypeOK
<1>2. PICK i \in DOMAIN jobs[s], fails \in BOOLEAN :
        /\ Queries(fails)
        /\ jobs' = [jobs EXCEPT ![s] = SubSeq(@, 1, i - 1) \o SubSeq(@, i + 1, Len(@))]
        /\ Emit(s, IF fails THEN Silent ELSE JobOutbox(s, jobs[s][i]))
  BY DEF WSQueryDone
<1>3. PICK j : j = jobs[s][i]
  OBVIOUS
<1>4. Emit(s, JobOutbox(s, j)) /\ wsAssoc' = wsAssoc
  BY <1>2, <1>3, NoFailure DEF WSQueryDone
<1>5. j \in Job
  BY <1>1, <1>3, LenProperties, ElementOfSeq
<1>6. <<s, j>> \in JobFlights
  BY <1>3, JobFlies
<1>7. JobsMove({<<s, j>>}, {}, EndJobs(v))
  BY <1>1, <1>2, <1>3, TakenMoves
<1>8. \A y \in JobFlights : y \in JobFlights' \/ y = <<s, j>>
  BY <1>1, <1>2, <1>3, TakenLeaves
<1>9. j.job # "ForcedLogout"
  <2>1. PICK y : y = <<s, j>>
    OBVIOUS
  <2>2. y[2].job # "ForcedLogout"
    BY <1>6, <2>1 DEF Around, NoForce
  <2>3. QED
    BY <2>1, <2>2
<1>10. CASE j.job = "FamilyLogout"
  <2>1. Emit(s, To(LS, Msg("M_CLIENT_CONNECT_STATUS", j.u)))
    BY <1>4, <1>10 DEF JobOutbox
  <2>2. QED
    BY <1>4, <1>5, <1>6, <1>7, <1>8, <1>10, <2>1, ToldLogoff
<1>11. CASE j.job = "GetUserMoveData"
  <2>1. PICK p : p = [Msg("M_NT_SEND_USER_DATA", j.u) EXCEPT !.v = data[s][j.u]]
    OBVIOUS
  <2>2. Emit(s, To(j.to, p))
    BY <1>4, <1>11, <2>1 DEF JobOutbox
  <2>3. p \in Message /\ p.kind = "M_NT_SEND_USER_DATA"
    <3>1. j.u \in Users /\ data[s][j.u] \in Nat
      BY <1>5, UserTyped DEF Job
    <3>2. p \in Message
      BY <2>1, <3>1, MsgTyped, NullsTyped, WSNulls DEF Kinds, Answers
    <3>3. QED
      BY <2>1, <3>2 DEF Msg
  <2>4. StillNet(v)
    BY <2>2, <2>3, StillEmittedTo
  <2>5. PICK k : k = <<s, j>>
    OBVIOUS
  <2>6. k \notin EndJobs(v)
    BY <1>11, <2>5 DEF EndJobs
  <2>7. StillJobs(v)
    BY <1>7, <1>8, <2>5, <2>6 DEF StillJobs, JobsMove
  <2>8. QED
    BY <1>4, <2>4, <2>7, ToldByWS
<1>12. QED
  BY <1>5, <1>9, <1>10, <1>11 DEF Job

-----------------------------------------------------------------------------
(* What a front end does that no session's start or end is reported by.    *)

(* A step of a front end or a client that reports nothing.                 *)
LEMMA ToldByFS ==
  ASSUME Around, NEW u \in Users, Kept(u), Told(u), UNCHANGED <<dbVars, lsVars, wsVars, ssVars, latest>>,
         StillNet(u), GoneFrom(u)
  PROVE  Told(u)'
<1>1. /\ current'[u] = current[u] /\ waiting'[u] = waiting[u]
      /\ \A s \in Shards : wsAssoc'[s][u] = wsAssoc[s][u]
  BY FSApart
<1>2. StillJobs(u)
  <2>1. jobs' = jobs
    BY DEF wsVars
  <2>2. QED
    BY <2>1, NoJobs
<1>3. QED
  BY <1>1, <1>2, ToldStays

(* Only an open socket of a user becomes one that was closed.              *)
LEMMA GoneSockets ==
  ASSUME Around, NEW u,
         \A c \in Places : \/ Sock(c)'.open \/ ~Sock(c)'.used
                           \/ Sock(c)'.u = Sock(c).u /\ Sock(c)'.used = Sock(c).used /\ Sock(c)'.app = Sock(c).app
  PROVE  GoneFrom(u)
<1>1. ASSUME NEW c \in Gone(u)' PROVE c \in Gone(u) \/ c \in Room(u) \/ c \in Cand(u)
  <2>1. c \in Places /\ Sock(c)'.u = u /\ Sock(c)'.used /\ ~Sock(c)'.open /\ Sock(c)'.app
    BY <1>1 DEF Gone, Places
  <2>2. Sock(c).u = u /\ Sock(c).used /\ Sock(c).app
    BY <2>1
  <2>3. QED
    BY <2>1, <2>2 DEF Gone, Room, Cand
<1>2. QED
  BY <1>1 DEF GoneFrom

(* Sockets that stay hold the sessions they held.                          *)
LEMMA GoneSame ==
  ASSUME UNCHANGED conn, NEW u
  PROVE  GoneFrom(u)
BY DEF GoneFrom, Gone, Sock

(* Sockets that close end sessions, and start none.                        *)
LEMMA GoneClosed ==
  ASSUME Around, NEW f \in Fess, NEW K, conn' = [conn EXCEPT ![f] = Closed(f, K)], NEW u
  PROVE  GoneFrom(u)
<1>1. conn \in [Fess -> [Conns -> Conn]]
  BY DEF Around, TypeOK, FSTypeOK
<1>2. ASSUME NEW c \in Places
      PROVE  Sock(c)'.u = Sock(c).u /\ Sock(c)'.used = Sock(c).used /\ Sock(c)'.app = Sock(c).app
  <2>1. PICK r \in Conn : r = conn[c[1]][c[2]]
    BY <1>1, <1>2, PlaceTyped
  <2>2. c[1] \in Fess /\ c[2] \in Conns
    BY <1>2, PlaceTyped
  <2>3. PICK q : q = conn'[c[1]][c[2]]
    OBVIOUS
  <2>4. q = r \/ q = [r EXCEPT !.open = FALSE]
    BY <1>1, <2>1, <2>2, <2>3 DEF Closed
  <2>5. q.u = r.u /\ q.used = r.used /\ q.app = r.app
    BY <2>1, <2>4 DEF Conn
  <2>6. QED
    BY <2>1, <2>3, <2>5 DEF Sock
<1>3. QED
  BY <1>2, GoneSockets

(* FSChooseShard keeps Told for every user.                                *)
LEMMA ToldFSChooseShard ==
  ASSUME Around, NEW f \in Fess, FSChooseShard(f), UNCHANGED <<dbVars, lsVars, wsVars, ssVars, latest>>,
         NEW v \in Users, Kept(v), Told(v)
  PROVE  Told(v)'
<1>1. PICK s \in Shards : s = ShardOf[f]
  BY PlacesOK
<1>2. PICK m : m = Head(net[<<s, f>>])
  OBVIOUS
<1>3. PICK p : p = [m EXCEPT !.kind = "M_ENTER_SHARD_ANSWER", !.f = f, !.v = 0]
  OBVIOUS
<1>4. /\ <<s, f>> \in Links /\ Pending(s, f, "M_ENTER_SHARD_REQUEST") /\ Receive(s, f, To(s, p))
      /\ conn' = [conn EXCEPT ![f] = Closed(f, {assoc[f][m.u]})]
  BY <1>1, <1>2, <1>3, LinksAre DEF FSChooseShard, DisconnectAccount
<1>5. /\ <<<<s, f>>, m>> \in Flights /\ <<<<s, f>>, m>> \in Flying
      /\ m.kind = "M_ENTER_SHARD_REQUEST" /\ m.u \in Users /\ m \in Message
  BY <1>2, <1>4, HeadIs
<1>6. p \in Message /\ p.kind = "M_ENTER_SHARD_ANSWER"
  BY <1>3, <1>5, MessageIs, NullsDistinct DEF Message, Kinds, FesOrNone, Answers
<1>7. StillNet(v)
  BY <1>4, <1>6, StillReceivedTo
<1>8. GoneFrom(v)
  BY <1>4, GoneClosed
<1>9. QED
  BY <1>7, <1>8, ToldByFS

(* FSDisconnectClient keeps Told for every user.                           *)
LEMMA ToldFSDisconnectClient ==
  ASSUME Around, NEW f \in Fess, FSDisconnectClient(f), UNCHANGED <<dbVars, lsVars, wsVars, ssVars, latest>>,
         NEW v \in Users, Kept(v), Told(v)
  PROVE  Told(v)'
<1>1. PICK s \in Shards : s = ShardOf[f]
  BY PlacesOK
<1>2. PICK m : m = Head(net[<<s, f>>])
  OBVIOUS
<1>3. /\ <<s, f>> \in Links /\ Pending(s, f, "M_CLIENT_DISCONNECT") /\ Receive(s, f, Silent)
      /\ conn' = [conn EXCEPT ![f] = Closed(f, {assoc[f][m.u]})]
  BY <1>1, <1>2, LinksAre DEF FSDisconnectClient, DisconnectAccount
<1>4. StillNet(v)
  BY <1>3, StillReceivedSilent
<1>5. GoneFrom(v)
  BY <1>3, GoneClosed
<1>6. QED
  BY <1>4, <1>5, ToldByFS

(* FSEnterShardOk keeps Told for every user.                               *)
LEMMA ToldFSEnterShardOk ==
  ASSUME Around, NEW f \in Fess, FSEnterShardOk(f), UNCHANGED <<dbVars, lsVars, wsVars, ssVars, latest>>,
         NEW v \in Users, Kept(v), Told(v)
  PROVE  Told(v)'
<1>1. PICK s \in Shards : s = ShardOf[f]
  BY PlacesOK
<1>2. PICK k : k = assoc[f][Head(net[<<s, f>>]).u]
  OBVIOUS
<1>3. /\ <<s, f>> \in Links /\ Pending(s, f, "M_ENTER__SHARD") /\ Receive(s, f, Silent)
      /\ conn' = IF k = 0 THEN conn ELSE [conn EXCEPT ![f][k].entered = conn[f][k].open]
  BY <1>1, <1>2, LinksAre DEF FSEnterShardOk
<1>4. StillNet(v)
  BY <1>3, StillReceivedSilent
<1>5. CASE k = 0
  <2>1. GoneFrom(v)
    BY <1>3, <1>5, GoneSame
  <2>2. QED
    BY <1>4, <2>1, ToldByFS
<1>6. CASE k # 0
  <2>1. conn \in [Fess -> [Conns -> Conn]]
    BY DEF Around, TypeOK, FSTypeOK
  <2>2. \A c \in Places : Sock(c)'.u = Sock(c).u /\ Sock(c)'.used = Sock(c).used /\ Sock(c)'.app = Sock(c).app
    <3>1. ASSUME NEW c \in Places
          PROVE  Sock(c)'.u = Sock(c).u /\ Sock(c)'.used = Sock(c).used /\ Sock(c)'.app = Sock(c).app
      <4>1. c[1] \in Fess /\ c[2] \in Conns
        BY <3>1, PlaceTyped
      <4>2. PICK r \in Conn : r = conn[c[1]][c[2]]
        BY <2>1, <4>1
      <4>3. PICK q : q = conn'[c[1]][c[2]]
        OBVIOUS
      <4>4. q = r \/ q = [r EXCEPT !.entered = r.open]
        BY <1>3, <1>6, <2>1, <4>1, <4>2, <4>3
      <4>5. q.u = r.u /\ q.used = r.used /\ q.app = r.app
        BY <4>2, <4>4 DEF Conn
      <4>6. QED
        BY <4>2, <4>3, <4>5 DEF Sock
    <3>2. QED
      BY <3>1
  <2>3. GoneFrom(v)
    BY <2>2, GoneSockets
  <2>4. QED
    BY <1>4, <2>3, ToldByFS
<1>7. QED
  BY <1>5, <1>6

(* FSChangeShardAns keeps Told for every user.                             *)
LEMMA ToldFSChangeShardAns ==
  ASSUME Around, NEW f \in Fess, FSChangeShardAns(f), UNCHANGED <<dbVars, lsVars, wsVars, ssVars, latest>>,
         NEW v \in Users, Kept(v), Told(v)
  PROVE  Told(v)'
<1>1. PICK s \in Shards : s = ShardOf[f]
  BY PlacesOK
<1>2. PICK K : K = {k \in Conns : /\ conn[f][k].u = Head(net[<<s, f>>]).u
                                  /\ conn[f][k].open /\ conn[f][k].entered}
  OBVIOUS
<1>3. /\ <<s, f>> \in Links /\ Pending(s, f, "M_SC_CHANGE_SHARD_ANS") /\ Receive(s, f, Silent)
      /\ conn' = [conn EXCEPT ![f] = [k \in Conns |-> IF k \in K THEN [@[k] EXCEPT !.asked = FALSE] ELSE @[k]]]
  BY <1>1, <1>2, LinksAre DEF FSChangeShardAns
<1>4. conn \in [Fess -> [Conns -> Conn]]
  BY DEF Around, TypeOK, FSTypeOK
<1>5. ASSUME NEW c \in Places
      PROVE  Sock(c)'.u = Sock(c).u /\ Sock(c)'.used = Sock(c).used /\ Sock(c)'.app = Sock(c).app
  <2>1. c[1] \in Fess /\ c[2] \in Conns
    BY <1>5, PlaceTyped
  <2>2. PICK r \in Conn : r = conn[c[1]][c[2]]
    BY <1>4, <2>1
  <2>3. PICK q : q = conn'[c[1]][c[2]]
    OBVIOUS
  <2>4. q = r \/ q = [r EXCEPT !.asked = FALSE]
    BY <1>3, <1>4, <2>1, <2>2, <2>3
  <2>5. q.u = r.u /\ q.used = r.used /\ q.app = r.app
    BY <2>2, <2>4 DEF Conn
  <2>6. QED
    BY <2>2, <2>3, <2>5 DEF Sock
<1>6. StillNet(v)
  BY <1>3, StillReceivedSilent
<1>7. GoneFrom(v)
  BY <1>5, GoneSockets
<1>8. QED
  BY <1>6, <1>7, ToldByFS

(* FSInvalidCookie keeps Told for every user.                              *)
LEMMA ToldFSInvalidCookie ==
  ASSUME Around, NEW f \in Fess, FSInvalidCookie(f), UNCHANGED <<dbVars, lsVars, wsVars, ssVars, latest>>,
         NEW v \in Users, Kept(v), Told(v)
  PROVE  Told(v)'
<1>1. PICK K : K = {assoc[f][conn[f][Head(events[f]).k].u], Head(events[f]).k}
  OBVIOUS
<1>2. conn' = [conn EXCEPT ![f] = Closed(f, K)] /\ net' = net
  BY <1>1 DEF FSInvalidCookie, netVars
<1>3. StillNet(v)
  BY <1>2, StillUnsent
<1>4. GoneFrom(v)
  BY <1>2, GoneClosed
<1>5. QED
  BY <1>3, <1>4, ToldByFS

(* FSRefreshPending keeps Told for every user.                             *)
LEMMA ToldFSRefreshPending ==
  ASSUME Around, NEW f \in Fess, FSRefreshPending(f), UNCHANGED <<dbVars, lsVars, wsVars, ssVars, latest>>,
         NEW v \in Users, Kept(v), Told(v)
  PROVE  Told(v)'
<1>1. PICK p \in pending[f] : Emit(f, To(ShardOf[f], [Msg("M_LOGIN_SERVER_RPC", p.u) EXCEPT !.ck = p.ck]))
  BY DEF FSRefreshPending
<1>2. p.u \in Users /\ p.ck \in Cookie
  BY DEF Around, TypeOK, FSTypeOK
<1>3. PICK q : q = [Msg("M_LOGIN_SERVER_RPC", p.u) EXCEPT !.ck = p.ck]
  OBVIOUS
<1>4. q \in Message /\ q.kind = "M_LOGIN_SERVER_RPC"
  <2>1. q \in Message
    BY <1>2, <1>3, MsgTyped, NullsTyped, WSNulls DEF Kinds, Answers
  <2>2. QED
    BY <1>3, <2>1 DEF Msg
<1>5. StillNet(v)
  BY <1>1, <1>3, <1>4, StillEmittedTo
<1>6. UNCHANGED conn
  BY DEF FSRefreshPending
<1>7. GoneFrom(v)
  BY <1>6, GoneSame
<1>8. QED
  BY <1>5, <1>7, ToldByFS

(* ClientConnect keeps Told for every user.                                *)
LEMMA ToldClientConnect ==
  ASSUME Around, NEW u \in Users, ClientConnect(u), UNCHANGED <<dbVars, lsVars, wsVars, ssVars, latest>>,
         NEW v \in Users, Kept(v), Told(v)
  PROVE  Told(v)'
<1>1. PICK o \in offers[u], k \in Conns :
        conn' = [conn EXCEPT ![o.f][k] = [FreeConn EXCEPT !.u = u, !.used = TRUE, !.open = TRUE]]
  BY DEF ClientConnect
<1>2. conn \in [Fess -> [Conns -> Conn]] /\ offers \in [Users -> SUBSET Offer]
  BY DEF Around, TypeOK, FSTypeOK
<1>3. PICK f \in Fess : f = o.f
  BY <1>2 DEF Offer
<1>4. PICK r : r = [FreeConn EXCEPT !.u = u, !.used = TRUE, !.open = TRUE]
  OBVIOUS
<1>5. r.open
  BY <1>4 DEF FreeConn
<1>6. ASSUME NEW c \in Places PROVE Sock(c)'.open \/ Sock(c)' = Sock(c)
  <2>1. c[1] \in Fess /\ c[2] \in Conns
    BY <1>6, PlaceTyped
  <2>2. conn'[c[1]][c[2]] = r \/ conn'[c[1]][c[2]] = conn[c[1]][c[2]]
    BY <1>1, <1>2, <1>3, <1>4, <2>1
  <2>3. QED
    BY <1>5, <2>2 DEF Sock
<1>7. GoneFrom(v)
  BY <1>6, GoneSockets
<1>8. net' = net
  BY DEF ClientConnect, netVars
<1>9. StillNet(v)
  BY <1>8, StillUnsent
<1>10. QED
  BY <1>7, <1>9, ToldByFS

(* ClientClose keeps Told for every user.                                  *)
LEMMA ToldClientClose ==
  ASSUME Around, NEW f \in Fess, NEW k \in Conns, ClientClose(f, k),
         UNCHANGED <<dbVars, lsVars, wsVars, ssVars, latest>>, NEW v \in Users, Kept(v), Told(v)
  PROVE  Told(v)'
<1>1. conn' = [conn EXCEPT ![f] = Closed(f, {k})] /\ net' = net
  BY DEF ClientClose, netVars
<1>2. StillNet(v)
  BY <1>1, StillUnsent
<1>3. GoneFrom(v)
  BY <1>1, GoneClosed
<1>4. QED
  BY <1>2, <1>3, ToldByFS

(* FSChangeShardReq keeps Told for every user.                             *)
LEMMA ToldFSChangeShardReq ==
  ASSUME Around, NEW f \in Fess, NEW k \in Conns, FSChangeShardReq(f, k),
         UNCHANGED <<dbVars, lsVars, wsVars, ssVars, latest>>, NEW v \in Users, Kept(v), Told(v)
  PROVE  Told(v)'
<1>1. conn' = [conn EXCEPT ![f][k].asked = TRUE]
  BY DEF FSChangeShardReq
<1>2. PICK s \in Shards :
        Emit(f, To(ShardOf[f], [Msg("M_CS_CHANGE_SHARD_REQ", conn[f][k].u) EXCEPT !.s = s]))
  BY DEF FSChangeShardReq
<1>3. conn \in [Fess -> [Conns -> Conn]]
  BY DEF Around, TypeOK, FSTypeOK
<1>4. PICK u \in Users : u = conn[f][k].u
  BY <1>3 DEF Conn
<1>5. PICK q : q = [Msg("M_CS_CHANGE_SHARD_REQ", u) EXCEPT !.s = s]
  OBVIOUS
<1>6. q \in Message /\ q.kind = "M_CS_CHANGE_SHARD_REQ"
  <2>1. q \in Message
    BY <1>5, MsgTyped, NullsTyped, WSNulls DEF Kinds, Answers
  <2>2. QED
    BY <1>5, <2>1 DEF Msg
<1>7. StillNet(v)
  BY <1>2, <1>4, <1>5, <1>6, StillEmittedTo
<1>8. ASSUME NEW c \in Places
      PROVE  Sock(c)'.u = Sock(c).u /\ Sock(c)'.used = Sock(c).used /\ Sock(c)'.app = Sock(c).app
  <2>1. c[1] \in Fess /\ c[2] \in Conns
    BY <1>8, PlaceTyped
  <2>2. PICK r \in Conn : r = conn[c[1]][c[2]]
    BY <1>3, <2>1
  <2>3. PICK t : t = conn'[c[1]][c[2]]
    OBVIOUS
  <2>4. t = r \/ t = [r EXCEPT !.asked = TRUE]
    BY <1>1, <1>3, <2>1, <2>2, <2>3
  <2>5. t.u = r.u /\ t.used = r.used /\ t.app = r.app
    BY <2>2, <2>4 DEF Conn
  <2>6. QED
    BY <2>2, <2>3, <2>5 DEF Sock
<1>9. GoneFrom(v)
  BY <1>8, GoneSockets
<1>10. QED
  BY <1>7, <1>9, ToldByFS

-----------------------------------------------------------------------------
(* What a front end reports of its clients.                                *)

(* What is sent where nothing of A is does not get before anything of it.  *)
LEMMA EmitBehind ==
  ASSUME NetTyped, NetTyped', NEW me, NEW outs \in Outbox, Emit(me, outs), NEW A, NEW B, Ordered(A, B),
         \A y \in Sent(me, outs) : y \in B => \A z \in Flights' : z \in A => z[1] # y[1]
  PROVE  Ordered(A, B)'
<1> DEFINE d == [l \in Links |-> 0]
<1>2. d \in [Links -> {0, 1}] /\ Passes(d, me, outs)
  <2> DEFINE e == d
  <2>1. e = [l \in Links |-> 0]
    OBVIOUS
  <2> HIDE DEF d, e
  <2>2. e \in [Links -> {0, 1}] /\ Passes(e, me, outs)
    BY <2>1, EmitPasses
  <2>3. QED
    BY <2>2 DEF e
<1> HIDE DEF d
<1>3. QED
  BY <1>2, OrderedBy

(* What the LS holds of u stays backed when no start reaches its links.    *)
LEMMA BackedBeside ==
  ASSUME NEW u \in Users, Backed(u), UNCHANGED <<dbVars, lsVars, wsVars, ssVars, latest>>,
         \A y \in Flights : y \in Flights',
         \A y \in Flights' : y \in Reports(u, 1) /\ y[1][2] = LS => y \in Flights
  PROVE  Backed(u)'
<1>1. /\ current'[u] = current[u] /\ waiting'[u] = waiting[u]
      /\ \A s \in Shards : wsAssoc'[s][u] = wsAssoc[s][u]
  BY FSApart
<1>2. StillJobs(u)
  <2>1. jobs' = jobs
    BY DEF wsVars
  <2>2. QED
    BY <2>1, NoJobs
<1>3. ASSUME NEW s \in Shards, Led(u, s)' PROVE Backs(u, s)'
  <2>1. Led(u, s)
    <3>1. ASSUME NEW x \in Flights', x \in Reports(u, 1), x[1] = <<s, LS>> PROVE x \in Flights
      <4>1. x[1][2] = LS
        BY <3>1
      <4>2. QED
        BY <3>1, <4>1
    <3>2. QED
      BY <1>1, <1>3, <3>1 DEF Led
  <2>2. Backs(u, s)
    BY <2>1 DEF Backed
  <2>3. QED
    BY <1>1, <1>2, <2>2, BacksStay DEF StillJobs
<1>4. QED
  BY <1>3 DEF Backed

(* FSShardValidation keeps Told for every user.                            *)
LEMMA ToldFSShardValidation ==
  ASSUME Around, NEW f \in Fess, FSShardValidation(f), UNCHANGED <<dbVars, lsVars, wsVars, ssVars, latest>>,
         NEW v \in Users, \A a \in Users : Kept(a), Told(v)
  PROVE  Told(v)'
<1>1. PICK e : e = Head(events[f])
  OBVIOUS
<1>2. PICK k : k = e.k
  OBVIOUS
<1>3. PICK u : u = conn[f][k].u
  OBVIOUS
<1>4. PICK q : q = [Msg("M_CLIENT_CONNECT_STATUS", u) EXCEPT !.v = 1, !.ck = e.ck]
  OBVIOUS
<1>5. /\ events[f] # << >> /\ e.ev = "validation" /\ [u |-> u, ck |-> e.ck] \in pending[f]
      /\ conn' = [conn EXCEPT ![f] = [Closed(f, {assoc[f][u]}) EXCEPT ![k].app = TRUE]]
      /\ Emit(f, To(ShardOf[f], q))
  BY <1>1, <1>2, <1>3, <1>4 DEF FSShardValidation
<1>6. k \in Conns /\ u \in Users /\ <<f, k>> \in Fresh(u) /\ (assoc[f][u] \in Conns => ~conn[f][assoc[f][u]].open)
  <2>1. u = conn[f][e.k].u
    BY <1>2, <1>3
  <2>2. QED
    BY <1>1, <1>2, <1>5, <2>1, Shown
<1>7. Closed(f, {assoc[f][u]}) = conn[f]
  BY <1>6, ClosedStill
<1>8. PICK d : d = <<f, k>>
  OBVIOUS
<1>9. d \in Fresh(u) /\ d \in Places /\ d[1] = f
  BY <1>6, <1>8 DEF Places
<1>10. conn \in [Fess -> [Conns -> Conn]] /\ e.ck \in Cookie
  <2>1. FSTypeOK
    BY DEF Around, TypeOK
  <2>2. QED
    BY <1>5, <2>1 DEF FSTypeOK
<1>11. conn' = [conn EXCEPT ![f] = [conn[f] EXCEPT ![k].app = TRUE]]
  BY <1>5, <1>7
<1>12. conn'[f][k] = [conn[f][k] EXCEPT !.app = TRUE] /\ conn[f][k] \in Conn
  BY <1>6, <1>10, <1>11
<1>13. OthersStay(d) /\ Sock(d)'.open
  <2>1. \A g \in Fess, j \in Conns : g # d[1] \/ j # d[2] => conn'[g][j] = conn[g][j]
    BY <1>8, <1>10, <1>11
  <2>2. OthersStay(d)
    BY <1>9, <2>1, OneSocket
  <2>3. conn[f][k].open
    BY <1>8, <1>9 DEF Fresh, Sock
  <2>4. conn'[f][k].open
    BY <1>12, <2>3 DEF Conn
  <2>5. QED
    BY <1>8, <2>2, <2>4 DEF Sock
<1>14. Gone(v)' \subseteq Gone(v)
  <2>1. ASSUME NEW c \in Gone(v)' PROVE c \in Gone(v)
    <3>1. c \in Places /\ c # d
      BY <1>13, <2>1 DEF Gone, Places
    <3>2. Sock(c)' = Sock(c)
      BY <1>13, <3>1 DEF OthersStay
    <3>3. QED
      BY <2>1, <3>1, <3>2 DEF Gone
  <2>2. QED
    BY <2>1
<1>15. q \in Message /\ q.kind = "M_CLIENT_CONNECT_STATUS" /\ q.u = u /\ q.v = 1
  <2>1. q \in Message
    BY <1>4, <1>6, <1>10, MsgTyped, NullsTyped, WSNulls DEF Kinds, Answers
  <2>2. QED
    BY <1>4, <2>1 DEF Msg
<1>16. PICK s \in Shards : s = ShardOf[f]
  BY PlacesOK
<1>17. SS \notin Shards /\ LS \notin Shards /\ LS # SS /\ s # LS /\ s # SS
  BY NodesDistinct
<1>18. PICK outs \in Outbox : outs = To(s, q)
  BY <1>15, ToTyped
<1>19. PICK z : z = <<<<f, s>>, q>>
  OBVIOUS
<1>20. z[1] = <<f, s>> /\ z[1][1] = f /\ z[1][2] = s /\ z[2] = q /\ \A y \in Sent(f, outs) : y = z
  BY <1>18, <1>19, SentOne
<1>21. Emit(f, outs) /\ NetTyped /\ NetTyped'
  BY <1>5, <1>16, <1>18, AroundTyped
<1>22. CASE u # v
  <2>1. z \notin Reports(v, 0) /\ z \notin Reports(v, 1)
    BY <1>15, <1>20, <1>22 DEF Reports
  <2>2. StillNet(v)
    BY <1>20, <1>21, <2>1, StillEmitted
  <2>3. GoneFrom(v)
    BY <1>14 DEF GoneFrom
  <2>4. Kept(v)
    OBVIOUS
  <2>5. QED
    BY <2>2, <2>3, <2>4, ToldByFS
<1>23. CASE u = v
  <2>1. InTurn(v) /\ Backed(v) /\ z \notin Reports(v, 0) /\ Kept(v)
    BY <1>15, <1>20 DEF Told, Reports
  <2>2. /\ ShardOf[d[1]] # current[v] /\ \A y \in Flights : y \notin Ahead(v)
        /\ \A t \in Shards : EndsOn(v, t) => current[v] # NoShard
    BY <1>9, <1>23, <2>1, FreshIs
  <2>3. ~EndsOn(v, s)
    <3>1. EndsOn(v, s) => current[v] \in {s, NoShard}
      BY <2>1 DEF Kept, Leaves
    <3>2. QED
      BY <1>9, <1>16, <2>2, <3>1
  <2>4. LoneFor(v, f, To(s, q))
    BY LoneForOne
  <2>5. LoneSent(f, outs, Reports(v, 0))
    BY <1>18, <2>4 DEF LoneFor
  <2>6. \A y \in Flights' : y \in Reports(v, 0) => y \in Flights
    <3>1. Moves({}, Sent(f, outs), Reports(v, 0))
      BY <1>21, <2>5, EmitMoves
    <3>2. QED
      BY <1>20, <2>1, <3>1 DEF Moves
  <2>7. \A y \in Flights' : y \in Reports(v, 1) => y = z
    <3>1. NetOf(v, {}, {z})
      BY <1>5, <1>15, <1>16, <1>19, EmittedTo
    <3>2. \A y \in Flights' : y \in Ahead(v) => y \in Flights \/ y \in {z}
      BY <3>1 DEF NetOf, Moves
    <3>3. QED
      BY <2>2, <3>2 DEF Ahead
  <2>8. \A y \in Flights : y \in Reports(v, 0) => Source(y) # s
    BY <2>3 DEF EndsOn
  <2>9. Source(z) = s
    BY <1>17, <1>20 DEF Source
  <2>10. Ordered(Reports(v, 0), Reports(v, 1))'
    <3>1. PICK A : A = Reports(v, 0)
      OBVIOUS
    <3>2. PICK B : B = Reports(v, 1)
      OBVIOUS
    <3>3. Ordered(A, B)
      BY <2>1, <3>1, <3>2 DEF InTurn
    <3>4. ASSUME NEW y \in Flights', y \in A PROVE y[1] # z[1]
      <4>1. y \in Flights /\ Source(y) # s
        BY <2>6, <2>8, <3>1, <3>4
      <4>2. QED
        BY <2>9, <4>1 DEF Source
    <3>5. \A y \in Sent(f, outs) : y \in B => \A w \in Flights' : w \in A => w[1] # y[1]
      BY <1>20, <3>4
    <3>6. Ordered(A, B)'
      BY <1>21, <3>3, <3>5, EmitBehind
    <3>7. QED
      BY <3>1, <3>2, <3>6
  <2>11. ASSUME NEW x \in Flights', x \in Reports(v, 1), x[1][2] # LS
         PROVE  /\ \A y \in Flights' : y \in Reports(v, 0) /\ Source(y) = Source(x) => y[1] = x[1]
                /\ \A y \in JobFlights' : y \in EndJobs(v) => y[1] # Source(x)
                /\ \A c \in Gone(v)' : ShardOf[c[1]] = Source(x) => c[1] = x[1][1]
    <3>1. Source(x) = s
      BY <2>7, <2>9, <2>11
    <3>2. \A y \in Flights' : y \in Reports(v, 0) => Source(y) # s
      BY <2>6, <2>8
    <3>3. \A y \in JobFlights' : y \in EndJobs(v) => y[1] # s
      <4>1. jobs' = jobs
        BY DEF wsVars
      <4>2. StillJobs(v)
        BY <4>1, NoJobs
      <4>3. QED
        BY <2>3, <4>2 DEF StillJobs, EndsOn
    <3>4. \A c \in Gone(v)' : ShardOf[c[1]] # s
      BY <1>14, <2>3 DEF EndsOn
    <3>5. QED
      BY <3>1, <3>2, <3>3, <3>4
  <2>12. InTurn(v)'
    BY <2>10, <2>11 DEF InTurn
  <2>13. Backed(v)'
    <3>1. \A y \in Flights : y \in Flights'
      BY <1>21, EmitLeaves
    <3>2. \A y \in Flights' : y \in Reports(v, 1) /\ y[1][2] = LS => y \in Flights
      BY <1>17, <1>20, <2>7
    <3>3. QED
      BY <2>1, <3>1, <3>2, BackedBeside
  <2>14. QED
    BY <2>12, <2>13 DEF Told
<1>24. QED
  BY <1>22, <1>23

(* FSDisconnected keeps Told for every user.                               *)
LEMMA ToldFSDisconnected ==
  ASSUME Around, NEW f \in Fess, FSDisconnected(f), UNCHANGED <<dbVars, lsVars, wsVars, ssVars, latest>>,
         NEW v \in Users, Kept(v), Told(v)
  PROVE  Told(v)'
<1>1. PICK e : e = Head(events[f])
  OBVIOUS
<1>2. PICK k : k = e.k
  OBVIOUS
<1>3. PICK u : u = conn[f][k].u
  OBVIOUS
<1>4. PICK p : p = Msg("M_CLIENT_CONNECT_STATUS", u)
  OBVIOUS
<1>5. /\ events[f] # << >> /\ e.ev = "disconnection" /\ conn' = [conn EXCEPT ![f][k] = FreeConn]
      /\ conn[f][k].app => Emit(f, To(ShardOf[f], p))
      /\ ~conn[f][k].app => UNCHANGED net
  BY <1>1, <1>2, <1>3, <1>4 DEF FSDisconnected, Reported
<1>6. conn \in [Fess -> [Conns -> Conn]] /\ events \in [Fess -> Seq(Event)]
  BY DEF Around, TypeOK, FSTypeOK
<1>7. k \in Conns /\ conn[f][k].used /\ ~conn[f][k].open
  <2>1. PICK q \in Seq(Event) : q = events[f]
    BY <1>6
  <2>2. q # << >> /\ 1 \in DOMAIN q /\ e = q[1] /\ e \in Event
    BY <1>1, <1>5, <2>1, LenProperties, ElementOfSeq
  <2>3. InOrder(q, conn[f])
    BY <2>1 DEF Around, Sockets
  <2>4. QED
    BY <1>2, <1>5, <2>2, <2>3 DEF InOrder, Event
<1>8. u \in Users
  BY <1>3, <1>6, <1>7 DEF Conn
<1>9. PICK d : d = <<f, k>>
  OBVIOUS
<1>10. d \in Places /\ d[1] = f /\ d[2] = k /\ Sock(d) = conn[f][k] /\ Sock(d)' = conn'[f][k]
  BY <1>7, <1>9 DEF Places, Sock
<1>11. conn'[f][k] = FreeConn /\ ~FreeConn.open /\ ~FreeConn.used
  BY <1>5, <1>6, <1>7 DEF FreeConn
<1>12. OthersStay(d)
  <2>1. \A g \in Fess, j \in Conns : g # d[1] \/ j # d[2] => conn'[g][j] = conn[g][j]
    BY <1>5, <1>6, <1>10
  <2>2. QED
    BY <1>10, <2>1, OneSocket
<1>13. GoneFrom(v)
  <2>1. ASSUME NEW c \in Places PROVE ~Sock(c)'.used \/ Sock(c)' = Sock(c)
    <3>1. CASE c = d
      BY <1>10, <1>11, <3>1
    <3>2. CASE c # d
      BY <1>12, <3>2 DEF OthersStay
    <3>3. QED
      BY <3>1, <3>2
  <2>2. QED
    BY <2>1, GoneSockets
<1>14. CASE ~conn[f][k].app
  <2>1. StillNet(v)
    BY <1>5, <1>14, StillUnsent
  <2>2. QED
    BY <1>13, <2>1, ToldByFS
<1>15. CASE conn[f][k].app
  <2>1. p \in Message /\ p.u = u /\ p.kind = "M_CLIENT_CONNECT_STATUS" /\ p.v = 0
    BY <1>4, <1>8, MsgTyped, NullsTyped, WSNulls DEF Kinds, Answers, Msg
  <2>2. PICK s \in Shards : s = ShardOf[f]
    BY PlacesOK
  <2>3. s # LS /\ s # SS
    BY NodesDistinct
  <2>4. PICK outs \in Outbox : outs = To(s, p)
    BY <2>1, ToTyped
  <2>5. PICK z : z = <<<<f, s>>, p>>
    OBVIOUS
  <2>6. z[1] = <<f, s>> /\ z[1][1] = f /\ z[1][2] = s /\ z[2] = p /\ \A y \in Sent(f, outs) : y = z
    BY <2>4, <2>5, SentOne
  <2>7. Emit(f, outs) /\ NetTyped /\ NetTyped'
    BY <1>5, <1>15, <2>2, <2>4, AroundTyped
  <2>8. CASE u # v
    <3>1. z \notin Reports(v, 0) /\ z \notin Reports(v, 1)
      BY <2>1, <2>6, <2>8 DEF Reports
    <3>2. StillNet(v)
      BY <2>6, <2>7, <3>1, StillEmitted
    <3>3. QED
      BY <1>13, <3>2, ToldByFS
  <2>9. CASE u = v
    <3>1. InTurn(v) /\ Backed(v) /\ z \notin Reports(v, 1)
      BY <2>1, <2>6 DEF Told, Reports
    <3>2. LoneFor(v, f, To(s, p))
      BY LoneForOne
    <3>3. LoneSent(f, outs, Reports(v, 0))
      BY <2>4, <3>2 DEF LoneFor
    <3>4. \A y \in Flights' : y \in Reports(v, 0) => y \in Flights \/ y = z
      <4>1. Moves({}, Sent(f, outs), Reports(v, 0))
        BY <2>7, <3>3, EmitMoves
      <4>2. QED
        BY <2>6, <4>1 DEF Moves
    <3>5. \A y \in Flights' : y \in Reports(v, 1) => y \in Flights
      <4>1. NetOf(v, {}, {z})
        BY <1>5, <1>15, <2>1, <2>2, <2>5, EmittedTo
      <4>2. \A y \in Flights' : y \in Ahead(v) => y \in Flights \/ y \in {z}
        BY <4>1 DEF NetOf, Moves
      <4>3. QED
        BY <3>1, <4>2 DEF Ahead
    <3>6. Source(z) = s /\ d \in Gone(v) /\ ShardOf[d[1]] = s
      BY <1>3, <1>7, <1>10, <1>15, <2>2, <2>3, <2>6, <2>9 DEF Source, Gone
    <3>7. Ordered(Reports(v, 0), Reports(v, 1))'
      <4>1. PICK A : A = Reports(v, 0)
        OBVIOUS
      <4>2. PICK B : B = Reports(v, 1)
        OBVIOUS
      <4>3. Ordered(A, B) /\ \A y \in Sent(f, outs) : y \notin B
        BY <2>6, <3>1, <4>1, <4>2 DEF InTurn
      <4>4. Ordered(A, B)'
        BY <2>7, <4>3, EmitOrdered
      <4>5. QED
        BY <4>1, <4>2, <4>4
    <3>8. ASSUME NEW x \in Flights, x \in Reports(v, 1), x[1][2] # LS
          PROVE  /\ \A y \in Flights' : y \in Reports(v, 0) /\ Source(y) = Source(x) => y[1] = x[1]
                 /\ \A y \in JobFlights' : y \in EndJobs(v) => y[1] # Source(x)
      <4>1. /\ \A y \in Flights : y \in Reports(v, 0) /\ Source(y) = Source(x) => y[1] = x[1]
            /\ \A y \in JobFlights : y \in EndJobs(v) => y[1] # Source(x)
            /\ \A c \in Gone(v) : ShardOf[c[1]] = Source(x) => c[1] = x[1][1]
        BY <3>1, <3>8 DEF InTurn
      <4>2. ASSUME Source(z) = Source(x) PROVE z[1] = x[1]
        <5>1. d[1] = x[1][1]
          BY <3>6, <4>1, <4>2
        <5>2. x[1][2] = s
          BY <3>6, <3>8, <4>2 DEF Source
        <5>3. x[1] \in Links
          BY <3>8 DEF Reports, Flying
        <5>4. x[1] = <<x[1][1], x[1][2]>>
          BY <5>3, LinksAre
        <5>5. QED
          BY <1>10, <2>6, <5>1, <5>2, <5>4
      <4>3. StillJobs(v)
        <5>1. jobs' = jobs
          BY DEF wsVars
        <5>2. QED
          BY <5>1, NoJobs
      <4>4. \A y \in Flights' : y \in Reports(v, 0) /\ Source(y) = Source(x) => y[1] = x[1]
        BY <3>4, <4>1, <4>2
      <4>5. QED
        BY <4>1, <4>3, <4>4 DEF StillJobs
    <3>9. InTurn(v)'
      BY <1>13, <3>1, <3>5, <3>7, <3>8, InTurnFewer
    <3>10. Backed(v)'
      <4>1. \A y \in Flights : y \in Flights'
        BY <2>7, EmitLeaves
      <4>2. QED
        BY <3>1, <3>5, <4>1, BackedBeside
    <3>11. QED
      BY <3>9, <3>10 DEF Told
  <2>10. QED
    BY <2>8, <2>9
<1>16. QED
  BY <1>14, <1>15

-----------------------------------------------------------------------------
(* What the login service of the clients and the rooms do.                 *)

(* A step apart from sessions, reports and the records of the LS.          *)
LEMMA ToldApart ==
  ASSUME Around, NEW u \in Users, Kept(u), Told(u), conn' = conn, jobs' = jobs, wsAssoc' = wsAssoc,
         UNCHANGED lsVars, StillNet(u)
  PROVE  Told(u)'
<1>1. current' = current /\ waiting' = waiting
  BY DEF lsVars
<1>2. GoneFrom(u) /\ StillJobs(u)
  BY GoneSame, NoJobs
<1>3. QED
  BY <1>1, <1>2, ToldStays

(* A step of the SS that reports nothing.                                  *)
LEMMA ToldBySS ==
  ASSUME Around, NEW u \in Users, Kept(u), Told(u), UNCHANGED <<lsVars, wsVars, fsVars>>, StillNet(u)
  PROVE  Told(u)'
<1>1. conn' = conn /\ jobs' = jobs /\ wsAssoc' = wsAssoc
  BY DEF wsVars, fsVars
<1>2. QED
  BY <1>1, ToldApart

(* What the LS sends the SS is no report to the LS. *)
LEMMA StillToSS ==
  ASSUME Around, NEW kind, FromLS(kind), NEW u
  PROVE  StillNet(u)
<1>1. <<LS, SS>> \in Links /\ Pending(LS, SS, kind) /\ Receive(LS, SS, Silent)
  BY LinksAre DEF FromLS
<1>2. SS # LS
  BY NodesDistinct
<1>3. QED
  BY <1>1, <1>2, StillReceivedSilent

(* SSUserAuth keeps Told for every user.                                   *)
LEMMA ToldSSUserAuth ==
  ASSUME Around, NEW u \in Users, SSUserAuth(u), UNCHANGED <<dbVars, lsVars, wsVars, fsVars, latest>>,
         NEW v \in Users, Kept(v), Told(v)
  PROVE  Told(v)'
<1>1. PICK p : p = Msg("M_SC_SHARDS", u)
  OBVIOUS
<1>2. Emit(SS, To(LS, p))
  BY <1>1 DEF SSUserAuth, ToLS
<1>3. p \in Message /\ p.kind = "M_SC_SHARDS"
  BY <1>1, MsgTyped, NullsTyped, WSNulls DEF Kinds, Answers, Msg
<1>4. StillNet(v)
  BY <1>2, <1>3, StillEmittedTo
<1>5. QED
  BY <1>4, ToldBySS

(* SSUserChooseShard keeps Told for every user.                            *)
LEMMA ToldSSUserChooseShard ==
  ASSUME Around, NEW u \in Users, NEW n \in Logins, SSUserChooseShard(u, n),
         UNCHANGED <<dbVars, lsVars, wsVars, fsVars, latest>>, NEW v \in Users, Kept(v), Told(v)
  PROVE  Told(v)'
<1>1. PICK s \in Shards : Emit(SS, To(LS, [Msg("M_ENTER_SHARD_REQUEST", u) EXCEPT !.s = s, !.v = n]))
  BY DEF SSUserChooseShard
<1>2. PICK p : p = [Msg("M_ENTER_SHARD_REQUEST", u) EXCEPT !.s = s, !.v = n]
  OBVIOUS
<1>3. p \in Message /\ p.kind = "M_ENTER_SHARD_REQUEST"
  <2>1. n \in Nat
    BY DEF Logins
  <2>2. p \in Message
    BY <1>2, <2>1, MsgTyped, NullsTyped, WSNulls DEF Kinds, Answers, ShardOrNone
  <2>3. QED
    BY <1>2, <2>2 DEF Msg
<1>4. StillNet(v)
  BY <1>1, <1>2, <1>3, StillEmittedTo
<1>5. QED
  BY <1>4, ToldBySS

(* SSUserDisconnection keeps Told for every user.                          *)
LEMMA ToldSSUserDisconnection ==
  ASSUME Around, NEW u \in Users, NEW n \in Logins, SSUserDisconnection(u, n),
         UNCHANGED <<dbVars, lsVars, wsVars, fsVars, latest>>, NEW v \in Users, Kept(v), Told(v)
  PROVE  Told(v)'
<1>1. PICK p : p = Msg("M_CLIENT_DISCONNECT", u)
  OBVIOUS
<1>2. Emit(SS, To(LS, p)) \/ net' = net
  BY <1>1 DEF SSUserDisconnection, ToLS
<1>3. p \in Message /\ p.kind = "M_CLIENT_DISCONNECT"
  BY <1>1, MsgTyped, NullsTyped, WSNulls DEF Kinds, Answers, Msg
<1>4. StillNet(v)
  BY <1>2, <1>3, StillEmittedTo, StillUnsent
<1>5. QED
  BY <1>4, ToldBySS

(* What informs the SS keeps Told for every user.                          *)
LEMMA ToldSSInformed ==
  ASSUME Around, SSDisplayShardList \/ SSClientConnected \/ SSFailed,
         UNCHANGED <<dbVars, lsVars, wsVars, fsVars, latest>>, NEW v \in Users, Kept(v), Told(v)
  PROVE  Told(v)'
<1>1. FromLS("M_SC_SHARDS") \/ FromLS("M_CLIENT_CONNECT_STATUS") \/ FromLS("M_SC_FAIL")
  BY DEF SSDisplayShardList, SSClientConnected, SSFailed
<1>2. StillNet(v)
  BY <1>1, StillToSS
<1>3. QED
  BY <1>2, ToldBySS

(* SSShardAnswer keeps Told for every user.                                *)
LEMMA ToldSSShardAnswer ==
  ASSUME Around, SSShardAnswer, NEW v \in Users, Kept(v), Told(v)
  PROVE  Told(v)'
<1>1. FromLS("M_ENTER_SHARD_ANSWER") /\ UNCHANGED <<lsVars, wsVars, conn>>
  BY DEF SSShardAnswer
<1>2. StillNet(v)
  BY <1>1, StillToSS
<1>3. jobs' = jobs /\ wsAssoc' = wsAssoc
  BY <1>1 DEF wsVars
<1>4. QED
  BY <1>1, <1>2, <1>3, ToldApart

(* Play keeps Told for every user.                                         *)
LEMMA ToldPlay ==
  ASSUME Around, NEW f \in Fess, NEW k \in Conns, Play(f, k), NEW v \in Users, Kept(v), Told(v)
  PROVE  Told(v)'
<1>1. UNCHANGED <<netVars, lsVars, wsAssoc, jobs, fsVars>>
  BY DEF Play
<1>2. net' = net /\ conn' = conn
  BY <1>1 DEF netVars, fsVars
<1>3. StillNet(v)
  BY <1>2, StillUnsent
<1>4. QED
  BY <1>1, <1>2, <1>3, ToldApart

-----------------------------------------------------------------------------
(* Every step keeps the reports in turn and the LS backed.                 *)

(* Every step of the LS keeps Told.                                        *)
LEMMA LSStepTells ==
  ASSUME Around, LSStep, \A a \in Users : Kept(a), NEW v \in Users, Told(v)
  PROVE  Told(v)'
<1>1. LSNext /\ UNCHANGED <<wsVars, fsVars, ssVars, latest>> /\ Kept(v)
  BY DEF LSStep
<1>2. CASE LSShardsList \/ LSChooseShardRefused \/ LSChooseShard \/ LSDisconnectClient
  BY <1>1, <1>2, ToldShardsList, ToldChooseShardRefused, ToldChooseShard, ToldDisconnectClient
<1>3. ASSUME NEW s \in Shards,
             LSShardAnswer(s) \/ LSRemovedPendingCookie(s) \/ LSClientMustWait(s) \/ LSClientConnected(s)
      PROVE  Told(v)'
  BY <1>1, <1>3, ToldShardAnswer, ToldRemovedPendingCookie, ToldClientMustWait, ToldClientConnected
<1>4. ASSUME NEW s \in Shards,
             LSClientDisconnected(s) \/ LSClientHandedOver(s) \/ LSChangeShardReq(s) \/ LSMoveDataEnd(s)
      PROVE  Told(v)'
  BY <1>1, <1>4, ToldClientDisconnected, ToldClientHandedOver, ToldChangeShardReq, ToldMoveDataEnd
<1>5. QED
  BY <1>1, <1>2, <1>3, <1>4, NeverForced DEF LSNext

(* Every step of a WS keeps Told.                                          *)
LEMMA WSStepTells ==
  ASSUME Around, WSStep, \A a \in Users : Kept(a), NEW v \in Users, Told(v)
  PROVE  Told(v)'
<1>1. WSNext /\ UNCHANGED <<dbVars, lsVars, fsVars, ssVars, latest>> /\ Kept(v)
  BY DEF WSStep
<1>2. ASSUME NEW f \in Fess,
             \/ WSShardAnswer(f) \/ WSLoginClient(f) \/ WSLogoffClient(f)
             \/ WSRemovedPendingCookie(f) \/ WSChangeShardReq(f)
      PROVE  Told(v)'
  BY <1>1, <1>2, ToldWSShardAnswer, ToldWSLoginClient, ToldWSLogoffClient,
     ToldWSRemovedPendingCookie, ToldWSChangeShardReq
<1>3. ASSUME NEW s \in Shards, WSNoFrontend(s) \/ WSChooseShard(s) \/ WSDisconnectClient(s)
      PROVE  Told(v)'
  BY <1>1, <1>3, ToldWSNoFrontend, ToldWSChooseShard, ToldWSDisconnectClient
<1>4. ASSUME NEW s \in Shards, WSRelayToFES(s) \/ WSMoveUserDataReq(s) \/ WSQueryDone(s)
      PROVE  Told(v)'
  BY <1>1, <1>4, ToldWSRelayToFES, ToldWSMoveUserDataReq, ToldWSQueryDone
<1>5. ASSUME NEW s \in Shards, NEW from \in Shards \ {s}, WSSendUserData(from, s)
      PROVE  Told(v)'
  BY <1>1, <1>5, ToldWSSendUserData
<1>6. QED
  BY <1>1, <1>2, <1>3, <1>4, <1>5, NeverForced DEF WSNext

(* Every step of a front end keeps Told.                                   *)
LEMMA FSStepTells ==
  ASSUME Around, FSStep, \A a \in Users : Kept(a), NEW v \in Users, Told(v)
  PROVE  Told(v)'
<1>1. FSNext /\ UNCHANGED <<dbVars, lsVars, wsVars, ssVars, latest>> /\ Kept(v)
  BY DEF FSStep
<1>2. ASSUME NEW f \in Fess,
             FSChooseShard(f) \/ FSDisconnectClient(f) \/ FSEnterShardOk(f) \/ FSChangeShardAns(f)
      PROVE  Told(v)'
  BY <1>1, <1>2, ToldFSChooseShard, ToldFSDisconnectClient, ToldFSEnterShardOk, ToldFSChangeShardAns
<1>3. ASSUME NEW f \in Fess,
             FSShardValidation(f) \/ FSInvalidCookie(f) \/ FSDisconnected(f) \/ FSRefreshPending(f)
      PROVE  Told(v)'
  BY <1>1, <1>3, ToldFSShardValidation, ToldFSInvalidCookie, ToldFSDisconnected, ToldFSRefreshPending
<1>4. QED
  BY <1>1, <1>2, <1>3 DEF FSNext

(* Every step of a client keeps Told.                                      *)
LEMMA ClientStepTells ==
  ASSUME Around, ClientStep, NEW v \in Users, Kept(v), Told(v)
  PROVE  Told(v)'
<1>1. /\ \/ \E u \in Users : ClientConnect(u)
         \/ \E f \in Fess, k \in Conns : ClientClose(f, k) \/ FSChangeShardReq(f, k)
      /\ UNCHANGED <<dbVars, lsVars, wsVars, ssVars, latest>>
  BY DEF ClientStep
<1>2. QED
  BY <1>1, ToldClientConnect, ToldClientClose, ToldFSChangeShardReq

(* Every step of the SS keeps Told.                                        *)
LEMMA SSStepTells ==
  ASSUME Around, SSStep, \A a \in Users : Kept(a), NEW v \in Users, Told(v)
  PROVE  Told(v)'
<1>1. SSNext /\ UNCHANGED <<dbVars, lsVars, wsVars, fsVars, latest>> /\ Kept(v)
  BY DEF SSStep
<1>2. CASE SSDisplayShardList \/ SSClientConnected \/ SSFailed
  BY <1>1, <1>2, ToldSSInformed
<1>3. ASSUME NEW u \in Users, SSUserAuth(u)
      PROVE  Told(v)'
  BY <1>1, <1>3, ToldSSUserAuth
<1>4. ASSUME NEW u \in Users, NEW n \in Logins, SSUserChooseShard(u, n) \/ SSUserDisconnection(u, n)
      PROVE  Told(v)'
  BY <1>1, <1>4, ToldSSUserChooseShard, ToldSSUserDisconnection
<1>5. \A u \in Users : ~SSAlreadyOnline(u) /\ \A n \in Logins : ~SSForceLogin(u, n)
  BY NoSecondLogin
<1>6. QED
  BY <1>1, <1>2, <1>3, <1>4, <1>5, NeverForced DEF SSNext

(* Every step of the system keeps Told, while the handover is kept.        *)
LEMMA NextTells ==
  ASSUME Around, Next, \A a \in Users : Kept(a), NEW v \in Users, Told(v)
  PROVE  Told(v)'
<1>1. Kept(v)
  OBVIOUS
<1>2. QED
  BY <1>1, LSStepTells, WSStepTells, FSStepTells, ClientStepTells, SSStepTells, ToldSSShardAnswer, ToldPlay DEF Next

-----------------------------------------------------------------------------
(* Whoever is recorded online has a session.                               *)

(* At first nobody has been told of.                                       *)
LEMMA ToldInit ==
  ASSUME Init, NEW u \in Users
  PROVE  Told(u)
<1>1. Flights = {} /\ JobFlights = {} /\ (\A A, B : Ordered(A, B))
  BY NothingAtFirst
<1>2. current[u] = NoShard /\ waiting[u] = Nowhere
  BY DEF Init, LSInit
<1>3. ASSUME NEW s \in Shards PROVE ~Led(u, s)
  <2>1. current[u] # s /\ waiting[u].s # s
    BY <1>2, NullsDistinct DEF Nowhere
  <2>2. QED
    BY <1>1, <2>1 DEF Led
<1>4. QED
  BY <1>1, <1>3 DEF Told, InTurn, Backed

(* A step that changes nothing keeps Told.                                 *)
LEMMA ToldIdle ==
  ASSUME UNCHANGED vars, NEW u \in Users, Told(u)
  PROVE  Told(u)'
<1>1. /\ UNCHANGED <<net, jobs, wsAssoc, conn>>
      /\ UNCHANGED <<current, waiting>>
  BY DEF vars, lsVars, wsVars, fsVars
<1>2. Flights' = Flights /\ JobFlights' = JobFlights /\ Gone(u)' = Gone(u)
  BY <1>1 DEF Flights, JobFlights, Sock, Gone
<1>3. Ordered(Reports(u, 0), Reports(u, 1)) => Ordered(Reports(u, 0), Reports(u, 1))'
  <2>1. StillNet(u)
    BY <1>1, StillUnsent
  <2>2. QED
    BY <2>1 DEF StillNet
<1>4. InTurn(u)'
  BY <1>2, <1>3 DEF Told, InTurn
<1>5. ASSUME NEW s \in Shards, Led(u, s)' PROVE Backs(u, s)'
  <2>1. Led(u, s)
    BY <1>1, <1>2, <1>5 DEF Led
  <2>2. Backs(u, s)
    BY <2>1 DEF Told, Backed
  <2>3. QED
    BY <1>1, <1>2, <2>2 DEF Backs
<1>6. QED
  BY <1>4, <1>5 DEF Told, Backed

(* Told is inductive beside HandoverInv.                                   *)
LEMMA TellsAlways ==
  ASSUME Settings, HandoverInv, HandoverInv', [Next]_vars, \A a \in Users : Told(a)
  PROVE  (\A a \in Users : Told(a))'
<1>1. CASE UNCHANGED vars
  BY <1>1, ToldIdle
<1>2. CASE Next
  <2>1. Around /\ \A a \in Users : Kept(a)
    BY DEF Around, HandoverInv
  <2>2. QED
    BY <1>2, <2>1, NextTells
<1>3. QED
  BY <1>1, <1>2

(* With nothing under way, a WS that has to back the LS holds the session. *)
LEMMA SettledSession ==
  ASSUME HandoverInv, \A a \in Users : Told(a), SessionsAreReal
  PROVE  OnlineHasSession
<1> SUFFICES ASSUME Settled, NEW u \in Users, dbOnline[u] # NoShard
             PROVE  \E f \in FesOf(dbOnline[u]) : assoc[f][u] # 0
  BY DEF OnlineHasSession
<1>1. dbOnline[u] = current[u]
  BY DEF HandoverInv, Kept, Stored
<1>2. PICK s \in Shards : s = dbOnline[u]
  BY DEF HandoverInv, TypeOK, NetTypeOK, LSTypeOK, ShardOrNone
<1>3. Backs(u, s)
  BY <1>1, <1>2 DEF Told, Backed, Led
<1>4. DOMAIN << >> = {}
  OBVIOUS
<1>5. (\A l \in Links : DOMAIN net[l] = {}) /\ (\A t \in Shards : DOMAIN jobs[t] = {})
  BY <1>4 DEF Settled
<1>6. (\A z \in Flights : FALSE) /\ (\A z \in JobFlights : FALSE)
  <2>1. ASSUME NEW z \in Flights PROVE FALSE
    BY <1>5 DEF Flights
  <2>2. ASSUME NEW z \in JobFlights PROVE FALSE
    BY <1>5 DEF JobFlights
  <2>3. QED
    BY <2>1, <2>2
<1>7. wsAssoc[s][u] # NoFes
  BY <1>3, <1>6 DEF Backs
<1>8. PICK f \in Fess : f = wsAssoc[s][u]
  BY <1>7 DEF HandoverInv, TypeOK, WSTypeOK, FesOrNone
<1>9. ShardOf[f] = s
  BY <1>7, <1>8 DEF HandoverInv, OfItsShard
<1>10. assoc[f][u] # 0
  BY <1>8, <1>9 DEF SessionsAreReal
<1>11. f \in FesOf(dbOnline[u])
  BY <1>2, <1>9 DEF FesOf
<1>12. QED
  BY <1>10, <1>11

(* OnlineHasSession: once nothing is in flight or queued, whoever the main *)
(* database records online on a shard has a session on a front end of that *)
(* shard, so that nobody is refused as already online when nobody is.      *)
(* Starts and ends of its sessions reach the LS in turn (InTurn), and what *)
(* the LS has recorded or is to record is backed by a session of the WS or *)
(* by the report of its end on the way (Backed); with nothing on the way,  *)
(* only the session is left.                                               *)
THEOREM OnlineAlwaysHasSession ==
  ASSUME Settings
  PROVE  Spec => []OnlineHasSession
<1> DEFINE TInv == \A a \in Users : Told(a)
<1>1. Init => TInv
  BY ToldInit
<1>2. HandoverInv /\ HandoverInv' /\ TInv /\ [Next]_vars => TInv'
  BY TellsAlways
<1>3. HandoverInv /\ TInv /\ SessionsAreReal => OnlineHasSession
  BY SettledSession
<1>4. QED
  BY <1>1, <1>2, <1>3, Handover, SessionsTheWSHoldsAreReal, PTL DEF Spec
=============================================================================
