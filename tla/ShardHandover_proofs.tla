------------------------ MODULE ShardHandover_proofs ------------------------
(***************************************************************************)
(* A user that changes from shard to shard, hop by hop: the state that is  *)
(* kept of every user (Kept), from where it is told of an address to the   *)
(* rooms it plays in and back, with its data on the way, and that each     *)
(* step of the LS, the WSs, the front ends, the clients and the SS keeps   *)
(* it. The steps are put together, and the theorems drawn, in              *)
(* ShardPromise_proofs. The invariant goes by what may be in flight about  *)
(* one user: what is ahead of it (Ahead: one message, from its request to  *)
(* its entry), what is behind it (EndsOn: the end of one session, from the *)
(* closed socket to the report con=0 to the LS), the copy of its data      *)
(* (Copies), and the end of its login (Kicks). Settings says when it       *)
(* holds; NoForce, ChangesToShards and OpenShown are what the system keeps *)
(* beside it.                                                              *)
(***************************************************************************)
EXTENDS ShardSession_proofs, WellFoundedInduction, NaturalsInduction

(* A set of numbers has a least one. *)
LEMMA LeastNat ==
  ASSUME NEW T \in SUBSET Nat, T # {}
  PROVE  \E n \in T : \A m \in T : n <= m
<1> DEFINE R == {ss \in Nat \X Nat : ss[1] < ss[2]}
<1>1. IsWellFoundedOn(R, Nat)
  BY NatLessThanWellFounded DEF OpToRel
<1>2. PICK n \in T : \A y \in T : ~(<<y, n>> \in R)
  <2> HIDE DEF R
  <2> QED BY <1>1, WFMin
<1>3. \A y \in T : y \in Nat /\ n \in Nat /\ ~(y < n)
  BY <1>2
<1>4. QED
  BY <1>3
(* A shard with front ends has a least loaded one. *)
LEMMA SomeBest ==
  ASSUME WSTyped, fesList = Fess, NEW s \in Shards, FesOf(s) # {}
  PROVE  Best(s) # {}
<1> DEFINE F == FesOf(s) \cap fesList
           T == {Load(f) : f \in F}
<1>1. F # {} /\ F \in SUBSET Fess
  BY DEF FesOf
<1>2. \A f \in Fess : Load(f) \in Nat
  BY DEF WSTyped, WSTypeOK, Load
<1>3. T \in SUBSET Nat /\ T # {}
  BY <1>1, <1>2
<1>4. PICK n \in T : \A m \in T : n <= m
  <2> HIDE DEF T
  <2> QED
    BY <1>3, LeastNat
<1>5. PICK f \in F : n = Load(f)
  BY <1>4
<1>6. \A g \in F : Load(f) <= Load(g)
  BY <1>4, <1>5
<1>7. QED
  BY <1>5, <1>6 DEF Best

(* Everything that could be in flight.                                     *)
Flying == Links \X Message
(* What is in flight: the messages with the links they are on. *)
Flights == UNION {{<<l, net[l][i]>> : i \in DOMAIN net[l]} : l \in Links}
(* At most one thing of K is in flight. *)
LoneIn(K) ==
  \A l, k \in Links : \A i \in DOMAIN net[l], j \in DOMAIN net[k] :
    <<l, net[l][i]>> \in K /\ <<k, net[k][j]>> \in K => l = k /\ i = j

(* What `me` sends with `outs`, with the links it is sent on. *)
Sent(me, outs) ==
  UNION {{<<<<me, n>>, outs[n][i]>> : i \in DOMAIN outs[n]} : n \in {k \in Nodes : <<me, k>> \in Links}}
(* At most one thing of K is sent. *)
LoneSent(me, outs, K) ==
  \A n, k \in Nodes : \A i \in DOMAIN outs[n], j \in DOMAIN outs[k] :
    <<<<me, n>>, outs[n][i]>> \in K /\ <<<<me, k>>, outs[k][j]>> \in K => n = k /\ i = j

(* A step that takes X out of flight and sends Y, seen from K. *)
Moves(X, Y, K) ==
  /\ \A z \in Flights' : z \in K => z \in Flights \/ z \in Y
  /\ LoneIn(K) /\ (\E z \in X : z \in K) => \A z \in Flights' : z \in K => z \in Y
  /\ LoneIn(K) /\ (\/ \A z \in Y : z \notin K
                   \/ \E z \in X : z \in K
                   \/ \A z \in Flights : z \notin K) => LoneIn(K)'

(* Every message of a link is in flight on it.                             *)
LEMMA FlightIs ==
  ASSUME NEW l \in Links, NEW i \in DOMAIN net[l]
  PROVE  <<l, net[l][i]>> \in Flights
BY DEF Flights

(* Whatever is in flight is at a place of a link.                          *)
LEMMA FlightHas ==
  ASSUME NEW z \in Flights
  PROVE  \E l \in Links : \E i \in DOMAIN net[l] : z = <<l, net[l][i]>>
BY DEF Flights

(* The message a handler takes is the first of its link, and in flight.    *)
LEMMA HeadFlies ==
  ASSUME NetTyped, NEW src, NEW me, <<src, me>> \in Links, NEW kind, Pending(src, me, kind)
  PROVE  /\ <<<<src, me>>, Head(net[<<src, me>>])>> \in Flights
         /\ 1 \in DOMAIN net[<<src, me>>]
         /\ Head(net[<<src, me>>]) = net[<<src, me>>][1]
         /\ Head(net[<<src, me>>]).kind = kind
         /\ Head(net[<<src, me>>]) \in Message
<1>1. net[<<src, me>>] \in Seq(Message) /\ net[<<src, me>>] # << >>
  BY DEF NetTyped, Pending
<1>2. 1 \in DOMAIN net[<<src, me>>] /\ Head(net[<<src, me>>]) = net[<<src, me>>][1]
      /\ Head(net[<<src, me>>]) \in Message
  BY <1>1, PositionsRead
<1>3. QED
  BY <1>2, FlightIs DEF Pending

(* From the positions to the things in flight. *)
LEMMA MovesBy ==
  ASSUME NetTyped, NetTyped', NEW me, NEW outs \in Outbox, NEW K, LoneSent(me, outs, K),
         NEW d \in [Links -> {0, 1}], Passes(d, me, outs),
         NEW X, \A z \in X : \E l \in Links : d[l] = 1 /\ 1 \in DOMAIN net[l] /\ z = <<l, net[l][1]>>
  PROVE  Moves(X, Sent(me, outs), K)
<1> DEFINE Y == Sent(me, outs)
<1>1. ASSUME NEW l \in Links, NEW i \in DOMAIN net'[l]
      PROVE  /\ i \in Nat \ {0} /\ d[l] \in {0, 1}
             /\ \/ i + d[l] \in DOMAIN net[l] /\ net'[l][i] = net[l][i + d[l]]
                \/ /\ l = <<me, l[2]>> /\ l[2] \in Nodes
                   /\ \E j \in DOMAIN outs[l[2]] : i = Len(net[l]) + j /\ net'[l][i] = outs[l[2]][j]
  <2>1. l = <<l[1], l[2]>> /\ l[2] \in Nodes
    BY LinksAre
  <2>2. QED
    BY <1>1, <2>1, PositionsTyped DEF Passes, NetTyped
<1>2. ASSUME NEW l \in Links, l = <<me, l[2]>>, l[2] \in Nodes, NEW j \in DOMAIN outs[l[2]]
      PROVE  <<l, outs[l[2]][j]>> \in Y
  BY <1>2 DEF Sent
<1>3. ASSUME NEW z \in Flights', z \in K PROVE z \in Flights \/ z \in Y
  <2>1. PICK l \in Links : \E i \in DOMAIN net'[l] : z = <<l, net'[l][i]>>
    BY <1>3 DEF Flights
  <2>2. PICK i \in DOMAIN net'[l] : z = <<l, net'[l][i]>>
    BY <2>1
  <2>3. CASE i + d[l] \in DOMAIN net[l] /\ net'[l][i] = net[l][i + d[l]]
    BY <2>2, <2>3, FlightIs
  <2>4. CASE /\ l = <<me, l[2]>> /\ l[2] \in Nodes
             /\ \E j \in DOMAIN outs[l[2]] : i = Len(net[l]) + j /\ net'[l][i] = outs[l[2]][j]
    BY <2>2, <2>4, <1>2
  <2>5. QED
    BY <1>1, <2>3, <2>4
<1>4. ASSUME LoneIn(K), NEW x \in X, x \in K, NEW l \in Links, NEW i \in DOMAIN net'[l],
             <<l, net'[l][i]>> \in K
      PROVE  ~(i + d[l] \in DOMAIN net[l] /\ net'[l][i] = net[l][i + d[l]])
  <2>1. PICK k \in Links : d[k] = 1 /\ 1 \in DOMAIN net[k] /\ x = <<k, net[k][1]>>
    OBVIOUS
  <2>2. SUFFICES ASSUME i + d[l] \in DOMAIN net[l], net'[l][i] = net[l][i + d[l]] PROVE FALSE
    OBVIOUS
  <2>3. l = k /\ i + d[l] = 1
    BY <1>4, <2>1, <2>2 DEF LoneIn
  <2>4. QED
    BY <1>1, <2>1, <2>3
<1>5. ASSUME LoneIn(K), \E z \in X : z \in K, NEW z \in Flights', z \in K PROVE z \in Y
  <2>1. PICK l \in Links : \E i \in DOMAIN net'[l] : z = <<l, net'[l][i]>>
    BY <1>5 DEF Flights
  <2>2. PICK i \in DOMAIN net'[l] : z = <<l, net'[l][i]>>
    BY <2>1
  <2>3. ~(i + d[l] \in DOMAIN net[l] /\ net'[l][i] = net[l][i + d[l]])
    BY <1>4, <1>5, <2>2
  <2>4. QED
    BY <1>1, <1>2, <2>2, <2>3
<1>6. ASSUME LoneIn(K), \/ \A z \in Y : z \notin K
                        \/ \E z \in X : z \in K
                        \/ \A z \in Flights : z \notin K,
             NEW l \in Links, NEW k \in Links, NEW i \in DOMAIN net'[l], NEW j \in DOMAIN net'[k],
             <<l, net'[l][i]>> \in K, <<k, net'[k][j]>> \in K
      PROVE  l = k /\ i = j
  <2>1. CASE /\ i + d[l] \in DOMAIN net[l] /\ net'[l][i] = net[l][i + d[l]]
             /\ j + d[k] \in DOMAIN net[k] /\ net'[k][j] = net[k][j + d[k]]
    <3>1. l = k /\ i + d[l] = j + d[k]
      BY <1>6, <2>1 DEF LoneIn
    <3>2. QED
      BY <1>1, <3>1
  <2>2. CASE /\ l = <<me, l[2]>> /\ l[2] \in Nodes
             /\ \E n \in DOMAIN outs[l[2]] : i = Len(net[l]) + n /\ net'[l][i] = outs[l[2]][n]
             /\ k = <<me, k[2]>> /\ k[2] \in Nodes
             /\ \E n \in DOMAIN outs[k[2]] : j = Len(net[k]) + n /\ net'[k][j] = outs[k[2]][n]
    <3>1. PICK n \in DOMAIN outs[l[2]] : i = Len(net[l]) + n /\ net'[l][i] = outs[l[2]][n]
      BY <2>2
    <3>2. PICK p \in DOMAIN outs[k[2]] : j = Len(net[k]) + p /\ net'[k][j] = outs[k[2]][p]
      BY <2>2
    <3>0. <<<<me, l[2]>>, outs[l[2]][n]>> \in K /\ <<<<me, k[2]>>, outs[k[2]][p]>> \in K
      BY <1>6, <2>2, <3>1, <3>2
    <3>3. l[2] = k[2] /\ n = p
      BY <2>2, <3>0 DEF LoneSent
    <3>4. QED
      BY <2>2, <3>1, <3>2, <3>3
  <2>3. ASSUME NEW a \in Links, NEW m \in DOMAIN net'[a], <<a, net'[a][m]>> \in K,
               NEW b \in Links, NEW n \in DOMAIN net'[b], <<b, net'[b][n]>> \in K,
               m + d[a] \in DOMAIN net[a], net'[a][m] = net[a][m + d[a]],
               b = <<me, b[2]>>, b[2] \in Nodes,
               \E p \in DOMAIN outs[b[2]] : n = Len(net[b]) + p /\ net'[b][n] = outs[b[2]][p]
        PROVE  FALSE
    <3>1. ~(\E z \in X : z \in K)
      BY <1>4, <1>6, <2>3
    <3>2. <<b, net'[b][n]>> \in Y
      BY <1>2, <2>3
    <3>3. <<a, net'[a][m]>> \in Flights
      BY <2>3, FlightIs
    <3>4. QED
      BY <1>6, <2>3, <3>1, <3>2, <3>3
  <2>4. QED
    <3>1. CASE i + d[l] \in DOMAIN net[l] /\ net'[l][i] = net[l][i + d[l]]
      <4>1. \/ j + d[k] \in DOMAIN net[k] /\ net'[k][j] = net[k][j + d[k]]
            \/ /\ k = <<me, k[2]>> /\ k[2] \in Nodes
               /\ \E n \in DOMAIN outs[k[2]] : j = Len(net[k]) + n /\ net'[k][j] = outs[k[2]][n]
        BY <1>1
      <4>2. QED
        BY <1>6, <2>1, <2>3, <3>1, <4>1
    <3>2. CASE /\ l = <<me, l[2]>> /\ l[2] \in Nodes
               /\ \E n \in DOMAIN outs[l[2]] : i = Len(net[l]) + n /\ net'[l][i] = outs[l[2]][n]
      <4>1. \/ j + d[k] \in DOMAIN net[k] /\ net'[k][j] = net[k][j + d[k]]
            \/ /\ k = <<me, k[2]>> /\ k[2] \in Nodes
               /\ \E n \in DOMAIN outs[k[2]] : j = Len(net[k]) + n /\ net'[k][j] = outs[k[2]][n]
        BY <1>1
      <4>2. QED
        BY <1>6, <2>2, <2>3, <3>2, <4>1
    <3>3. QED
      BY <1>1, <3>1, <3>2
<1>7. LoneIn(K) /\ (\/ \A z \in Y : z \notin K
                    \/ \E z \in X : z \in K
                    \/ \A z \in Flights : z \notin K) => LoneIn(K)'
  BY <1>6 DEF LoneIn
<1>8. QED
  BY <1>3, <1>5, <1>7 DEF Moves

(* A handler that takes a message removes it from flight, and what it      *)
(* sends is all that is new.                                               *)
LEMMA ReceiveMoves ==
  ASSUME NetTyped, NetTyped', NEW src, NEW me, <<src, me>> \in Links, NEW kind, Pending(src, me, kind),
         NEW outs \in Outbox, Receive(src, me, outs), NEW K, LoneSent(me, outs, K)
  PROVE  Moves({<<<<src, me>>, Head(net[<<src, me>>])>>}, Sent(me, outs), K)
<1> DEFINE d == [l \in Links |-> IF l = <<src, me>> THEN 1 ELSE 0]
           X == {<<<<src, me>>, Head(net[<<src, me>>])>>}
<1>1. net[<<src, me>>] # << >>
  BY DEF Pending
<1>2. d \in [Links -> {0, 1}] /\ Passes(d, me, outs)
  <2> DEFINE e == d
  <2>1. e = [l \in Links |-> IF l = <<src, me>> THEN 1 ELSE 0]
    OBVIOUS
  <2> HIDE DEF d, e
  <2>2. e \in [Links -> {0, 1}] /\ Passes(e, me, outs)
    BY <1>1, <2>1, ReceivePasses
  <2>3. QED
    BY <2>2 DEF e
<1>3. \A z \in X : \E l \in Links : d[l] = 1 /\ 1 \in DOMAIN net[l] /\ z = <<l, net[l][1]>>
  BY HeadFlies
<1> HIDE DEF d, X
<1>4. Moves(X, Sent(me, outs), K)
  BY <1>2, <1>3, MovesBy
<1>5. QED
  BY <1>4 DEF X

(* A step that only sends removes nothing from flight.                     *)
LEMMA EmitMoves ==
  ASSUME NetTyped, NetTyped', NEW me, NEW outs \in Outbox, Emit(me, outs), NEW K, LoneSent(me, outs, K)
  PROVE  Moves({}, Sent(me, outs), K)
<1> DEFINE d == [l \in Links |-> 0]
<1>2. d \in [Links -> {0, 1}] /\ Passes(d, me, outs)
  <2> DEFINE e == d
  <2>1. e = [l \in Links |-> 0]
    OBVIOUS
  <2> HIDE DEF d, e
  <2>2. e \in [Links -> {0, 1}] /\ Passes(e, me, outs)
    BY <2>1, EmitPasses
  <2>3. QED
    BY <2>2 DEF e
<1> HIDE DEF d
<1>3. QED
  BY <1>2, MovesBy

(* Links that do not change leave what is in flight.                       *)
LEMMA StillMoves ==
  ASSUME net' = net, NEW K
  PROVE  Moves({}, {}, K)
BY DEF Moves, Flights, LoneIn

(* Silence sends nothing.                                                  *)
LEMMA SentSilent ==
  ASSUME NEW me, NEW K
  PROVE  Sent(me, Silent) = {} /\ LoneSent(me, Silent, K)
<1>1. \A n \in Nodes : Silent[n] = << >> /\ DOMAIN Silent[n] = {}
  BY DEF Silent
<1>2. QED
  BY <1>1 DEF Sent, LoneSent

(* One message sent is that message, on the link to its service.           *)
LEMMA SentTo ==
  ASSUME NEW me, NEW n, NEW m, NEW K
  PROVE  /\ \A z \in Sent(me, To(n, m)) : z = <<<<me, n>>, m>> /\ <<me, n>> \in Links
         /\ LoneSent(me, To(n, m), K)
<1>1. \A k \in Nodes : To(n, m)[k] = IF k = n THEN <<m>> ELSE << >>
  BY DEF To, Silent
<1>2. \A k \in Nodes : \A i \in DOMAIN To(n, m)[k] : k = n /\ i = 1 /\ To(n, m)[k][i] = m
  <2> SUFFICES ASSUME NEW k \in Nodes, NEW i \in DOMAIN To(n, m)[k]
               PROVE  k = n /\ i = 1 /\ To(n, m)[k][i] = m
    OBVIOUS
  <2>1. To(n, m)[k] = IF k = n THEN <<m>> ELSE << >>
    BY <1>1
  <2>2. CASE k = n
    BY <2>1, <2>2
  <2>3. CASE k # n
    BY <2>1, <2>3
  <2>4. QED
    BY <2>2, <2>3
<1>3. QED
  BY <1>2 DEF Sent, LoneSent

(* What an outbox sends is one of its messages, on a link.                 *)
LEMMA SentHas ==
  ASSUME NEW me, NEW outs, NEW z \in Sent(me, outs)
  PROVE  \E n \in Nodes : /\ <<me, n>> \in Links
                          /\ \E i \in DOMAIN outs[n] : z = <<<<me, n>>, outs[n][i]>>
BY DEF Sent

(* Every message of an outbox that has a link is sent.                     *)
LEMMA SentIs ==
  ASSUME NEW me, NEW outs, NEW n \in Nodes, <<me, n>> \in Links, NEW i \in DOMAIN outs[n]
  PROVE  <<<<me, n>>, outs[n][i]>> \in Sent(me, outs)
BY DEF Sent

(* Two outboxes sent together send what each of them sends, and one lone   *)
(* message if only one of them has one.                                    *)
LEMMA SentBoth ==
  ASSUME NEW me, NEW a \in Outbox, NEW b \in Outbox, NEW K,
         LoneSent(me, a, K), LoneSent(me, b, K),
         \/ \A z \in Sent(me, a) : z \notin K
         \/ \A z \in Sent(me, b) : z \notin K,
         K \subseteq Flying
  PROVE  /\ \A z \in Sent(me, a \oplus b) : z \in Sent(me, a) \/ z \in Sent(me, b)
         /\ LoneSent(me, a \oplus b, K)
<1>1. ASSUME NEW n \in Nodes, NEW i \in DOMAIN (a \oplus b)[n]
      PROVE  /\ a[n] \in Seq(Message) /\ Len(a[n]) \in Nat
             /\ \/ i \in DOMAIN a[n] /\ (a \oplus b)[n][i] = a[n][i]
                \/ \E j \in DOMAIN b[n] : i = Len(a[n]) + j /\ (a \oplus b)[n][i] = b[n][j]
  <2> DEFINE p == a[n]
             q == b[n]
  <2>1. (a \oplus b)[n] = p \o q /\ p \in Seq(Message) /\ q \in Seq(Message)
    BY DEF \oplus, Outbox
  <2> HIDE DEF p, q
  <2>3. i \in DOMAIN (p \o q)
    BY <1>1, <2>1
  <2>4. \/ i + 0 \in DOMAIN p /\ (p \o q)[i] = p[i + 0]
        \/ \E j \in DOMAIN q : i = Len(p) + j /\ (p \o q)[i] = q[j]
    BY <2>1, <2>3, SentPasses
  <2>5. (p \o q) \in Seq(Message) /\ i \in Nat
    BY <2>1, <2>3, ConcatProperties, LenProperties
  <2>6. Len(p) \in Nat /\ (\/ i \in DOMAIN p /\ (p \o q)[i] = p[i]
        \/ \E j \in DOMAIN q : i = Len(p) + j /\ (p \o q)[i] = q[j])
    BY <2>1, <2>4, <2>5, LenProperties
  <2>7. QED
    BY <2>1, <2>6 DEF p, q
<1>2. ASSUME NEW z \in Sent(me, a \oplus b) PROVE z \in Sent(me, a) \/ z \in Sent(me, b)
  <2>1. PICK n \in Nodes : /\ <<me, n>> \in Links
                           /\ \E i \in DOMAIN (a \oplus b)[n] : z = <<<<me, n>>, (a \oplus b)[n][i]>>
    BY SentHas
  <2>2. PICK i \in DOMAIN (a \oplus b)[n] : z = <<<<me, n>>, (a \oplus b)[n][i]>>
    BY <2>1
  <2>3. QED
    BY <1>1, <2>1, <2>2, SentIs
<1>3. ASSUME NEW n \in Nodes, NEW k \in Nodes, NEW i \in DOMAIN (a \oplus b)[n],
             NEW j \in DOMAIN (a \oplus b)[k],
             <<<<me, n>>, (a \oplus b)[n][i]>> \in K, <<<<me, k>>, (a \oplus b)[k][j]>> \in K
      PROVE  n = k /\ i = j
  <2>1. <<me, n>> \in Links /\ <<me, k>> \in Links
    BY <1>3 DEF Flying
  <2>2. CASE \A z \in Sent(me, a) : z \notin K
    <3>1. /\ \E p \in DOMAIN b[n] : i = Len(a[n]) + p /\ (a \oplus b)[n][i] = b[n][p]
          /\ \E p \in DOMAIN b[k] : j = Len(a[k]) + p /\ (a \oplus b)[k][j] = b[k][p]
      BY <1>1, <1>3, <2>1, <2>2, SentIs
    <3>2. PICK p \in DOMAIN b[n] : i = Len(a[n]) + p /\ (a \oplus b)[n][i] = b[n][p]
      BY <3>1
    <3>3. PICK q \in DOMAIN b[k] : j = Len(a[k]) + q /\ (a \oplus b)[k][j] = b[k][q]
      BY <3>1
    <3>6. <<<<me, n>>, b[n][p]>> \in K /\ <<<<me, k>>, b[k][q]>> \in K
      BY <1>3, <3>2, <3>3
    <3>4. n = k /\ p = q
      BY <3>6 DEF LoneSent
    <3>5. QED
      BY <3>2, <3>3, <3>4
  <2>3. CASE \A z \in Sent(me, b) : z \notin K
    <3>1. /\ i \in DOMAIN a[n] /\ (a \oplus b)[n][i] = a[n][i]
          /\ j \in DOMAIN a[k] /\ (a \oplus b)[k][j] = a[k][j]
      BY <1>1, <1>3, <2>1, <2>3, SentIs
    <3>2. QED
      BY <1>3, <3>1 DEF LoneSent
  <2>4. QED
    BY <2>2, <2>3
<1>4. QED
  BY <1>2, <1>3 DEF LoneSent

(* The queries that wait for a WS's database threads. *)
JobFlights == UNION {{<<s, jobs[s][i]>> : i \in DOMAIN jobs[s]} : s \in Shards}
LoneJob(K) ==
  \A s, t \in Shards : \A i \in DOMAIN jobs[s], j \in DOMAIN jobs[t] :
    <<s, jobs[s][i]>> \in K /\ <<t, jobs[t][j]>> \in K => s = t /\ i = j
JobsMove(X, Y, K) ==
  /\ \A z \in JobFlights' : z \in K => z \in JobFlights \/ z \in Y
  /\ LoneJob(K) /\ (\E z \in X : z \in K) => \A z \in JobFlights' : z \in K => z \in Y
  /\ LoneJob(K) /\ (\/ \A z \in Y : z \notin K
                    \/ \E z \in X : z \in K
                    \/ \A z \in JobFlights : z \notin K) => LoneJob(K)'

(* Every query of a queue is under way.                                    *)
LEMMA JobFlies ==
  ASSUME NEW s \in Shards, NEW i \in DOMAIN jobs[s]
  PROVE  <<s, jobs[s][i]>> \in JobFlights
BY DEF JobFlights

(* Queues that do not change leave the queries under way.                  *)
LEMMA JobsStill ==
  ASSUME jobs' = jobs, NEW K
  PROVE  JobsMove({}, {}, K)
BY DEF JobsMove, JobFlights, LoneJob

(* One more query, at position n of s, or one less: g tells where those    *)
(* that are left were.                                                     *)
Added(s, n, j) ==
  \A t \in Shards : \A i \in DOMAIN jobs'[t] :
    \/ i \in DOMAIN jobs[t] /\ jobs'[t][i] = jobs[t][i]
    \/ t = s /\ i = n /\ jobs'[t][i] = j
Removed(s, n, g) ==
  \A t \in Shards : \A i \in DOMAIN jobs'[t] :
    /\ g[t, i] \in DOMAIN jobs[t] /\ jobs'[t][i] = jobs[t][g[t, i]]
    /\ ~(t = s /\ g[t, i] = n)
    /\ \A k \in DOMAIN jobs'[t] : g[t, i] = g[t, k] => i = k

(* A queue that grows by one query has that one more under way.            *)
LEMMA JobsMore ==
  ASSUME NEW s, NEW n, NEW j, NEW K, Added(s, n, j)
  PROVE  JobsMove({}, {<<s, j>>}, K)
<1>4. ASSUME NEW z \in JobFlights', z \in K PROVE z \in JobFlights \/ z \in {<<s, j>>}
  <2>1. PICK t \in Shards : \E i \in DOMAIN jobs'[t] : z = <<t, jobs'[t][i]>>
    BY <1>4 DEF JobFlights
  <2>2. PICK i \in DOMAIN jobs'[t] : z = <<t, jobs'[t][i]>>
    BY <2>1
  <2>3. QED
    BY <2>2, JobFlies DEF Added
<1>5. ASSUME LoneJob(K), <<s, j>> \notin K \/ (\A z \in JobFlights : z \notin K),
             NEW a \in Shards, NEW b \in Shards, NEW i \in DOMAIN jobs'[a], NEW k \in DOMAIN jobs'[b],
             <<a, jobs'[a][i]>> \in K, <<b, jobs'[b][k]>> \in K
      PROVE  a = b /\ i = k
  <2>1. CASE <<s, j>> \notin K
    <3>1. i \in DOMAIN jobs[a] /\ jobs'[a][i] = jobs[a][i] /\ k \in DOMAIN jobs[b] /\ jobs'[b][k] = jobs[b][k]
      BY <1>5, <2>1 DEF Added
    <3>2. QED
      BY <1>5, <3>1 DEF LoneJob
  <2>2. CASE \A z \in JobFlights : z \notin K
    <3>1. ~(i \in DOMAIN jobs[a] /\ jobs'[a][i] = jobs[a][i])
      BY <1>5, <2>2, JobFlies
    <3>2. ~(k \in DOMAIN jobs[b] /\ jobs'[b][k] = jobs[b][k])
      BY <1>5, <2>2, JobFlies
    <3>3. QED
      BY <3>1, <3>2 DEF Added
  <2>3. QED
    BY <1>5, <2>1, <2>2
<1>6. LoneJob(K) /\ (\/ \A z \in {<<s, j>>} : z \notin K
                     \/ \E z \in {} : z \in K
                     \/ \A z \in JobFlights : z \notin K) => LoneJob(K)'
  BY <1>5 DEF LoneJob
<1>7. QED
  BY <1>4, <1>6 DEF JobsMove

(* A queue that loses one query has that one fewer under way.              *)
LEMMA JobsFewer ==
  ASSUME NEW s \in Shards, NEW n \in DOMAIN jobs[s], NEW K, NEW g, Removed(s, n, g)
  PROVE  JobsMove({<<s, jobs[s][n]>>}, {}, K)
<1>4. \A z \in JobFlights' : \E t \in Shards : \E i \in DOMAIN jobs'[t] : z = <<t, jobs'[t][i]>>
  BY DEF JobFlights
<1>5. ASSUME NEW z \in JobFlights' PROVE z \in JobFlights
  <2>1. PICK t \in Shards : \E i \in DOMAIN jobs'[t] : z = <<t, jobs'[t][i]>>
    BY <1>4
  <2>2. PICK i \in DOMAIN jobs'[t] : z = <<t, jobs'[t][i]>>
    BY <2>1
  <2>3. QED
    BY <2>2, JobFlies DEF Removed
<1>6. ASSUME LoneJob(K), <<s, jobs[s][n]>> \in K, NEW z \in JobFlights', z \in K PROVE FALSE
  <2>1. PICK t \in Shards : \E i \in DOMAIN jobs'[t] : z = <<t, jobs'[t][i]>>
    BY <1>4
  <2>2. PICK i \in DOMAIN jobs'[t] : z = <<t, jobs'[t][i]>>
    BY <2>1
  <2>3. <<t, jobs[t][g[t, i]]>> \in K /\ g[t, i] \in DOMAIN jobs[t]
    BY <1>6, <2>2 DEF Removed
  <2>4. t = s /\ g[t, i] = n
    BY <1>6, <2>3 DEF LoneJob
  <2>5. QED
    BY <2>4 DEF Removed
<1>7. ASSUME LoneJob(K), NEW a \in Shards, NEW b \in Shards,
             NEW i \in DOMAIN jobs'[a], NEW k \in DOMAIN jobs'[b],
             <<a, jobs'[a][i]>> \in K, <<b, jobs'[b][k]>> \in K
      PROVE  a = b /\ i = k
  <2>1. /\ <<a, jobs[a][g[a, i]]>> \in K /\ g[a, i] \in DOMAIN jobs[a]
        /\ <<b, jobs[b][g[b, k]]>> \in K /\ g[b, k] \in DOMAIN jobs[b]
    BY <1>7 DEF Removed
  <2>2. a = b /\ g[a, i] = g[b, k]
    BY <1>7, <2>1 DEF LoneJob
  <2>3. QED
    BY <2>2 DEF Removed
<1>8. LoneJob(K) => LoneJob(K)'
  BY <1>7 DEF LoneJob
<1>9. QED
  BY <1>5, <1>6, <1>8 DEF JobsMove

(* Queued adds one query.                                                  *)
LEMMA QueuedMoves ==
  ASSUME jobs \in [Shards -> Seq(Job)], NEW s \in Shards, NEW job, NEW u, NEW to,
         [job |-> job, u |-> u, to |-> to] \in Job,
         jobs' = Queued(s, job, u, to), NEW K
  PROVE  JobsMove({}, {<<s, [job |-> job, u |-> u, to |-> to]>>}, K)
<1> DEFINE j == [job |-> job, u |-> u, to |-> to]
<1>1. /\ jobs'[s] = Append(jobs[s], j) /\ jobs[s] \in Seq(Job)
      /\ \A t \in Shards : t # s => jobs'[t] = jobs[t]
  BY DEF Queued
<1>2. /\ Len(jobs[s]) \in Nat /\ DOMAIN jobs[s] = 1..Len(jobs[s])
      /\ DOMAIN jobs'[s] = 1..(Len(jobs[s]) + 1)
      /\ jobs'[s][Len(jobs[s]) + 1] = j
      /\ \A i \in DOMAIN jobs[s] : jobs'[s][i] = jobs[s][i]
  <2> DEFINE q == jobs[s]
  <2>1. q \in Seq(Job) /\ j \in Job
    BY <1>1
  <2> HIDE DEF q, j
  <2>2. Len(q) \in Nat /\ DOMAIN q = 1..Len(q)
    BY <2>1, LenProperties
  <2>3. /\ DOMAIN Append(q, j) = 1..(Len(q) + 1) /\ Append(q, j)[Len(q) + 1] = j
        /\ \A i \in 1..Len(q) : Append(q, j)[i] = q[i]
    BY <2>1, <2>2, AppendProperties
  <2>4. QED
    BY <1>1, <2>2, <2>3 DEF q
<1> DEFINE n == Len(jobs[s]) + 1
<1>3. ASSUME NEW t \in Shards, NEW i \in DOMAIN jobs'[t]
      PROVE  \/ i \in DOMAIN jobs[t] /\ jobs'[t][i] = jobs[t][i]
             \/ t = s /\ i = n /\ jobs'[t][i] = j
  <2>1. CASE t = s
    <3>1. i \in DOMAIN jobs[s] \/ i = n
      BY <1>2, <1>3, <2>1
    <3>2. QED
      BY <1>2, <2>1, <3>1
  <2>2. CASE t # s
    BY <1>1, <1>3, <2>2
  <2>3. QED
    BY <2>1, <2>2
<1> HIDE DEF n, j
<1>6. Added(s, n, j)
  BY <1>3 DEF Added
<1>4. JobsMove({}, {<<s, j>>}, K)
  BY <1>6, JobsMore
<1>5. QED
  BY <1>4 DEF j

(* A query taken out of the middle of a queue. *)
Without(q, i) == SubSeq(q, 1, i - 1) \o SubSeq(q, i + 1, Len(q))
(* What is left of a queue without one element is what it held, each at    *)
(* its place or one further.                                               *)
LEMMA TakenOut ==
  ASSUME NEW S, NEW q \in Seq(S), NEW i \in DOMAIN q, NEW j \in DOMAIN Without(q, i)
  PROVE  /\ j \in Nat
         /\ \/ j < i /\ j \in DOMAIN q /\ Without(q, i)[j] = q[j]
            \/ j >= i /\ j + 1 \in DOMAIN q /\ Without(q, i)[j] = q[j + 1]
<1>1. Len(q) \in Nat /\ DOMAIN q = 1..Len(q) /\ i \in 1..Len(q)
  BY LenProperties
<1> DEFINE a == SubSeq(q, 1, i - 1)
           b == SubSeq(q, i + 1, Len(q))
<1>2. /\ a \in Seq(S) /\ Len(a) = IF 1 <= i - 1 THEN (i - 1) - 1 + 1 ELSE 0
      /\ \A k \in 1..((i - 1) - 1 + 1) : a[k] = q[1 + k - 1]
  <2>1. 1 \in Int /\ i - 1 \in Int
    BY <1>1
  <2>2. \A k \in 1..(i - 1) : q[k] \in S
    BY <1>1, ElementOfSeq
  <2>3. QED
    BY <2>1, <2>2, SubSeqProperties
<1>3. /\ b \in Seq(S) /\ Len(b) = IF i + 1 <= Len(q) THEN Len(q) - (i + 1) + 1 ELSE 0
      /\ \A k \in 1..(Len(q) - (i + 1) + 1) : b[k] = q[(i + 1) + k - 1]
  <2>1. i + 1 \in Int /\ Len(q) \in Int
    BY <1>1
  <2>2. \A k \in (i + 1)..Len(q) : q[k] \in S
    BY <1>1, ElementOfSeq
  <2>3. QED
    BY <2>1, <2>2, SubSeqProperties
<1> DEFINE r == a \o b
<1>8. SUFFICES \A m \in DOMAIN r : /\ m \in Nat
                                   /\ \/ m < i /\ m \in DOMAIN q /\ r[m] = q[m]
                                      \/ m >= i /\ m + 1 \in DOMAIN q /\ r[m] = q[m + 1]
  BY DEF Without
<1> HIDE DEF a, b, r
<1>4. Len(a) = i - 1 /\ \A k \in 1..(i - 1) : a[k] = q[k]
  BY <1>1, <1>2
<1>5. Len(b) = Len(q) - i
  BY <1>1, <1>3
<1>6. \A k \in 1..(Len(q) - i) : b[k] = q[i + k]
  <2> SUFFICES ASSUME NEW k \in 1..(Len(q) - i) PROVE b[k] = q[i + k]
    OBVIOUS
  <2> DEFINE n == Len(q)
  <2>0. n \in Nat /\ i \in Nat /\ k \in 1..(n - i)
    BY <1>1
  <2> HIDE DEF n
  <2>3. k \in 1..(n - (i + 1) + 1) /\ (i + 1) + k - 1 = i + k
    BY <2>0
  <2>1. k \in 1..(Len(q) - (i + 1) + 1) /\ (i + 1) + k - 1 = i + k
    BY <2>3 DEF n
  <2>2. QED
    BY <1>3, <2>1
<1>9. /\ r \in Seq(S) /\ Len(r) = Len(a) + Len(b)
      /\ \A k \in 1..(Len(a) + Len(b)) : r[k] = IF k <= Len(a) THEN a[k] ELSE b[k - Len(a)]
  BY <1>2, <1>3, ConcatProperties DEF r
<1>7. ASSUME NEW m \in DOMAIN r
      PROVE  /\ m \in Nat
             /\ \/ m < i /\ m \in DOMAIN q /\ r[m] = q[m]
                \/ m >= i /\ m + 1 \in DOMAIN q /\ r[m] = q[m + 1]
  <2>13. DOMAIN r = 1..Len(r)
    BY <1>9, LenProperties
  <2>14. m \in 1..(Len(q) - 1)
    BY <1>1, <1>4, <1>5, <1>9, <2>13
  <2>15. CASE m < i
    <3>1. m \in 1..(i - 1) /\ r[m] = a[m] /\ a[m] = q[m]
      BY <1>1, <1>4, <1>5, <1>9, <2>13, <2>14, <2>15
    <3>2. QED
      BY <1>1, <2>14, <2>15, <3>1
  <2>16. CASE m >= i
    <3> DEFINE k == m - (i - 1)
    <3>1. k \in 1..(Len(q) - i) /\ r[m] = b[k] /\ i + k = m + 1
      BY <1>1, <1>4, <1>5, <1>9, <2>13, <2>14, <2>16
    <3>2. b[k] = q[i + k]
      BY <1>6, <3>1
    <3>3. m + 1 \in 1..Len(q)
      BY <1>1, <2>14
    <3>4. QED
      BY <1>1, <2>14, <2>16, <3>1, <3>2, <3>3
  <2>4. QED
    BY <1>1, <2>14, <2>15, <2>16
<1>10. QED
  BY <1>7

(* Where the i-th query was, when the n-th of its queue is gone. *)
Behind(n, i) == IF i >= n THEN i + 1 ELSE i
(* Behind maps the places that are left to those they had before, one to   *)
(* one.                                                                    *)
LEMMA BehindIs ==
  ASSUME NEW n \in Nat, NEW i \in Nat
  PROVE  /\ Behind(n, i) # n
         /\ \A k \in Nat : Behind(n, i) = Behind(n, k) => i = k
         /\ i < n => Behind(n, i) = i
         /\ i >= n => Behind(n, i) = i + 1
BY DEF Behind

(* A query that is left is one of before, at the place Behind gives.       *)
LEMMA TakenIs ==
  ASSUME jobs \in [Shards -> Seq(Job)], NEW s \in Shards, NEW n \in DOMAIN jobs[s],
         jobs' = [jobs EXCEPT ![s] = SubSeq(@, 1, n - 1) \o SubSeq(@, n + 1, Len(@))],
         NEW t \in Shards, NEW i \in DOMAIN jobs'[t]
  PROVE  /\ i \in Nat /\ n \in Nat
         /\ t = s => Behind(n, i) \in DOMAIN jobs[t] /\ jobs'[t][i] = jobs[t][Behind(n, i)]
         /\ t # s => i \in DOMAIN jobs[t] /\ jobs'[t][i] = jobs[t][i]
<1>0. jobs[s] \in Seq(Job) /\ jobs[t] \in Seq(Job) /\ n \in Nat
  BY LenProperties
<1>1. CASE t = s
  <2> DEFINE q == jobs[s]
             r == Without(q, n)
  <2>1. jobs'[s] = r /\ q \in Seq(Job) /\ n \in DOMAIN q /\ i \in DOMAIN r
    BY <1>0, <1>1 DEF Without
  <2>2. i \in Nat /\ (\/ i < n /\ i \in DOMAIN q /\ r[i] = q[i]
                      \/ i >= n /\ i + 1 \in DOMAIN q /\ r[i] = q[i + 1])
    <3> HIDE DEF q
    <3> QED
      BY <2>1, TakenOut
  <2> HIDE DEF r, q
  <2>3. Behind(n, i) \in DOMAIN q /\ r[i] = q[Behind(n, i)]
    BY <1>0, <2>2, BehindIs
  <2>4. QED
    BY <1>0, <1>1, <2>1, <2>2, <2>3 DEF q
<1>2. CASE t # s
  <2>1. jobs'[t] = jobs[t]
    BY <1>2
  <2>2. QED
    BY <1>0, <1>2, <2>1, LenProperties
<1>3. QED
  BY <1>1, <1>2
TakenFrom(s, n) ==
  \A t \in Shards : \A i \in DOMAIN jobs'[t] :
    /\ i \in Nat /\ n \in Nat
    /\ t = s => Behind(n, i) \in DOMAIN jobs[t] /\ jobs'[t][i] = jobs[t][Behind(n, i)]
    /\ t # s => i \in DOMAIN jobs[t] /\ jobs'[t][i] = jobs[t][i]

(* Taking a query from a queue removes just that one.                      *)
LEMMA TakenMovesBy ==
  ASSUME jobs \in [Shards -> Seq(Job)], NEW s \in Shards, NEW n \in DOMAIN jobs[s],
         TakenFrom(s, n), NEW K
  PROVE  JobsMove({<<s, jobs[s][n]>>}, {}, K)
<1> DEFINE g == [x \in Shards \X Nat |-> IF x[1] = s THEN Behind(n, x[2]) ELSE x[2]]
<1>2. ASSUME NEW t \in Shards, NEW i \in DOMAIN jobs'[t]
      PROVE  g[t, i] = IF t = s THEN Behind(n, i) ELSE i
  BY <1>2 DEF TakenFrom
<1> HIDE DEF g
<1>3. ASSUME NEW t \in Shards, NEW i \in DOMAIN jobs'[t]
      PROVE  /\ g[t, i] \in DOMAIN jobs[t] /\ jobs'[t][i] = jobs[t][g[t, i]]
             /\ ~(t = s /\ g[t, i] = n)
             /\ \A k \in DOMAIN jobs'[t] : g[t, i] = g[t, k] => i = k
  <2>1. i \in Nat /\ n \in Nat /\ \A k \in DOMAIN jobs'[t] : k \in Nat
    BY <1>3 DEF TakenFrom
  <2>2. CASE t = s
    <3>1. Behind(n, i) \in DOMAIN jobs[t] /\ jobs'[t][i] = jobs[t][Behind(n, i)]
      BY <1>3, <2>2 DEF TakenFrom
    <3>2. Behind(n, i) # n /\ \A k \in Nat : Behind(n, i) = Behind(n, k) => i = k
      BY <2>1, BehindIs
    <3>3. g[t, i] = Behind(n, i) /\ \A k \in DOMAIN jobs'[t] : g[t, k] = Behind(n, k)
      BY <1>2, <1>3, <2>2
    <3>4. QED
      BY <2>1, <3>1, <3>2, <3>3
  <2>3. CASE t # s
    BY <1>2, <1>3, <2>1, <2>3 DEF TakenFrom
  <2>4. QED
    BY <2>2, <2>3
<1>5. Removed(s, n, g)
  BY <1>3 DEF Removed
<1>4. QED
  BY <1>5, JobsFewer

(* The same, for the queue as WelcomeService writes it.                    *)
LEMMA TakenMoves ==
  ASSUME jobs \in [Shards -> Seq(Job)], NEW s \in Shards, NEW n \in DOMAIN jobs[s],
         jobs' = [jobs EXCEPT ![s] = SubSeq(@, 1, n - 1) \o SubSeq(@, n + 1, Len(@))], NEW K
  PROVE  JobsMove({<<s, jobs[s][n]>>}, {}, K)
<1>1. ASSUME NEW t \in Shards, NEW i \in DOMAIN jobs'[t]
      PROVE  /\ i \in Nat /\ n \in Nat
             /\ t = s => Behind(n, i) \in DOMAIN jobs[t] /\ jobs'[t][i] = jobs[t][Behind(n, i)]
             /\ t # s => i \in DOMAIN jobs[t] /\ jobs'[t][i] = jobs[t][i]
  BY <1>1, TakenIs
<1>2. TakenFrom(s, n)
  BY <1>1 DEF TakenFrom
<1>3. QED
  BY <1>2, TakenMovesBy

-----------------------------------------------------------------------------
(* On every link, what is in B is before what is in A. *)
Ordered(A, B) ==
  \A l \in Links : \A i, j \in DOMAIN net[l] :
    <<l, net[l][i]>> \in A /\ <<l, net[l][j]>> \in B => j < i

(* An order on the links is kept when what is sent never goes behind what  *)
(* it must precede.                                                        *)
LEMMA OrderedBy ==
  ASSUME NetTyped, NetTyped', NEW me, NEW outs \in Outbox,
         NEW d \in [Links -> {0, 1}], Passes(d, me, outs), NEW A, NEW B, Ordered(A, B),
         \A y \in Sent(me, outs) : y \in B => \A z \in Flights' : z \in A => z[1] # y[1]
  PROVE  Ordered(A, B)'
<1> SUFFICES ASSUME NEW l \in Links, NEW i \in DOMAIN net'[l], NEW j \in DOMAIN net'[l],
                    <<l, net'[l][i]>> \in A, <<l, net'[l][j]>> \in B
             PROVE  j < i
  BY DEF Ordered
<1>1. /\ i \in Nat /\ j \in Nat /\ d[l] \in {0, 1} /\ l = <<l[1], l[2]>> /\ l[2] \in Nodes
      /\ net[l] \in Seq(Message)
  BY LinksAre, PositionsTyped DEF NetTyped
<1>2. Len(net[l]) \in Nat /\ DOMAIN net[l] = 1..Len(net[l])
  BY <1>1, LenProperties
<1>3. <<l, net'[l][i]>> \in Flights'
  BY DEF Flights
<1>4. CASE j + d[l] \in DOMAIN net[l] /\ net'[l][j] = net[l][j + d[l]]
  <2>1. CASE i + d[l] \in DOMAIN net[l] /\ net'[l][i] = net[l][i + d[l]]
    <3>1. j + d[l] < i + d[l]
      BY <1>4, <2>1 DEF Ordered
    <3>2. QED
      BY <1>1, <3>1
  <2>2. CASE \E p \in DOMAIN outs[l[2]] : i = Len(net[l]) + p
    <3>1. PICK p \in DOMAIN outs[l[2]] : i = Len(net[l]) + p
      BY <2>2
    <3>2. p \in Nat \ {0}
      BY <1>1, LenProperties DEF Outbox
    <3>3. QED
      BY <1>1, <1>2, <1>4, <3>1, <3>2
  <2>3. QED
    BY <2>1, <2>2 DEF Passes
<1>5. CASE l[1] = me /\ \E p \in DOMAIN outs[l[2]] : j = Len(net[l]) + p /\ net'[l][j] = outs[l[2]][p]
  <2>1. PICK p \in DOMAIN outs[l[2]] : net'[l][j] = outs[l[2]][p]
    BY <1>5
  <2>2. <<l, net'[l][j]>> \in Sent(me, outs)
    BY <1>1, <1>5, <2>1, SentIs
  <2>3. QED
    BY <1>3, <2>2
<1>6. QED
  BY <1>4, <1>5 DEF Passes

(* The same, when a handler takes a message.                               *)
LEMMA ReceiveOrdered ==
  ASSUME NetTyped, NetTyped', NEW src, NEW me, <<src, me>> \in Links, NEW kind, Pending(src, me, kind),
         NEW outs \in Outbox, Receive(src, me, outs), NEW A, NEW B, Ordered(A, B),
         \A y \in Sent(me, outs) : y \in B => \A z \in Flights' : z \in A => z[1] # y[1]
  PROVE  Ordered(A, B)'
<1> DEFINE d == [l \in Links |-> IF l = <<src, me>> THEN 1 ELSE 0]
<1>1. net[<<src, me>>] # << >>
  BY DEF Pending
<1>2. d \in [Links -> {0, 1}] /\ Passes(d, me, outs)
  <2> DEFINE e == d
  <2>1. e = [l \in Links |-> IF l = <<src, me>> THEN 1 ELSE 0]
    OBVIOUS
  <2> HIDE DEF d, e
  <2>2. e \in [Links -> {0, 1}] /\ Passes(e, me, outs)
    BY <1>1, <2>1, ReceivePasses
  <2>3. QED
    BY <2>2 DEF e
<1> HIDE DEF d
<1>3. QED
  BY <1>2, OrderedBy

(* The same, when a step sends nothing of the later kind.                  *)
LEMMA EmitOrdered ==
  ASSUME NetTyped, NetTyped', NEW me, NEW outs \in Outbox, Emit(me, outs), NEW A, NEW B, Ordered(A, B),
         \A y \in Sent(me, outs) : y \notin B
  PROVE  Ordered(A, B)'
<1> DEFINE d == [l \in Links |-> 0]
<1>2. d \in [Links -> {0, 1}] /\ Passes(d, me, outs)
  <2> DEFINE e == d
  <2>1. e = [l \in Links |-> 0]
    OBVIOUS
  <2> HIDE DEF d, e
  <2>2. e \in [Links -> {0, 1}] /\ Passes(e, me, outs)
    BY <2>1, EmitPasses
  <2>3. QED
    BY <2>2 DEF e
<1> HIDE DEF d
<1>3. QED
  BY <1>2, OrderedBy

(* When the head of a link is in A, nothing of B is on that link. *)
LEMMA HeadOrdered ==
  ASSUME NetTyped, NEW a \in Links, 1 \in DOMAIN net[a], NEW A, NEW B, Ordered(A, B),
         <<a, net[a][1]>> \in A, NEW z \in Flights, z \in B
  PROVE  z[1] # a
<1>1. PICK l \in Links : \E i \in DOMAIN net[l] : z = <<l, net[l][i]>>
  BY FlightHas
<1>2. PICK i \in DOMAIN net[l] : z = <<l, net[l][i]>>
  BY <1>1
<1>3. i \in Nat \ {0}
  BY PositionsTyped DEF NetTyped
<1>4. SUFFICES ASSUME l = a PROVE FALSE
  BY <1>2
<1>5. i < 1
  BY <1>2, <1>4 DEF Ordered
<1>6. QED
  BY <1>3, <1>5

-----------------------------------------------------------------------------
(* What is in flight about a user. *)

(* An entry on its way: the client asks, is offered an address, ... *)
AskKinds == {"M_SC_SHARDS", "M_ENTER_SHARD_REQUEST", "M_ENTER_SHARD_ANSWER", "M_SC_FAIL",
             "M_CS_CHANGE_SHARD_REQ", "M_SC_CHANGE_SHARD_ANS"}
Asking(u) == {x \in Flying : x[2].u = u /\ x[2].kind \in AskKinds}
(* ... its connection, con=1, is reported to the LS, or its end, con=0 ... *)
Reports(u, v) == {x \in Flying : /\ x[2].u = u /\ x[2].kind = "M_CLIENT_CONNECT_STATUS"
                                 /\ x[2].v = v /\ x[1][2] # SS}
(* ... and it is told that it may play. *)
Entry(u) == {x \in Flying : x[2].u = u /\ x[2].kind = "M_ENTER__SHARD"}
Ahead(u) == Asking(u) \cup Reports(u, 1) \cup Entry(u)
(* A copy of its data on its way. *)
DataKinds == {"M_NT_MOVE_USER_DATA_REQ", "M_NT_SEND_USER_DATA", "M_NT_MOVE_USER_DATA_END"}
Copies(u) == {x \in Flying : x[2].u = u /\ x[2].kind \in DataKinds}
(* The end of its login, which closes its session. *)
Kicks(u) == {x \in Flying : x[2].u = u /\ x[2].kind = "M_CLIENT_DISCONNECT"}
(* The queries that log it out, or read the data to copy. *)
EndJobs(u) == {x \in Shards \X Job : x[2].job = "FamilyLogout" /\ x[2].u = u}
CopyJobs(u) == {x \in Shards \X Job : x[2].job = "GetUserMoveData" /\ x[2].u = u}
(* The shard a report comes from. *)
Source(x) == IF x[1][2] = LS THEN x[1][1] ELSE x[1][2]

-----------------------------------------------------------------------------
(* The sockets of a user. *)
Places == Fess \X Conns
Sock(c) == conn[c[1]][c[2]]
(* Those that play; those that are to; of these, those not validated yet.  *)
Room(u) == {c \in Places : Sock(c).u = u /\ Sock(c).open /\ Sock(c).entered}
Cand(u) == {c \in Places : Sock(c).u = u /\ Sock(c).open /\ ~Sock(c).entered}
Fresh(u) == {c \in Places : Sock(c).u = u /\ Sock(c).open /\ ~Sock(c).entered /\ ~Sock(c).app}
(* Those closed whose end is still to be reported. *)
Gone(u) == {c \in Places : Sock(c).u = u /\ Sock(c).used /\ ~Sock(c).open /\ Sock(c).app}
(* Those that play and have not asked for another shard, or without an appId. *)
Content(u) == {c \in Places : Sock(c).u = u /\ Sock(c).open /\ Sock(c).entered /\ ~Sock(c).asked}
Odd(u) == {c \in Places : Sock(c).u = u /\ Sock(c).open /\ Sock(c).entered /\ ~Sock(c).app}
IsLone(S) == \A c, d \in S : c = d

-----------------------------------------------------------------------------
(* A session on s is over, and the LS has not been told yet. *)
EndsOn(u, s) ==
  \/ \E c \in Gone(u) : ShardOf[c[1]] = s
  \/ \E x \in Flights : x \in Reports(u, 0) /\ Source(x) = s
  \/ \E x \in JobFlights : x \in EndJobs(u) /\ x[1] = s
(* One session ends at a time. *)
OneEnd(u) ==
  /\ LoneIn(Reports(u, 0)) /\ IsLone(Gone(u)) /\ LoneJob(EndJobs(u))
  /\ Gone(u) # {} => /\ \A x \in Flights : x \notin Reports(u, 0)
                     /\ \A x \in JobFlights : x \notin EndJobs(u)
  /\ \A x \in Flights, y \in JobFlights : ~(x \in Reports(u, 0) /\ y \in EndJobs(u))
(* One copy of the data is on its way at a time. *)
OneCopy(u) ==
  /\ LoneIn(Copies(u)) /\ LoneJob(CopyJobs(u))
  /\ \A x \in Flights, y \in JobFlights : ~(x \in Copies(u) /\ y \in CopyJobs(u))

(* The LS lets the user wait for the end of its old session, or for its    *)
(* data.                                                                   *)
Waits(u) == waiting[u] # Nowhere
Fetches(u) == moving[u].reason = 1
(* A user that plays. *)
Inside(u) ==
  /\ IsLone(Room(u)) /\ Odd(u) = {}
  /\ \A c \in Room(u) :
       /\ current[u] = ShardOf[c[1]] /\ infoCur[u] = ShardOf[c[1]]
       /\ moving[u] = NoMove /\ tempCookie[u] = NoShard
       /\ \A t \in Shards : ~EndsOn(u, t)
(* Nothing but what is in flight leads u to a shard. *)
Calls(u) == offers[u] = {} /\ Fresh(u) = {} /\ ~Waits(u) /\ ~Fetches(u)
(* The steps of an entry that are a state: the client has an address, it   *)
(* has connected there, it waits for its old session, or for its data.     *)
OffersOK(u) ==
  /\ IsLone(offers[u])
  /\ \A o \in offers[u] : Cand(u) = {} /\ ShardOf[o.f] # current[u] /\ ~Waits(u) /\ ~Fetches(u)
FreshOK(u) ==
  /\ IsLone(Cand(u))
  /\ \A c \in Fresh(u) : ShardOf[c[1]] # current[u] /\ offers[u] = {} /\ ~Waits(u) /\ ~Fetches(u)
WaitsOK(u) ==
  Waits(u) => /\ ~Fetches(u) /\ waiting[u].f \in Fess /\ ShardOf[waiting[u].f] = waiting[u].s
              /\ \A c \in Cand(u) : c[1] = waiting[u].f
              /\ Room(u) # {} => Cand(u) # {}
FetchOK(u) ==
  Fetches(u) => /\ Room(u) = {} /\ moving[u].f \in Fess /\ ShardOf[moving[u].f] = moving[u].to
                /\ \A c \in Cand(u) : c[1] = moving[u].f /\ current[u] = moving[u].to
                /\ \A s \in Shards : EndsOn(u, s) => Cand(u) = {}
Outside(u) == OffersOK(u) /\ FreshOK(u) /\ WaitsOK(u) /\ FetchOK(u)

(* While a session on s ends. *)
LeftTok(u, s, x) == x \notin Asking(u) /\ (x \in Reports(u, 1) => Source(x) = s)
Leaves(u) ==
  \A s \in Shards : EndsOn(u, s) =>
    /\ Room(u) = {} /\ current[u] \in {s, NoShard}
    /\ current[u] = NoShard => /\ Cand(u) = {} /\ offers[u] = {}
                               /\ \A x \in Flights : LeftTok(u, s, x)

(* A user that is nowhere, and whose login may choose a shard. *)
Blank(u) ==
  /\ current[u] = NoShard /\ Room(u) = {} /\ Cand(u) = {} /\ ~Waits(u)
  /\ moving[u] = NoMove /\ changeReq[u] = Nowhere
  /\ \A s \in Shards : wsAssoc[s][u] = NoFes /\ ~EndsOn(u, s)

(* What holds while x is in flight. *)
AskOK(u, x) ==
  /\ Cand(u) = {} /\ Calls(u) /\ Content(u) = {}
  /\ (x[2].kind \in {"M_SC_SHARDS", "M_SC_FAIL"} \/ x[1] \in {<<SS, LS>>, <<LS, SS>>}) => Blank(u)
  /\ x[2].kind \in {"M_ENTER_SHARD_REQUEST", "M_ENTER_SHARD_ANSWER"} /\ tempCookie[u] # NoShard => Blank(u)
  /\ x[2].kind \in {"M_CS_CHANGE_SHARD_REQ", "M_SC_CHANGE_SHARD_ANS"} => tempCookie[u] = NoShard
  /\ x[2].kind = "M_ENTER_SHARD_REQUEST" /\ x[1][1] = LS => current[u] # x[1][2]
  /\ x[2].kind = "M_ENTER_SHARD_REQUEST" /\ x[1][2] \in Fess => current[u] # x[1][1]
  /\ x[2].kind \in Answers /\ x[2].v = 0 => current[u] # ShardOf[x[2].f]
  /\ x[2].kind = "M_CS_CHANGE_SHARD_REQ" /\ x[1][1] \in Fess => current[u] \in {NoShard, x[1][2]}
  /\ x[2].kind = "M_CS_CHANGE_SHARD_REQ" /\ x[1][2] = LS => current[u] # x[2].s
  /\ \/ x[2].kind = "M_CS_CHANGE_SHARD_REQ"
     \/ x[2].kind = "M_ENTER_SHARD_REQUEST" /\ x[1] = <<SS, LS>>
     => x[2].s \in Shards
(* The front end, and the shard, that a report or an entry is about.       *)
Reporter(x) == IF x[1][2] = LS THEN x[2].fsSid ELSE x[1][1]
EntryShard(x) == IF x[1][1] = LS THEN x[1][2] ELSE x[1][1]
ReportOK(u, x) ==
  /\ Calls(u)
  /\ Reporter(x) \in Fess /\ ShardOf[Reporter(x)] = Source(x) /\ current[u] # Source(x)
  /\ \A c \in Cand(u) : c[1] = Reporter(x)
  /\ Room(u) # {} => Cand(u) # {}
EntryOK(u, x) ==
  /\ Calls(u) /\ Room(u) = {} /\ tempCookie[u] = NoShard
  /\ x[2].fsSid \in Fess /\ ShardOf[x[2].fsSid] = EntryShard(x)
  /\ \A c \in Cand(u) : /\ c[1] = x[2].fsSid /\ moving[u] = NoMove
                        /\ current[u] = EntryShard(x) /\ infoCur[u] = EntryShard(x)
  /\ \A t \in Shards : EndsOn(u, t) => Cand(u) = {}
TokenOK(u, x) == /\ x \in Asking(u) => AskOK(u, x)
                 /\ x \in Reports(u, 1) => ReportOK(u, x)
                 /\ x \in Entry(u) => EntryOK(u, x)
TokensOK(u) == LoneIn(Ahead(u)) /\ \A x \in Flights : TokenOK(u, x)

(* A login that has not led to a shard yet. *)
Idle(u) == (\A x \in Flights : x \notin Ahead(u)) /\ Calls(u)
Young(u) ==
  /\ tempCookie[u] # NoShard => /\ current[u] = NoShard /\ Room(u) = {}
                                /\ ~Waits(u) /\ ~Fetches(u)
  /\ \A n \in Logins :
       /\ sock[u][n] # "refused"
       /\ sock[u][n] \in {"unused", "listed"} => Blank(u) /\ Idle(u)
       /\ sock[u][n] = "unused" => ~onlineStatus[u] /\ tempCookie[u] = NoShard

(* u has asked for s first, and has not been admitted anywhere else.       *)
FirstTok(u, s, x) ==
  /\ x \in Asking(u) =>
       \/ /\ x[2].kind = "M_ENTER_SHARD_REQUEST"
          /\ x[1] = <<LS, s>> \/ (x[1][1] = s /\ x[1][2] \in Fess)
       \/ /\ x[2].kind = "M_ENTER_SHARD_ANSWER" /\ x[2].v = 0
          /\ ShardOf[x[2].f] = s /\ x[1][1] # SS
  /\ x \in Reports(u, 1) => Source(x) = s
  /\ x \in Entry(u) => s \in {x[1][1], x[1][2]}
FirstHere(u, s) ==
  /\ Room(u) = {} /\ ~Waits(u) /\ current[u] \in {s, NoShard} /\ changeReq[u] = Nowhere
  /\ \A n \in Logins : sock[u][n] \notin {"unused", "listed"}
  /\ \A t \in Shards : EndsOn(u, t) => Cand(u) = {}
  /\ \A c \in Cand(u) : ShardOf[c[1]] = s
  /\ \A o \in offers[u] : ShardOf[o.f] = s
  /\ Fetches(u) => moving[u].to = s
First(u, s) == FirstHere(u, s) /\ \A x \in Flights : FirstTok(u, s, x)
(* u has shown its cookie on f of s. *)
PastTok(u, s, f, x) ==
  /\ x \notin Asking(u)
  /\ x \in Reports(u, 1) => x[1] = <<s, LS>> /\ x[2].fsSid = f
  /\ x \in Entry(u) => x[2].fsSid = f
PastHere(u, f) ==
  /\ offers[u] = {} /\ Fresh(u) = {} /\ \A c \in Cand(u) : c[1] = f
  /\ Fetches(u) => moving[u].f = f
Past(u, s, f) == PastHere(u, f) /\ \A x \in Flights : PastTok(u, s, f, x)
(* The end of the login may come to s. *)
InDanger(u, s) ==
  /\ FesOf(s) # {}
  /\ tempCookie[u] = s \/ \E x \in Flights : x \in Kicks(u) /\ x[1] = <<LS, s>>
DangerOK(u) ==
  \A s \in Shards : InDanger(u, s) =>
    First(u, s) /\ (wsAssoc[s][u] # NoFes => Past(u, s, wsAssoc[s][u]))
KicksOK(u) ==
  \A x \in Flights : x \in Kicks(u) /\ x[1][2] \in Fess =>
    First(u, x[1][1]) /\ Past(u, x[1][1], x[1][2])
KicksFirst(u) ==
  /\ Ordered(Entry(u), Kicks(u))
  /\ \A x, y \in Flights : x \in Entry(u) /\ x[1][2] \in Fess /\ y \in Kicks(u) =>
       y[1] # <<LS, x[1][1]>>
Kicked(u) == DangerOK(u) /\ KicksOK(u) /\ KicksFirst(u)

(* Where the last version of the data of u is. *)
HomeOfData(u) == IF infoCur[u] = NoShard THEN LoadedShard(u) ELSE infoCur[u]
CopyOK(u, x) ==
  /\ x[2].kind = "M_NT_MOVE_USER_DATA_REQ" => x[1][2] \in Shards /\ data[x[1][2]][u] = latest[u]
  /\ x[2].kind = "M_NT_SEND_USER_DATA" => x[2].v = latest[u]
  /\ x[2].kind = "M_NT_MOVE_USER_DATA_END" => x[1][1] \in Shards /\ data[x[1][1]][u] = latest[u]
Stored(u) ==
  /\ moving[u] = NoMove => /\ data[HomeOfData(u)][u] = latest[u]
                           /\ \A x \in Flights : x \notin Copies(u)
                           /\ \A x \in JobFlights : x \notin CopyJobs(u)
  /\ moving[u] # NoMove => Room(u) = {}
  /\ \E s \in Shards : data[s][u] = latest[u]
  /\ \A x \in JobFlights : x \in CopyJobs(u) => data[x[1]][u] = latest[u]
  /\ \A x \in Flights : x \in Copies(u) => CopyOK(u, x)
  /\ dbOnline[u] = current[u] /\ ~abnormal[u]

(* What is kept of every user.                                             *)
Kept(u) == /\ OneEnd(u) /\ OneCopy(u) /\ Inside(u) /\ Outside(u) /\ Leaves(u)
           /\ TokensOK(u) /\ Young(u) /\ Kicked(u) /\ Stored(u)

(* Nobody is forced off, sessions are reported from shards, every front    *)
(* end is known, no query has failed and no move has been dropped.         *)
NoForce ==
  /\ \A x \in Flights : x[2].kind \notin {"M_NT_REQ_FORCE_LOGOFF", "M_LS_RELOGOFF"}
  /\ \A x \in JobFlights : x[2].job # "ForcedLogout"
  /\ \A x \in Flights : x[2].kind = "M_CLIENT_CONNECT_STATUS" => x[1][2] = SS \/ Source(x) \in Shards
  /\ fesList = Fess /\ dbFaults = 0 /\ moveTimeouts = 0
(* A change of shard that is under way was asked for from a shard. *)
ChangesToShards == \A u \in Users : changeReq[u] # Nowhere => changeReq[u].s \in Shards
(* A validation that is queued is that of an open socket. *)
OpenShown ==
  \A f \in Fess : \A i \in DOMAIN events[f] :
    events[f][i].ev = "validation" => conn[f][events[f][i].k].open

-----------------------------------------------------------------------------
(* A step as a user sees it: X leaves and Y starts, JX and JY of the       *)
(* queries.                                                                *)
NetOf(u, X, Y) == /\ Moves(X, Y, Ahead(u)) /\ Moves(X, Y, Reports(u, 0))
                  /\ Moves(X, Y, Copies(u)) /\ Moves(X, Y, Kicks(u))
JobsOf(u, X, Y) == JobsMove(X, Y, EndJobs(u)) /\ JobsMove(X, Y, CopyJobs(u))
(* No session of u ends anew.                                              *)
NoNewEnd(u) == \A s \in Shards : EndsOn(u, s)' => EndsOn(u, s)
(* What the services and the clients know of u stays, or is forgotten.     *)
LSHolds(u) ==
  /\ current'[u] = current[u] /\ moving'[u] = moving[u]
  /\ infoCur'[u] = infoCur[u] \/ Blank(u)
  /\ HomeOfData(u)' = HomeOfData(u)
  /\ abnormal'[u] = abnormal[u] /\ dbOnline'[u] = dbOnline[u]
LSKeeps(u) == LSHolds(u) /\ waiting'[u] = waiting[u]
LSStays(u) == LSKeeps(u) /\ tempCookie'[u] \in {tempCookie[u], NoShard}
WSStays(u) == \A s \in Shards : wsAssoc'[s][u] \in {wsAssoc[s][u], NoFes}
DataStays(u) == (\A s \in Shards : data'[s][u] = data[s][u]) /\ latest'[u] = latest[u]
SocksStay(u) ==
  /\ Room(u)' = Room(u) /\ Cand(u)' = Cand(u) /\ Fresh(u)' = Fresh(u)
  /\ Content(u)' = Content(u) /\ Odd(u)' = Odd(u) /\ Gone(u)' \subseteq Gone(u)
  /\ offers'[u] = offers[u]
LoginStays(u) ==
  /\ \A n \in Logins : \/ sock'[u][n] = sock[u][n]
                       \/ sock'[u][n] \notin {"refused", "unused", "listed"}
  /\ onlineStatus'[u] => onlineStatus[u]
(* An entry of u goes on as z.                                             *)
GoesOn(u, z) ==
  /\ \E x \in Flights : x \in Ahead(u)
  /\ TokenOK(u, z)'
  /\ \A s \in Shards : EndsOn(u, s) /\ current[u] = NoShard => LeftTok(u, s, z)
  /\ \A s \in Shards : FesOf(s) # {} /\ First(u, s) => FirstTok(u, s, z)
  /\ \A s \in Shards, f \in Fess : ShardOf[f] = s /\ First(u, s) /\ Past(u, s, f) => PastTok(u, s, f, z)

-----------------------------------------------------------------------------
(* What stays when nothing of u ends, starts or goes on.                   *)
LEMMA EndsFewer ==
  ASSUME NEW u, OneEnd(u), NEW X, NEW Y, NetOf(u, X, Y), NEW JX, NEW JY, JobsOf(u, JX, JY),
         Gone(u)' \subseteq Gone(u),
         \A y \in Y : y \notin Reports(u, 0), \A y \in JY : y \notin EndJobs(u)
  PROVE  OneEnd(u)' /\ NoNewEnd(u)
<1>1. /\ \A z \in Flights' : z \in Reports(u, 0) => z \in Flights
      /\ LoneIn(Reports(u, 0))'
  BY DEF NetOf, Moves, OneEnd
<1>2. /\ \A z \in JobFlights' : z \in EndJobs(u) => z \in JobFlights
      /\ LoneJob(EndJobs(u))'
  BY DEF JobsOf, JobsMove, OneEnd
<1>3. IsLone(Gone(u)')
  BY DEF OneEnd, IsLone
<1>4. NoNewEnd(u)
  BY <1>1, <1>2 DEF NoNewEnd, EndsOn
<1>5. OneEnd(u)'
  BY <1>1, <1>2, <1>3 DEF OneEnd, IsLone
<1>6. QED
  BY <1>4, <1>5

(* No new copy of the data starts: still at most one is on its way.        *)
LEMMA CopiesFewer ==
  ASSUME NEW u, OneCopy(u), NEW X, NEW Y, NetOf(u, X, Y), NEW JX, NEW JY, JobsOf(u, JX, JY),
         \A y \in Y : y \notin Copies(u), \A y \in JY : y \notin CopyJobs(u)
  PROVE  /\ OneCopy(u)'
         /\ \A z \in Flights' : z \in Copies(u) => z \in Flights
         /\ \A z \in JobFlights' : z \in CopyJobs(u) => z \in JobFlights
<1>1. /\ \A z \in Flights' : z \in Copies(u) => z \in Flights
      /\ LoneIn(Copies(u))'
  BY DEF NetOf, Moves, OneCopy
<1>2. /\ \A z \in JobFlights' : z \in CopyJobs(u) => z \in JobFlights
      /\ LoneJob(CopyJobs(u))'
  BY DEF JobsOf, JobsMove, OneCopy
<1>3. QED
  BY <1>1, <1>2 DEF OneCopy

(* Nobody enters and the LS holds on to what it knows: who is inside stays *)
(* well placed.                                                            *)
LEMMA InsideFewer ==
  ASSUME NEW u, Inside(u), NoNewEnd(u), Room(u)' \subseteq Room(u), Odd(u)' \subseteq Odd(u), LSHolds(u),
         tempCookie'[u] \in {tempCookie[u], NoShard}
  PROVE  Inside(u)'
BY DEF Inside, NoNewEnd, LSHolds, IsLone, Blank

(* The sockets to come and what the LS keeps are the same: who is outside  *)
(* stays well placed.                                                      *)
LEMMA OutsideFewer ==
  ASSUME NEW u, Outside(u), NoNewEnd(u), Room(u)' \subseteq Room(u), Cand(u)' = Cand(u),
         Fresh(u)' \subseteq Fresh(u), offers'[u] = offers[u], LSKeeps(u)
  PROVE  Outside(u)'
<1>1. OffersOK(u)' /\ FreshOK(u)'
  BY DEF Outside, OffersOK, FreshOK, LSKeeps, LSHolds, Waits, Fetches, IsLone
<1>2. WaitsOK(u)' /\ FetchOK(u)'
  BY DEF Outside, WaitsOK, FetchOK, LSKeeps, LSHolds, Waits, Fetches, NoNewEnd
<1>3. QED
  BY <1>1, <1>2 DEF Outside

(* No new end, and nothing new leads anywhere else: what holds while a     *)
(* session ends is kept.                                                   *)
LEMMA LeavesFewer ==
  ASSUME NEW u, Leaves(u), NoNewEnd(u), Room(u)' \subseteq Room(u), Cand(u)' \subseteq Cand(u),
         offers'[u] \subseteq offers[u], current'[u] = current[u],
         \A z \in Flights' : z \in Ahead(u) =>
           \/ z \in Flights
           \/ \A s \in Shards : EndsOn(u, s) /\ current[u] = NoShard => LeftTok(u, s, z)
  PROVE  Leaves(u)'
<1> SUFFICES ASSUME NEW s \in Shards, EndsOn(u, s)'
             PROVE  (/\ Room(u) = {} /\ current[u] \in {s, NoShard}
                     /\ current[u] = NoShard => /\ Cand(u) = {} /\ offers[u] = {}
                                                /\ \A x \in Flights : LeftTok(u, s, x))'
  BY DEF Leaves
<1>1. EndsOn(u, s)
  BY DEF NoNewEnd
<1>2. /\ Room(u) = {} /\ current[u] \in {s, NoShard}
      /\ current[u] = NoShard => /\ Cand(u) = {} /\ offers[u] = {}
                                 /\ \A x \in Flights : LeftTok(u, s, x)
  BY <1>1 DEF Leaves
<1>3. ASSUME current[u] = NoShard, NEW z \in Flights' PROVE LeftTok(u, s, z)
  <2>1. CASE z \in Ahead(u)
    BY <1>1, <1>2, <1>3, <2>1
  <2>2. CASE z \notin Ahead(u)
    BY <2>2 DEF LeftTok, Ahead
  <2>3. QED
    BY <2>1, <2>2
<1>4. QED
  BY <1>2, <1>3 DEF LeftTok

(* A user that is nowhere stays nowhere when nothing comes to it.          *)
LEMMA BlankStays ==
  ASSUME NEW u, Blank(u), NoNewEnd(u), LSKeeps(u), WSStays(u), changeReq'[u] = changeReq[u],
         Room(u)' \subseteq Room(u), Cand(u)' \subseteq Cand(u)
  PROVE  Blank(u)'
BY DEF Blank, NoNewEnd, LSKeeps, LSHolds, WSStays, Waits

(* No new offer and no new socket: only what is in flight still leads the  *)
(* user to a shard.                                                        *)
LEMMA CallsStays ==
  ASSUME NEW u, Calls(u), LSKeeps(u), offers'[u] \subseteq offers[u], Fresh(u)' \subseteq Fresh(u)
  PROVE  Calls(u)'
BY DEF Calls, LSKeeps, LSHolds, Waits, Fetches

(* What holds while x is in flight is kept when only less is known,        *)
(* offered or open.                                                        *)
LEMMA TokenStays ==
  ASSUME NEW u, NEW x, TokenOK(u, x), NoNewEnd(u), LSStays(u), Blank(u) => Blank(u)', Calls(u) => Calls(u)',
         Room(u)' \subseteq Room(u), Cand(u)' = Cand(u), Content(u)' \subseteq Content(u)
  PROVE  TokenOK(u, x)'
<1>1. AskOK(u, x) => AskOK(u, x)'
  BY DEF AskOK, LSStays, LSKeeps, LSHolds
<1>2. ReportOK(u, x) => ReportOK(u, x)'
  BY DEF ReportOK, LSStays, LSKeeps, LSHolds
<1>3. EntryOK(u, x) => EntryOK(u, x)'
  BY DEF EntryOK, LSStays, LSKeeps, LSHolds, NoNewEnd, Blank
<1>4. QED
  BY <1>1, <1>2, <1>3 DEF TokenOK

(* The same, for all that is in flight, if what is new is well formed.     *)
LEMMA TokensFewer ==
  ASSUME NEW u, TokensOK(u), NoNewEnd(u), LSStays(u), Blank(u) => Blank(u)', Calls(u) => Calls(u)',
         Room(u)' \subseteq Room(u), Cand(u)' = Cand(u), Content(u)' \subseteq Content(u),
         LoneIn(Ahead(u))', \A z \in Flights' : z \in Ahead(u) => z \in Flights \/ TokenOK(u, z)'
  PROVE  TokensOK(u)'
<1>1. ASSUME NEW z \in Flights' PROVE TokenOK(u, z)'
  <2>1. CASE z \in Flights
    BY <2>1, TokenStays DEF TokensOK
  <2>2. CASE z \notin Ahead(u)
    BY <2>2 DEF TokenOK, Ahead
  <2>3. QED
    BY <2>1, <2>2
<1>2. QED
  BY <1>1 DEF TokensOK

(* While an entry is in flight no login waits for its list of shards.      *)
LEMMA Chosen ==
  ASSUME NEW u, Young(u), NEW x \in Flights, x \in Ahead(u)
  PROVE  \A n \in Logins : sock[u][n] \notin {"refused", "unused", "listed"}
BY DEF Young, Idle

(* A login that has led nowhere stays so, unless something was ahead of it *)
(* already.                                                                *)
LEMMA YoungFewer ==
  ASSUME NEW u, Young(u), LSStays(u), LoginStays(u), Room(u)' \subseteq Room(u), Calls(u) => Calls(u)',
         \/ (Blank(u) => Blank(u)') /\ (\A z \in Flights' : z \in Ahead(u) => z \in Flights)
         \/ \E x \in Flights : x \in Ahead(u)
  PROVE  Young(u)'
<1>1. (tempCookie[u] # NoShard => /\ current[u] = NoShard /\ Room(u) = {}
                                  /\ ~Waits(u) /\ ~Fetches(u))'
  BY DEF Young, LSStays, LSKeeps, LSHolds, Waits, Fetches
<1>2. CASE \E x \in Flights : x \in Ahead(u)
  <2>1. \A n \in Logins : sock[u][n] \notin {"refused", "unused", "listed"}
    BY <1>2, Chosen
  <2>2. \A n \in Logins : sock'[u][n] \notin {"refused", "unused", "listed"}
    BY <2>1 DEF LoginStays
  <2>3. QED
    BY <1>1, <2>2 DEF Young
<1>3. CASE (Blank(u) => Blank(u)') /\ (\A z \in Flights' : z \in Ahead(u) => z \in Flights)
  <2>1. Idle(u) => Idle(u)'
    BY <1>3 DEF Idle
  <2>2. SUFFICES ASSUME NEW n \in Logins
                 PROVE  (/\ sock[u][n] # "refused"
                         /\ sock[u][n] \in {"unused", "listed"} => Blank(u) /\ Idle(u)
                         /\ sock[u][n] = "unused" => ~onlineStatus[u] /\ tempCookie[u] = NoShard)'
    BY <1>1 DEF Young
  <2>3. CASE sock'[u][n] = sock[u][n]
    BY <1>3, <2>1, <2>3 DEF Young, LSStays, LSKeeps, LSHolds, LoginStays
  <2>4. CASE sock'[u][n] \notin {"refused", "unused", "listed"}
    BY <2>4
  <2>5. QED
    BY <2>3, <2>4 DEF LoginStays
<1>4. QED
  BY <1>2, <1>3

(* s stays the first shard the user asked for.                             *)
LEMMA FirstStays ==
  ASSUME NEW u, NEW s, First(u, s), NoNewEnd(u), LSStays(u), LoginStays(u), changeReq'[u] = changeReq[u],
         Room(u)' \subseteq Room(u), Cand(u)' \subseteq Cand(u), offers'[u] \subseteq offers[u],
         \A z \in Flights' : z \in Ahead(u) => z \in Flights \/ FirstTok(u, s, z)
  PROVE  First(u, s)'
<1>1. FirstHere(u, s)'
  BY DEF First, FirstHere, NoNewEnd, LSStays, LSKeeps, LSHolds, LoginStays, Waits, Fetches
<1>2. ASSUME NEW z \in Flights' PROVE FirstTok(u, s, z)
  <2>1. CASE z \in Ahead(u)
    BY <2>1 DEF First
  <2>2. CASE z \notin Ahead(u)
    BY <2>2 DEF FirstTok, Ahead
  <2>3. QED
    BY <2>1, <2>2
<1>3. QED
  BY <1>1, <1>2 DEF First, FirstTok

(* The user has still shown its cookie on f.                               *)
LEMMA PastStays ==
  ASSUME NEW u, NEW s, NEW f, Past(u, s, f), LSStays(u),
         Fresh(u)' \subseteq Fresh(u), Cand(u)' \subseteq Cand(u), offers'[u] \subseteq offers[u],
         \A z \in Flights' : z \in Ahead(u) => z \in Flights \/ PastTok(u, s, f, z)
  PROVE  Past(u, s, f)'
<1>1. PastHere(u, f)'
  BY DEF Past, PastHere, LSStays, LSKeeps, LSHolds, Fetches
<1>2. ASSUME NEW z \in Flights' PROVE PastTok(u, s, f, z)
  <2>1. CASE z \in Ahead(u)
    BY <2>1 DEF Past
  <2>2. CASE z \notin Ahead(u)
    BY <2>2 DEF PastTok, Ahead
  <2>3. QED
    BY <2>1, <2>2
<1>3. QED
  BY <1>1, <1>2 DEF Past, PastTok

(* A link to a front end comes from its shard.                             *)
LEMMA DownLinks ==
  ASSUME NEW l \in Links, l[2] \in Fess
  PROVE  l[1] = ShardOf[l[2]] /\ l[1] \in Shards /\ l[2] \in FesOf(l[1]) /\ FesOf(l[1]) # {}
BY NodesDistinct, PlacesOK DEF Links, FesOf

(* What the kicks need of a step.                                          *)
NoNewDanger(u) ==
  /\ \A s \in Shards : InDanger(u, s)' => InDanger(u, s)
  /\ \A z \in Flights' : z \in Kicks(u) /\ z[1][2] \in Fess =>
       First(u, z[1][1]) /\ Past(u, z[1][1], z[1][2])
DangersStay(u) ==
  /\ \A s \in Shards : FesOf(s) # {} /\ First(u, s) => First(u, s)'
  /\ \A s \in Shards, f \in Fess :
       ShardOf[f] = s /\ First(u, s) /\ Past(u, s, f) => Past(u, s, f)'

(* A step that sends no kick and records no main shard brings no new       *)
(* danger.                                                                 *)
LEMMA DangersFewer ==
  ASSUME NEW u, Kicked(u), tempCookie'[u] \in {tempCookie[u], NoShard},
         \A z \in Flights' : z \in Kicks(u) => z \in Flights
  PROVE  NoNewDanger(u)
<1>1. \A s \in Shards : InDanger(u, s)' => InDanger(u, s)
  BY NullsDistinct DEF InDanger, LSStays, LSKeeps, LSHolds
<1>2. QED
  BY <1>1 DEF NoNewDanger, Kicked, KicksOK

(* No new danger, and dangers met as before: the end of the login still    *)
(* finds the user where it asked to be.                                    *)
LEMMA KickedFewer ==
  ASSUME NEW u \in Users, TypeOK, OfItsShard, Kicked(u), NoNewDanger(u), DangersStay(u), WSStays(u), KicksFirst(u)'
  PROVE  Kicked(u)'
<1>1. ASSUME NEW s \in Shards, InDanger(u, s)'
      PROVE  (First(u, s) /\ (wsAssoc[s][u] # NoFes => Past(u, s, wsAssoc[s][u])))'
  <2>1. InDanger(u, s) /\ FesOf(s) # {}
    BY <1>1 DEF NoNewDanger, InDanger
  <2>2. First(u, s) /\ (wsAssoc[s][u] # NoFes => Past(u, s, wsAssoc[s][u]))
    BY <2>1 DEF Kicked, DangerOK
  <2>3. First(u, s)'
    BY <2>1, <2>2 DEF DangersStay
  <2>4. ASSUME wsAssoc'[s][u] # NoFes PROVE Past(u, s, wsAssoc[s][u])'
    <3>1. wsAssoc'[s][u] = wsAssoc[s][u]
      BY <2>4 DEF WSStays
    <3>2. wsAssoc[s][u] \in Fess /\ ShardOf[wsAssoc[s][u]] = s
      BY <2>4, <3>1 DEF OfItsShard, TypeOK, WSTypeOK, FesOrNone
    <3>3. Past(u, s, wsAssoc[s][u]) /\ First(u, s)
      BY <2>2, <2>4, <3>1
    <3>4. \A f \in Fess : ShardOf[f] = s /\ First(u, s) /\ Past(u, s, f) => Past(u, s, f)'
      BY DEF DangersStay
    <3>5. PICK f \in Fess : f = wsAssoc[s][u]
      BY <3>2
    <3>6. Past(u, s, f)'
      BY <3>2, <3>3, <3>4, <3>5
    <3>7. QED
      BY <3>1, <3>5, <3>6 DEF Past, PastHere, PastTok
  <2>5. QED
    BY <2>3, <2>4
<1>2. DangerOK(u)'
  BY <1>1 DEF DangerOK
<1>3. ASSUME NEW z \in Flights', z \in Kicks(u), z[1][2] \in Fess
      PROVE  (First(u, z[1][1]) /\ Past(u, z[1][1], z[1][2]))'
  <2>1. z[1] \in Links
    BY <1>3 DEF Kicks, Flying
  <2>2. z[1][1] \in Shards /\ ShardOf[z[1][2]] = z[1][1] /\ FesOf(z[1][1]) # {}
    BY <1>3, <2>1, DownLinks
  <2>3. First(u, z[1][1]) /\ Past(u, z[1][1], z[1][2])
    BY <1>3 DEF NoNewDanger
  <2>4. QED
    BY <1>3, <2>2, <2>3 DEF DangersStay
<1>4. KicksOK(u)'
  BY <1>3 DEF KicksOK
<1>5. QED
  BY <1>2, <1>4 DEF Kicked

(* No shard is the first one and no new danger comes: the end of the login *)
(* can harm nobody.                                                        *)
LEMMA NoFirst ==
  ASSUME NEW u, Kicked(u), \A t \in Shards : FesOf(t) # {} => ~First(u, t),
         \A z \in Flights' : z \in Kicks(u) => z \in Flights,
         tempCookie'[u] \in {tempCookie[u], NoShard}, KicksFirst(u)'
  PROVE  Kicked(u)'
<1>1. ASSUME NEW t \in Shards PROVE ~InDanger(u, t)'
  <2>1. ~InDanger(u, t)
    BY DEF Kicked, DangerOK, InDanger
  <2>2. QED
    BY <2>1, NullsDistinct DEF InDanger
<1>2. ASSUME NEW z \in Flights', z \in Kicks(u), z[1][2] \in Fess PROVE FALSE
  <2>1. First(u, z[1][1])
    BY <1>2 DEF Kicked, KicksOK
  <2>2. z[1] \in Links
    BY <1>2 DEF Kicks, Flying
  <2>3. QED
    BY <1>2, <2>1, <2>2, DownLinks
<1>3. QED
  BY <1>1, <1>2 DEF Kicked, DangerOK, KicksOK

(* Nothing of the data moves: the last version stays where it is known to  *)
(* be.                                                                     *)
LEMMA StoredFewer ==
  ASSUME NEW u, Stored(u), LSHolds(u), DataStays(u), Room(u)' \subseteq Room(u), LoadedShard(u) \in Shards, infoCur[u] \in ShardOrNone,
         NoShard \notin Shards,
         \A z \in Flights' : z \in Copies(u) => z \in Flights,
         \A z \in JobFlights' : z \in CopyJobs(u) => z \in JobFlights
  PROVE  Stored(u)'
<1>1. HomeOfData(u)' = HomeOfData(u) /\ HomeOfData(u) \in Shards
  BY DEF HomeOfData, LSHolds, ShardOrNone
<1>2. ASSUME NEW z \in Flights', z \in Copies(u) PROVE CopyOK(u, z)'
  <2>1. CopyOK(u, z) /\ z[1] \in Links /\ z[2].kind \in DataKinds
    BY <1>2 DEF Stored, Copies, Flying
  <2>2. QED
    BY <2>1 DEF CopyOK, DataStays
<1>3. ASSUME NEW z \in JobFlights', z \in CopyJobs(u) PROVE data'[z[1]][u] = latest'[u]
  BY <1>3 DEF Stored, CopyJobs, DataStays
<1>4. QED
  BY <1>1, <1>2, <1>3 DEF Stored, LSHolds, DataStays

(* Every entry of u stays or goes on.                                      *)
EntriesGo(u) ==
  /\ \A z \in Flights' : z \in Ahead(u) =>
       (z \in Flights /\ changeReq'[u] = changeReq[u]) \/ GoesOn(u, z)
  /\ \/ changeReq'[u] = changeReq[u]
     \/ /\ \E x \in Flights : x \in Ahead(u)
        /\ \A s \in Shards : FesOf(s) # {} => ~First(u, s)

(* A step that changes nothing of u but what is in flight, what u waits    *)
(* for, and what is forgotten.                                             *)
LEMMA Proceeds ==
  ASSUME NEW u \in Users, TypeOK, OfItsShard, Kept(u),
         LSStays(u), WSStays(u), LoginStays(u), SocksStay(u),
         OneEnd(u)', NoNewEnd(u), OneCopy(u)', Stored(u)', LoneIn(Ahead(u))',
         EntriesGo(u), NoNewDanger(u), KicksFirst(u)'
  PROVE  Kept(u)'
<1> USE DEF EntriesGo
<1>1. /\ Inside(u) /\ Outside(u) /\ Leaves(u) /\ TokensOK(u) /\ Young(u) /\ Kicked(u)
  BY DEF Kept
<1>2. Inside(u)' /\ Outside(u)'
  BY <1>1, InsideFewer, OutsideFewer DEF SocksStay, LSStays, LSKeeps
<1>3. Calls(u) => Calls(u)'
  BY CallsStays DEF SocksStay, LSStays, LSKeeps
<1>4. changeReq'[u] = changeReq[u] => (Blank(u) => Blank(u)')
  BY BlankStays DEF SocksStay, LSStays, LSKeeps
<1>5. Leaves(u)'
  <2>1. \A z \in Flights' : z \in Ahead(u) =>
          \/ z \in Flights
          \/ \A s \in Shards : EndsOn(u, s) /\ current[u] = NoShard => LeftTok(u, s, z)
    BY DEF GoesOn
  <2>2. QED
    BY <1>1, <2>1, LeavesFewer DEF SocksStay, LSStays, LSKeeps, LSHolds
<1>6. TokensOK(u)'
  <2>1. ASSUME NEW z \in Flights' PROVE TokenOK(u, z)'
    <3>1. CASE z \notin Ahead(u)
      BY <3>1 DEF TokenOK, Ahead
    <3>2. CASE GoesOn(u, z)
      BY <3>2 DEF GoesOn
    <3>3. CASE z \in Flights /\ changeReq'[u] = changeReq[u]
      BY <1>1, <1>3, <1>4, <3>3, TokenStays DEF TokensOK, SocksStay
    <3>4. QED
      BY <3>1, <3>2, <3>3
  <2>2. QED
    BY <2>1 DEF TokensOK
<1>7. Young(u)'
  <2>1. \/ (Blank(u) => Blank(u)') /\ (\A z \in Flights' : z \in Ahead(u) => z \in Flights)
        \/ \E x \in Flights : x \in Ahead(u)
    BY <1>4 DEF GoesOn
  <2>2. QED
    BY <1>1, <1>3, <2>1, YoungFewer DEF SocksStay
<1>8. DangersStay(u)
  <2>1. ASSUME NEW s \in Shards, FesOf(s) # {}, First(u, s)
        PROVE  changeReq'[u] = changeReq[u] /\ \A z \in Flights' : z \in Ahead(u) => z \in Flights \/ FirstTok(u, s, z)
    BY <2>1 DEF GoesOn
  <2>2. ASSUME NEW s \in Shards, FesOf(s) # {}, First(u, s) PROVE First(u, s)'
    BY <2>1, <2>2, FirstStays DEF SocksStay
  <2>3. ASSUME NEW s \in Shards, NEW f \in Fess, ShardOf[f] = s, First(u, s), Past(u, s, f)
        PROVE  Past(u, s, f)'
    <3>1. \A z \in Flights' : z \in Ahead(u) => z \in Flights \/ PastTok(u, s, f, z)
      BY <2>3 DEF GoesOn
    <3>2. QED
      BY <2>3, <3>1, PastStays DEF SocksStay
  <2>4. QED
    BY <2>2, <2>3 DEF DangersStay
<1>9. Kicked(u)'
  BY <1>1, <1>8, KickedFewer
<1>10. QED
  BY <1>2, <1>5, <1>6, <1>7, <1>9 DEF Kept

(* When the handover is safe: clients wait for M_ENTER__SHARD before they  *)
(* do anything else, a user logs in once, no query fails, and no move of   *)
(* data is dropped after its minute. Users, shards, front ends, sockets,   *)
(* changes of shard, plays and timeouts of cookies are not bounded.        *)
Settings == /\ ClientsWait = TRUE /\ MaxLogins = 1 /\ MaxDbFaults = 0 /\ MaxMoveTimeouts = 0

(* Nothing about u moves.                                                  *)
LEMMA Untouched ==
  ASSUME NEW u \in Users, TypeOK, OfItsShard, Kept(u),
         LSStays(u), WSStays(u), LoginStays(u), SocksStay(u), DataStays(u), changeReq'[u] = changeReq[u],
         NEW X, NEW Y, NetOf(u, X, Y), NEW JX, NEW JY, JobsOf(u, JX, JY),
         \A y \in Y : y[2].u # u, \A y \in JY : y[2].u # u,
         Ordered(Entry(u), Kicks(u))'
  PROVE  Kept(u)'
<1>1. /\ \A y \in Y : y \notin Ahead(u) /\ y \notin Reports(u, 0) /\ y \notin Copies(u) /\ y \notin Kicks(u)
      /\ \A y \in JY : y \notin EndJobs(u) /\ y \notin CopyJobs(u)
  BY DEF Ahead, Asking, Reports, Entry, Copies, Kicks, EndJobs, CopyJobs
<1>2. /\ OneEnd(u) /\ OneCopy(u) /\ TokensOK(u) /\ Kicked(u) /\ Stored(u)
  BY DEF Kept
<1>3. OneEnd(u)' /\ NoNewEnd(u)
  BY <1>1, <1>2, EndsFewer DEF SocksStay
<1>4. /\ OneCopy(u)'
      /\ \A z \in Flights' : z \in Copies(u) => z \in Flights
      /\ \A z \in JobFlights' : z \in CopyJobs(u) => z \in JobFlights
  BY <1>1, <1>2, CopiesFewer
<1>5. Stored(u)'
  <2>1. LoadedShard(u) \in Shards /\ infoCur[u] \in ShardOrNone
    BY PlacesOK DEF TypeOK, NetTypeOK, LSTypeOK, LoadedShard, ShardOrNone
  <2>2. QED
    BY <1>2, <1>4, <2>1, StoredFewer, NullsDistinct DEF SocksStay, LSStays, LSKeeps
<1>6. /\ LoneIn(Ahead(u))'
      /\ \A z \in Flights' : z \in Ahead(u) => z \in Flights
  BY <1>1, <1>2 DEF TokensOK, NetOf, Moves
<1>7. \A z \in Flights' : z \in Kicks(u) => z \in Flights
  BY <1>1 DEF NetOf, Moves
<1>8. NoNewDanger(u)
  BY <1>2, <1>7, DangersFewer DEF LSStays
<1>9. KicksFirst(u)'
  <2>1. \A z \in Flights' : z \in Entry(u) => z \in Flights
    BY <1>6 DEF Ahead
  <2>2. QED
    BY <1>2, <1>7, <2>1 DEF Kicked, KicksFirst
<1>10. EntriesGo(u)
  BY <1>6 DEF EntriesGo
<1>11. QED
  BY <1>3, <1>4, <1>5, <1>6, <1>8, <1>9, <1>10, Proceeds

(* What is known around a step.                                            *)
Around ==
  /\ TypeOK /\ TypeOK' /\ OfItsShard /\ WaitsForAnotherShard
  /\ NoForce /\ ChangesToShards /\ OpenShown /\ \A f \in Fess : Sockets(f)
  /\ Settings

(* Around a step, every service is well typed, before and after.           *)
LEMMA AroundTyped ==
  ASSUME Around
  PROVE  /\ NetTyped /\ NetTyped' /\ TypeOK /\ TypeOK' /\ OfItsShard
         /\ LSTyped /\ WSTyped /\ FSTyped /\ SSTyped
BY TypeOKIs, NetIsTyped DEF Around, WSTyped, LSTyped, FSTyped, SSTyped, TypeOK, NetTypeOK, NetTyped

(* What each service holds of a user is well typed.                        *)
LEMMA UserTyped ==
  ASSUME Around, NEW u \in Users
  PROVE  /\ current[u] \in ShardOrNone /\ waiting[u] \in Place /\ moving[u] \in Move
         /\ infoCur[u] \in ShardOrNone /\ tempCookie[u] \in ShardOrNone /\ changeReq[u] \in Place
         /\ abnormal[u] \in BOOLEAN /\ dbOnline[u] \in ShardOrNone /\ dbCur[u] \in ShardOrNone
         /\ MainShard[u] \in Shards /\ LoadedShard(u) \in Shards /\ offers[u] \subseteq Offer
         /\ latest[u] \in Nat
         /\ \A s \in Shards : wsAssoc[s][u] \in FesOrNone /\ data[s][u] \in Nat
<1>1. NetTypeOK /\ LSTypeOK /\ WSTypeOK /\ FSTypeOK /\ latest \in [Users -> Nat]
  BY DEF Around, TypeOK
<1>2. MainShard[u] \in Shards /\ LoadedShard(u) \in Shards
  BY <1>1, PlacesOK DEF NetTypeOK, LoadedShard, ShardOrNone
<1>3. QED
  BY <1>1, <1>2 DEF NetTypeOK, LSTypeOK, WSTypeOK, FSTypeOK

(* The domains of what is kept for each user.                              *)
LEMMA MovesWider ==
  ASSUME NEW X, NEW Y, NEW Z, NEW K, Moves(X, Y, K), \A y \in Y : y \in Z
  PROVE  Moves(X, Z, K)
BY DEF Moves

(* Of what concerns u, outs sends one thing of a kind; or nothing.         *)
LoneFor(u, me, outs) ==
  /\ LoneSent(me, outs, Ahead(u)) /\ LoneSent(me, outs, Reports(u, 0))
  /\ LoneSent(me, outs, Copies(u)) /\ LoneSent(me, outs, Kicks(u))
Concerns(u, z) == z \in Ahead(u) \/ z \in Reports(u, 0) \/ z \in Copies(u) \/ z \in Kicks(u)
Mute(u, me, outs) == \A z \in Sent(me, outs) : ~Concerns(u, z)

(* One message, or none, is at most one about u.                           *)
LEMMA LoneForOne ==
  ASSUME NEW u, NEW me, NEW n, NEW m
  PROVE  LoneFor(u, me, To(n, m)) /\ LoneFor(u, me, Silent) /\ Mute(u, me, Silent)
BY SentTo, SentSilent DEF LoneFor, Mute

(* Two outboxes, one of them mute about u, are together at most one        *)
(* message about u.                                                        *)
LEMMA LoneForBoth ==
  ASSUME NEW u, NEW me, NEW a \in Outbox, NEW b \in Outbox, LoneFor(u, me, a), LoneFor(u, me, b),
         Mute(u, me, a) \/ Mute(u, me, b)
  PROVE  /\ LoneFor(u, me, a \oplus b)
         /\ \A z \in Sent(me, a \oplus b) : z \in Sent(me, a) \/ z \in Sent(me, b)
         /\ Mute(u, me, a) /\ Mute(u, me, b) => Mute(u, me, a \oplus b)
<1>1. /\ Ahead(u) \subseteq Flying /\ Reports(u, 0) \subseteq Flying
      /\ Copies(u) \subseteq Flying /\ Kicks(u) \subseteq Flying
  BY DEF Ahead, Asking, Reports, Entry, Copies, Kicks
<1>2. ASSUME NEW K, K \subseteq Flying, LoneSent(me, a, K), LoneSent(me, b, K),
             (\A z \in Sent(me, a) : z \notin K) \/ (\A z \in Sent(me, b) : z \notin K)
      PROVE  /\ \A z \in Sent(me, a \oplus b) : z \in Sent(me, a) \/ z \in Sent(me, b)
             /\ LoneSent(me, a \oplus b, K)
  BY <1>2, SentBoth
<1>3. LoneFor(u, me, a \oplus b) /\ \A z \in Sent(me, a \oplus b) : z \in Sent(me, a) \/ z \in Sent(me, b)
  BY <1>1, <1>2 DEF LoneFor, Mute, Concerns
<1>4. QED
  BY <1>3 DEF Mute

(* What To sends is its message.                                           *)
LEMMA SentOne ==
  ASSUME NEW me, NEW n, NEW m, NEW z \in Sent(me, To(n, m))
  PROVE  z = <<<<me, n>>, m>>
<1>1. \A y \in Sent(me, To(n, m)) : y = <<<<me, n>>, m>> /\ <<me, n>> \in Links
      /\ LoneSent(me, To(n, m), {})
  BY SentTo
<1>2. QED
  BY <1>1

(* Silent sends nothing.                                                   *)
LEMMA SentNone ==
  ASSUME NEW me, NEW z \in Sent(me, Silent)
  PROVE  FALSE
<1>1. Sent(me, Silent) = {} /\ LoneSent(me, Silent, {})
  BY SentSilent
<1>2. QED
  BY <1>1

(* The message at the head of a link.                                      *)
LEMMA HeadIs ==
  ASSUME Around, NEW src, NEW me, <<src, me>> \in Links, NEW kind, Pending(src, me, kind),
         NEW m, m = Head(net[<<src, me>>])
  PROVE  /\ <<<<src, me>>, m>> \in Flights /\ <<<<src, me>>, m>> \in Flying
         /\ m \in Message /\ m.kind = kind /\ m.u \in Users
BY AroundTyped, HeadFlies, MessageIs DEF Flying

(* What a handler that takes a message does to the links, for u.           *)
LEMMA Received ==
  ASSUME Around, NEW src, NEW me, <<src, me>> \in Links, NEW kind, Pending(src, me, kind),
         NEW m, m = Head(net[<<src, me>>]), NEW outs \in Outbox, Receive(src, me, outs),
         NEW u, LoneFor(u, me, outs), NEW Y, \A y \in Sent(me, outs) : y \in Y
  PROVE  /\ NetOf(u, {<<<<src, me>>, m>>}, Y)
         /\ Ordered(Entry(u), Kicks(u)) /\ (\A y \in Y : y \notin Kicks(u))
              => Ordered(Entry(u), Kicks(u))'
<1> DEFINE X == {<<<<src, me>>, m>>}
<1>1. ASSUME NEW K, LoneSent(me, outs, K)
      PROVE  Moves(X, Y, K)
  <2>1. Moves(X, Sent(me, outs), K)
    BY <1>1, AroundTyped, ReceiveMoves
  <2>2. QED
    BY <2>1, MovesWider
<1> HIDE DEF X
<1>2. NetOf(u, X, Y)
  BY <1>1 DEF NetOf, LoneFor
<1>3. ASSUME Ordered(Entry(u), Kicks(u)), \A y \in Y : y \notin Kicks(u)
      PROVE  Ordered(Entry(u), Kicks(u))'
  <2>1. \A y \in Sent(me, outs) : y \in Kicks(u) => \A z \in Flights' : z \in Entry(u) => z[1] # y[1]
    BY <1>3
  <2> DEFINE A == Entry(u)
             B == Kicks(u)
  <2>2. Ordered(A, B)
    BY <1>3
  <2>3. \A y \in Sent(me, outs) : y \in B => \A z \in Flights' : z \in A => z[1] # y[1]
    BY <2>1
  <2>4. A' = A /\ B' = B
    BY DEF Entry, Kicks, Flying
  <2> HIDE DEF A, B
  <2>5. QED
    BY <2>2, <2>3, AroundTyped, ReceiveOrdered DEF A, B
<1>4. QED
  BY <1>2, <1>3 DEF X

(* The same, when it sends nothing.                                        *)
LEMMA ReceivedSilent ==
  ASSUME Around, NEW src, NEW me, <<src, me>> \in Links, NEW kind, Pending(src, me, kind),
         NEW m, m = Head(net[<<src, me>>]), Receive(src, me, Silent), NEW u
  PROVE  /\ NetOf(u, {<<<<src, me>>, m>>}, {})
         /\ Ordered(Entry(u), Kicks(u)) => Ordered(Entry(u), Kicks(u))'
<1>1. \A y \in Sent(me, Silent) : y \in {}
  BY SentSilent
<1>2. LoneFor(u, me, Silent)
  BY LoneForOne
<1>3. PICK Y : Y = {}
  OBVIOUS
<1>4. \A y \in Sent(me, Silent) : y \in Y
  BY <1>1, <1>3
<1>5. /\ NetOf(u, {<<<<src, me>>, m>>}, Y)
      /\ (Ordered(Entry(u), Kicks(u)) /\ (\A y \in Y : y \notin Kicks(u)) => Ordered(Entry(u), Kicks(u))')
  BY <1>2, <1>4, SilentTyped, Received
<1>6. QED
  BY <1>3, <1>5

(* The same, when it sends one message.                                    *)
LEMMA ReceivedTo ==
  ASSUME Around, NEW src, NEW me, <<src, me>> \in Links, NEW kind, Pending(src, me, kind),
         NEW m, m = Head(net[<<src, me>>]), NEW n, NEW p \in Message, Receive(src, me, To(n, p)), NEW u
  PROVE  /\ NetOf(u, {<<<<src, me>>, m>>}, {<<<<me, n>>, p>>})
         /\ Ordered(Entry(u), Kicks(u)) /\ <<<<me, n>>, p>> \notin Kicks(u)
              => Ordered(Entry(u), Kicks(u))'
<1>9. ASSUME NEW z \in Sent(me, To(n, p)) PROVE z = <<<<me, n>>, p>>
  BY SentOne
<1> DEFINE Y == {<<<<me, n>>, p>>}
           outs == To(n, p)
<1>1. \A y \in Sent(me, outs) : y \in Y
  BY <1>9
<1>8. LoneFor(u, me, outs)
  BY LoneForOne
<1>2. (\A y \in Y : y \notin Kicks(u)) <=> <<<<me, n>>, p>> \notin Kicks(u)
  OBVIOUS
<1>3. outs \in Outbox /\ Receive(src, me, outs)
  BY ToTyped
<1> HIDE DEF Y, outs
<1>4. NetOf(u, {<<<<src, me>>, m>>}, Y)
      /\ (Ordered(Entry(u), Kicks(u)) /\ (\A y \in Y : y \notin Kicks(u)) => Ordered(Entry(u), Kicks(u))')
  BY <1>1, <1>3, <1>8, Received
<1>5. QED
  BY <1>2, <1>4 DEF Y

(* The same, for a step that only sends one message.                       *)
LEMMA EmittedTo ==
  ASSUME Around, NEW me, NEW n, NEW p \in Message, Emit(me, To(n, p)), NEW u
  PROVE  /\ NetOf(u, {}, {<<<<me, n>>, p>>})
         /\ Ordered(Entry(u), Kicks(u)) /\ <<<<me, n>>, p>> \notin Kicks(u)
              => Ordered(Entry(u), Kicks(u))'
<1>9. ASSUME NEW z \in Sent(me, To(n, p)) PROVE z = <<<<me, n>>, p>>
  BY SentOne
<1> DEFINE Y == {<<<<me, n>>, p>>}
           outs == To(n, p)
<1>0. outs \in Outbox /\ Emit(me, outs)
  BY ToTyped
<1>1. \A y \in Sent(me, outs) : y \in Y
  BY <1>9
<1>8. LoneFor(u, me, outs)
  BY LoneForOne
<1>2. (\A y \in Y : y \notin Kicks(u)) <=> <<<<me, n>>, p>> \notin Kicks(u)
  OBVIOUS
<1> HIDE DEF Y, outs
<1>4. ASSUME NEW K, LoneSent(me, outs, K) PROVE Moves({}, Y, K)
  <2>1. Moves({}, Sent(me, outs), K)
    BY <1>0, <1>4, AroundTyped, EmitMoves
  <2>2. QED
    BY <1>1, <2>1, MovesWider
<1>5. NetOf(u, {}, Y)
  BY <1>4, <1>8 DEF NetOf, LoneFor
<1>6. ASSUME Ordered(Entry(u), Kicks(u)), \A y \in Y : y \notin Kicks(u)
      PROVE  Ordered(Entry(u), Kicks(u))'
  <2> DEFINE A == Entry(u)
             B == Kicks(u)
  <2>2. Ordered(A, B)
    BY <1>6
  <2>3. \A y \in Sent(me, outs) : y \notin B
    BY <1>1, <1>6
  <2>4. A' = A /\ B' = B
    BY DEF Entry, Kicks, Flying
  <2> HIDE DEF A, B
  <2>5. QED
    BY <1>0, <2>2, <2>3, AroundTyped, EmitOrdered DEF A, B
<1>7. QED
  BY <1>2, <1>5, <1>6 DEF Y

(* The same, when the links do not change.                                 *)
LEMMA NetStill ==
  ASSUME net' = net, NEW u
  PROVE  /\ NetOf(u, {}, {})
         /\ Ordered(Entry(u), Kicks(u)) => Ordered(Entry(u), Kicks(u))'
BY StillMoves DEF NetOf, Ordered, Entry, Kicks

(* The same, for a step that neither takes nor sends.                      *)
LEMMA EmittedNothing ==
  ASSUME Around, NEW me, Emit(me, Silent), NEW u
  PROVE  /\ NetOf(u, {}, {})
         /\ Ordered(Entry(u), Kicks(u)) => Ordered(Entry(u), Kicks(u))'
<1>1. ASSUME NEW l \in Links PROVE net'[l] = net[l]
  <2>1. net[l] \in Seq(Message) /\ l[2] \in Nodes
    BY AroundTyped, LinksAre DEF NetTyped
  <2>2. net[l] \o Silent[l[2]] = net[l]
    BY <2>1, ConcatEmptySeq DEF Silent
  <2>3. QED
    BY <2>2 DEF Emit
<1>2. net' = net
  BY <1>1, AroundTyped DEF NetTyped
<1>3. QED
  BY <1>2, NetStill

-----------------------------------------------------------------------------
(* What a service does not touch.                                          *)
LEMMA LSQuiet ==
  ASSUME UNCHANGED <<dbVars, lsVars>>, NEW u
  PROVE  LSStays(u) /\ changeReq'[u] = changeReq[u]
BY DEF dbVars, lsVars, LSStays, LSKeeps, LSHolds, LoadedShard, HomeOfData

(* A step that leaves the WSs alone keeps their associations, data and     *)
(* queries.                                                                *)
LEMMA WSQuiet ==
  ASSUME UNCHANGED <<wsVars, latest>>, NEW u
  PROVE  WSStays(u) /\ DataStays(u) /\ JobsOf(u, {}, {})
BY JobsStill DEF wsVars, WSStays, DataStays, JobsOf

(* A step that leaves the front ends alone keeps their sockets.            *)
LEMMA FSQuiet ==
  ASSUME UNCHANGED <<conn, offers>>, NEW u
  PROVE  SocksStay(u) /\ Gone(u)' = Gone(u)
BY DEF SocksStay, Room, Cand, Fresh, Content, Odd, Gone, Sock

(* A step that leaves the SS alone keeps the logins.                       *)
LEMMA SSQuiet ==
  ASSUME UNCHANGED <<sock, onlineStatus>>, NEW u
  PROVE  LoginStays(u)
BY DEF LoginStays

(* No query fails.                                                         *)
LEMMA NoFailure ==
  ASSUME Around, NEW fails \in BOOLEAN, Queries(fails)
  PROVE  ~fails /\ dbFaults' = 0
BY DEF Around, NoForce, Settings, Queries

(* A message to SS concerns nobody's entry, unless it is about one.        *)
Apart(k) == k \notin AskKinds \cup DataKinds \cup {"M_CLIENT_CONNECT_STATUS", "M_ENTER__SHARD", "M_CLIENT_DISCONNECT"}
(* Messages of the other kinds, to the SS, or about others do not concern  *)
(* u.                                                                      *)
LEMMA ApartConcerns ==
  ASSUME NEW u, NEW z, \/ Apart(z[2].kind)
                       \/ z[2].kind = "M_CLIENT_CONNECT_STATUS" /\ z[1][2] = SS
                       \/ z[2].u # u
  PROVE  ~Concerns(u, z)
BY DEF Apart, Concerns, Ahead, Asking, Reports, Entry, Copies, Kicks, AskKinds, DataKinds

(* The entry of u to s.                                                    *)
EntryTo(u, s, f) == <<<<LS, s>>, [Msg("M_ENTER__SHARD", u) EXCEPT !.fsSid = f]>>
(* What the LS sends when it admits u on s.                                *)
LEMMA AdmitSends ==
  ASSUME Around, NEW u \in Users, NEW s \in Shards, NEW f \in FesOrNone, NEW con \in Nat, NEW v
  PROVE  /\ AdmitOutbox(u, s, f, con) \in Outbox
         /\ LoneFor(v, LS, AdmitOutbox(u, s, f, con))
         /\ \A y \in Sent(LS, AdmitOutbox(u, s, f, con)) :
              \/ ~Concerns(v, y)
              \/ v = u /\ moving[u] = NoMove /\ infoCur[u] = s /\ y = EntryTo(u, s, f)
              \/ /\ v = u /\ MoveBeforeEntry(u, s) /\ y[1] = <<LS, infoCur[u]>>
                 /\ y[2].kind = "M_NT_MOVE_USER_DATA_REQ" /\ y[2].u = u
<1> DEFINE st == To(SS, [Msg("M_CLIENT_CONNECT_STATUS", u) EXCEPT !.v = con])
           go == IF moving[u] = NoMove /\ infoCur[u] = s THEN EnterShardOk(u, s, f)
                 ELSE IF MoveBeforeEntry(u, s) THEN MoveRequest(u, infoCur[u], s) ELSE Silent
<1>1. AdmitOutbox(u, s, f, con) = st \oplus go
  BY DEF AdmitOutbox
<1>2. st \in Outbox
  BY StatusTyped
<1>3. go \in Outbox
  BY UserTyped, EnterShardOkTyped, MoveRequestTyped, SilentTyped DEF MoveBeforeEntry, ShardOrNone
<1>4. LoneFor(v, LS, st) /\ Mute(v, LS, st)
  <2>1. ASSUME NEW y \in Sent(LS, st) PROVE ~Concerns(v, y)
    <3>1. y = <<<<LS, SS>>, [Msg("M_CLIENT_CONNECT_STATUS", u) EXCEPT !.v = con]>>
      BY SentOne
    <3>2. y[2].kind = "M_CLIENT_CONNECT_STATUS" /\ y[1][2] = SS
      BY <3>1 DEF Msg
    <3>3. QED
      BY <3>2, ApartConcerns
  <2>2. QED
    BY <2>1, LoneForOne DEF Mute
<1>5. LoneFor(v, LS, go)
  BY LoneForOne DEF EnterShardOk, MoveRequest
<1>6. ASSUME NEW y \in Sent(LS, go)
      PROVE  \/ ~Concerns(v, y)
             \/ v = u /\ moving[u] = NoMove /\ infoCur[u] = s /\ y = EntryTo(u, s, f)
             \/ /\ v = u /\ MoveBeforeEntry(u, s) /\ y[1] = <<LS, infoCur[u]>>
                /\ y[2].kind = "M_NT_MOVE_USER_DATA_REQ" /\ y[2].u = u
  <2>1. CASE moving[u] = NoMove /\ infoCur[u] = s
    <3>1. go = EnterShardOk(u, s, f)
      BY <2>1
    <3>2. y = EntryTo(u, s, f)
      BY <1>6, <3>1, SentOne DEF EnterShardOk, EntryTo
    <3>3. y[2].u = u
      BY <3>2 DEF EntryTo, Msg
    <3>4. QED
      BY <2>1, <3>2, <3>3, ApartConcerns
  <2>2. CASE ~(moving[u] = NoMove /\ infoCur[u] = s) /\ MoveBeforeEntry(u, s)
    <3>1. go = MoveRequest(u, infoCur[u], s)
      BY <2>2
    <3>2. PICK t : go = To(infoCur[u], [Msg("M_NT_MOVE_USER_DATA_REQ", u) EXCEPT !.s = t])
      BY <3>1 DEF MoveRequest
    <3>3. y = <<<<LS, infoCur[u]>>, [Msg("M_NT_MOVE_USER_DATA_REQ", u) EXCEPT !.s = t]>>
      BY <1>6, <3>2, SentOne
    <3>4. y[2].u = u /\ y[1] = <<LS, infoCur[u]>> /\ y[2].kind = "M_NT_MOVE_USER_DATA_REQ"
      BY <3>3 DEF Msg
    <3>5. QED
      BY <2>2, <3>4, ApartConcerns
  <2>3. CASE ~(moving[u] = NoMove /\ infoCur[u] = s) /\ ~MoveBeforeEntry(u, s)
    BY <1>6, <2>3, SentNone
  <2>4. QED
    BY <2>1, <2>2, <2>3
<1> HIDE DEF st, go
<1>7. /\ st \oplus go \in Outbox
      /\ LoneFor(v, LS, st \oplus go)
      /\ \A y \in Sent(LS, st \oplus go) : y \in Sent(LS, st) \/ y \in Sent(LS, go)
  BY <1>2, <1>3, <1>4, <1>5, LoneForBoth, JoinTyped
<1>8. QED
  BY <1>1, <1>4, <1>6, <1>7 DEF Mute

(* A user that the LS admits on s: it goes on to s as an entry, or its     *)
(* data do.                                                                *)
LEMMA Admitted ==
  ASSUME Around, NEW u \in Users, Kept(u), NEW s \in Shards, NEW f \in Fess, ShardOf[f] = s,
         current'[u] = s, dbOnline'[u] = s, tempCookie'[u] = NoShard, waiting'[u] = Nowhere,
         changeReq'[u] = changeReq[u], infoCur'[u] = infoCur[u], LoadedShard(u)' = LoadedShard(u),
         abnormal'[u] = abnormal[u], moving' = MoveForEntry(u, s, f),
         WSStays(u), DataStays(u), SocksStay(u), LoginStays(u), JobsOf(u, {}, {}),
         NEW X, NEW Y, NetOf(u, X, Y),
         \A y \in Y : \/ ~Concerns(u, y)
                      \/ moving[u] = NoMove /\ infoCur[u] = s /\ y = EntryTo(u, s, f)
                      \/ /\ MoveBeforeEntry(u, s) /\ y[1] = <<LS, infoCur[u]>>
                         /\ y[2].kind = "M_NT_MOVE_USER_DATA_REQ" /\ y[2].u = u,
         LoneIn(Ahead(u))', \A z \in Flights' : z \in Ahead(u) => z \in Y,
         OneEnd(u)', \A t \in Shards : EndsOn(u, t)' => t = s /\ Cand(u) = {},
         Room(u) = {}, offers[u] = {}, Fresh(u) = {}, ~Fetches(u), \A c \in Cand(u) : c[1] = f,
         \A n \in Logins : sock[u][n] \notin {"refused", "unused", "listed"},
         \A t \in Shards : First(u, t) => t = s,
         \A t \in Shards, g \in Fess : First(u, t) /\ Past(u, t, g) => g = f,
         Ordered(Entry(u), Kicks(u))'
  PROVE  Kept(u)'
<1>1. /\ Inside(u) /\ Outside(u) /\ OneCopy(u) /\ Kicked(u) /\ Stored(u) /\ infoCur[u] \in ShardOrNone
      /\ Nowhere \in Place /\ NoShard \notin Shards /\ NoFes \notin Fess
  BY UserTyped, NullsDistinct DEF Kept, Nowhere, Place, ShardOrNone, FesOrNone
<1>2. \/ moving'[u] = moving[u] /\ ~MoveBeforeEntry(u, s) /\ moving[u].to # s
      \/ moving'[u] = moving[u] /\ infoCur[u] = NoShard
      \/ /\ moving'[u] = [to |-> s, f |-> f, reason |-> 1]
         /\ MoveBeforeEntry(u, s) \/ moving[u].to = s
  BY DEF MoveForEntry, Around, TypeOK, LSTypeOK, MoveBeforeEntry
<1>3. Fetches(u)' => moving'[u] = [to |-> s, f |-> f, reason |-> 1]
  BY <1>2 DEF Fetches
<1>4. /\ Room(u)' = {} /\ Odd(u)' = {} /\ offers'[u] = {} /\ Fresh(u)' = {} /\ Cand(u)' = Cand(u)
      /\ ~Waits(u)'
  BY <1>1 DEF SocksStay, Inside, Waits
<1>5. ASSUME NEW z \in Flights', z \in Ahead(u)
      PROVE  moving[u] = NoMove /\ infoCur[u] = s /\ z = EntryTo(u, s, f)
  <2>1. z \in Y /\ Concerns(u, z)
    BY <1>5 DEF Concerns
  <2>2. z[2].kind # "M_NT_MOVE_USER_DATA_REQ"
    BY <1>5 DEF Ahead, Asking, Reports, Entry, AskKinds
  <2>3. QED
    BY <2>1, <2>2
<1>6. Inside(u)'
  BY <1>4 DEF Inside, IsLone
<1>7. Outside(u)'
  <2>1. OffersOK(u)' /\ FreshOK(u)' /\ WaitsOK(u)'
    BY <1>1, <1>4 DEF OffersOK, FreshOK, WaitsOK, IsLone, Outside
  <2>2. FetchOK(u)'
    BY <1>3, <1>4 DEF FetchOK
  <2>3. QED
    BY <2>1, <2>2 DEF Outside
<1>8. Leaves(u)'
  BY <1>1, <1>4 DEF Leaves
<1>9. TokensOK(u)'
  <2>1. ASSUME NEW z \in Flights' PROVE TokenOK(u, z)'
    <3>1. CASE z \notin Ahead(u)
      BY <3>1 DEF TokenOK, Ahead
    <3>2. CASE z \in Ahead(u)
      <4>1. moving[u] = NoMove /\ infoCur[u] = s /\ z = EntryTo(u, s, f)
        BY <1>5, <3>2
      <4>2. moving'[u] = NoMove
        BY <1>1, <1>2, <4>1 DEF MoveBeforeEntry, NoMove
      <4>3. /\ z \notin Asking(u) /\ z \notin Reports(u, 1) /\ EntryShard(z) = s /\ z[2].fsSid = f
        BY <4>1 DEF EntryTo, Msg, Asking, AskKinds, Reports, EntryShard
      <4>4. Calls(u)'
        BY <1>3, <1>4, <4>2 DEF Calls, NoMove, Fetches
      <4>5. EntryOK(u, z)'
        BY <1>4, <4>1, <4>2, <4>3, <4>4 DEF EntryOK
      <4>6. QED
        BY <4>3, <4>5 DEF TokenOK
    <3>3. QED
      BY <3>1, <3>2
  <2>2. QED
    BY <2>1 DEF TokensOK
<1>10. Young(u)'
  <2>1. \A n \in Logins : sock'[u][n] \notin {"refused", "unused", "listed"}
    BY DEF LoginStays
  <2>2. QED
    BY <2>1 DEF Young
<1>11. KicksFirst(u)'
  <2>1. ASSUME NEW z \in Flights', z \in Entry(u) PROVE z[1][2] = s
    BY <1>5, <2>1 DEF Ahead, EntryTo
  <2>2. s \notin Fess
    BY NodesDistinct
  <2>3. QED
    BY <2>1, <2>2 DEF KicksFirst
<1>12. Kicked(u)'
  <2>1. \A z \in Flights' : z \in Kicks(u) => z \in Flights
    <3>1. \A y \in Y : y \notin Kicks(u)
      BY DEF Concerns, EntryTo, Msg, Kicks
    <3>2. QED
      BY <3>1 DEF NetOf, Moves
  <2>2. ASSUME NEW t \in Shards, First(u, t) PROVE First(u, t)'
    <3>1. t = s /\ FirstHere(u, s)
      BY <2>2 DEF First
    <3>2. \A n \in Logins : sock'[u][n] \notin {"unused", "listed"}
      BY DEF LoginStays
    <3>3. FirstHere(u, s)'
      BY <1>3, <1>4, <3>1, <3>2 DEF FirstHere
    <3>4. ASSUME NEW z \in Flights' PROVE FirstTok(u, s, z)
      BY <1>5 DEF FirstTok, EntryTo, Msg, Ahead, Asking, Reports, AskKinds
    <3>5. QED
      BY <3>1, <3>3, <3>4 DEF First, FirstTok
  <2>3. ASSUME NEW t \in Shards, NEW g \in Fess, First(u, t), Past(u, t, g) PROVE Past(u, t, g)'
    <3>1. g = f
      BY <2>3
    <3>2. PastHere(u, f)'
      BY <1>3, <1>4 DEF PastHere
    <3>3. ASSUME NEW z \in Flights' PROVE PastTok(u, t, f, z)
      BY <1>5 DEF PastTok, EntryTo, Msg, Ahead, Asking, Reports, AskKinds
    <3>4. QED
      BY <3>1, <3>2, <3>3 DEF Past, PastTok
  <2>4. DangersStay(u)
    BY <2>2, <2>3 DEF DangersStay
  <2>5. NoNewDanger(u)
    <3>1. \A t \in Shards : InDanger(u, t)' => InDanger(u, t)
      BY <1>1, <2>1 DEF InDanger
    <3>2. QED
      BY <1>1, <2>1, <3>1 DEF NoNewDanger, Kicked, KicksOK
  <2>6. QED
    BY <1>1, <1>11, <2>4, <2>5, AroundTyped, KickedFewer
<1>13. moving'[u] = NoMove => moving[u] = NoMove /\ ~MoveBeforeEntry(u, s)
  BY <1>1, <1>2 DEF NoMove, MoveBeforeEntry
<1>14. ASSUME NEW z \in Flights', z \in Copies(u), z \notin Flights
       PROVE  MoveBeforeEntry(u, s) /\ z[1] = <<LS, infoCur[u]>> /\ z[2].kind = "M_NT_MOVE_USER_DATA_REQ" /\ z \in Y
  <2>1. z \in Y /\ Concerns(u, z)
    BY <1>14 DEF NetOf, Moves, Concerns
  <2>2. z # EntryTo(u, s, f)
    BY <1>14 DEF EntryTo, Msg, Copies, DataKinds
  <2>3. QED
    BY <2>1, <2>2
<1>15. \A z \in JobFlights' : z \in CopyJobs(u) => z \in JobFlights
  BY DEF JobsOf, JobsMove
<1>16. OneCopy(u)'
  <2>1. LoneIn(Copies(u))' /\ LoneJob(CopyJobs(u))'
    <3>1. CASE MoveBeforeEntry(u, s)
      <4>1. \A z \in Flights : z \notin Copies(u)
        BY <1>1, <3>1 DEF Stored, MoveBeforeEntry
      <4>2. QED
        BY <1>1, <4>1 DEF OneCopy, NetOf, Moves, JobsOf, JobsMove
    <3>2. CASE ~MoveBeforeEntry(u, s)
      <4>1. \A y \in Y : y \notin Copies(u)
        BY <3>2 DEF Concerns, EntryTo, Msg, Copies, DataKinds
      <4>2. QED
        BY <1>1, <4>1 DEF OneCopy, NetOf, Moves, JobsOf, JobsMove
    <3>3. QED
      BY <3>1, <3>2
  <2>2. ASSUME NEW z \in Flights', NEW y \in JobFlights', z \in Copies(u), y \in CopyJobs(u) PROVE FALSE
    BY <1>1, <1>14, <1>15, <2>2 DEF OneCopy, Stored, MoveBeforeEntry
  <2>3. QED
    BY <2>1, <2>2 DEF OneCopy
<1>17. Stored(u)'
  <2>1. HomeOfData(u)' = HomeOfData(u) /\ HomeOfData(u) \in Shards
    BY <1>1, UserTyped DEF HomeOfData, ShardOrNone
  <2>2. ASSUME NEW z \in Flights', z \in Copies(u) PROVE CopyOK(u, z)'
    <3>1. CASE z \in Flights
      <4>1. CopyOK(u, z)
        BY <1>1, <2>2, <3>1 DEF Stored
      <4>2. QED
        BY <4>1 DEF CopyOK, DataStays
    <3>2. CASE z \notin Flights
      <4>1. MoveBeforeEntry(u, s) /\ z[1] = <<LS, infoCur[u]>> /\ z[2].kind = "M_NT_MOVE_USER_DATA_REQ"
        BY <1>14, <2>2, <3>2
      <4>2. infoCur[u] \in Shards /\ data[infoCur[u]][u] = latest[u]
        BY <1>1, <4>1 DEF MoveBeforeEntry, Stored, HomeOfData, ShardOrNone
      <4>3. QED
        BY <4>1, <4>2 DEF CopyOK, DataStays
    <3>3. QED
      BY <3>1, <3>2
  <2>3. moving'[u] = NoMove => \A z \in Flights' : z \notin Copies(u)
    BY <1>1, <1>13, <1>14 DEF Stored
  <2>4. ASSUME NEW z \in JobFlights', z \in CopyJobs(u) PROVE data'[z[1]][u] = latest'[u]
    BY <1>1, <1>15, <2>4 DEF Stored, CopyJobs, DataStays
  <2>5. QED
    BY <1>1, <1>4, <1>13, <1>15, <2>1, <2>2, <2>3, <2>4 DEF Stored, DataStays
<1>18. QED
  BY <1>6, <1>7, <1>8, <1>9, <1>10, <1>12, <1>16, <1>17 DEF Kept

-----------------------------------------------------------------------------
(* Messages that are passed on.                                            *)

(* Nothing of v but what is in flight, and what v waits for, changes.      *)
Still(v) == /\ LSStays(v) /\ WSStays(v) /\ LoginStays(v) /\ SocksStay(v) /\ DataStays(v)
            /\ JobsOf(v, {}, {})

(* A step of the LS leaves everything of v when it leaves what the LS      *)
(* holds of v.                                                             *)
LEMMA StillLS ==
  ASSUME UNCHANGED <<wsVars, fsVars, ssVars, latest>>, NEW v, LSStays(v)
  PROVE  Still(v)
BY WSQuiet, FSQuiet, SSQuiet DEF Still, wsVars, fsVars, ssVars

(* A step of a WS leaves everything of v when associations, queries and    *)
(* data stay.                                                              *)
LEMMA StillWS ==
  ASSUME UNCHANGED <<dbVars, lsVars, fsVars, ssVars, latest, wsAssoc, jobs, data>>, NEW v
  PROVE  Still(v) /\ changeReq'[v] = changeReq[v]
<1>1. WSStays(v) /\ DataStays(v) /\ JobsOf(v, {}, {})
  BY JobsStill DEF WSStays, DataStays, JobsOf
<1>2. QED
  BY <1>1, LSQuiet, FSQuiet, SSQuiet DEF Still, fsVars, ssVars

(* A step of a front end leaves everything of v when its sockets stay.     *)
LEMMA StillFS ==
  ASSUME UNCHANGED <<dbVars, lsVars, wsVars, ssVars, latest>>, NEW v, SocksStay(v)
  PROVE  Still(v) /\ changeReq'[v] = changeReq[v]
BY LSQuiet, WSQuiet, SSQuiet DEF Still, ssVars

(* A step of the SS leaves everything of v when its logins stay.           *)
LEMMA StillSS ==
  ASSUME UNCHANGED <<dbVars, lsVars, wsVars, fsVars, latest>>, NEW v, LoginStays(v)
  PROVE  Still(v) /\ changeReq'[v] = changeReq[v]
BY LSQuiet, WSQuiet, FSQuiet DEF Still, fsVars

(* A step that sends nothing about v.                                      *)
LEMMA Unmoved ==
  ASSUME Around, NEW v \in Users, Kept(v), Still(v), changeReq'[v] = changeReq[v],
         NEW X, NEW Y, NetOf(v, X, Y), \A y \in Y : y[2].u # v,
         Ordered(Entry(v), Kicks(v)) => Ordered(Entry(v), Kicks(v))'
  PROVE  Kept(v)'
<1>1. Ordered(Entry(v), Kicks(v))'
  BY DEF Kept, Kicked, KicksFirst
<1>2. \A y \in {} : y[2].u # v
  OBVIOUS
<1>3. QED
  BY <1>1, <1>2, Untouched DEF Still, Around

(* A handler that changes nothing of v and sends nothing keeps Kept(v).    *)
LEMMA UnmovedSilent ==
  ASSUME Around, NEW v \in Users, Kept(v), Still(v), changeReq'[v] = changeReq[v],
         NEW src, NEW me, <<src, me>> \in Links, NEW kind, Pending(src, me, kind), Receive(src, me, Silent)
  PROVE  Kept(v)'
<1>1. PICK m : m = Head(net[<<src, me>>])
  OBVIOUS
<1>2. /\ NetOf(v, {<<<<src, me>>, m>>}, {})
      /\ Ordered(Entry(v), Kicks(v)) => Ordered(Entry(v), Kicks(v))'
  BY <1>1, ReceivedSilent
<1>3. \A y \in {} : y[2].u # v
  OBVIOUS
<1>4. QED
  BY <1>2, <1>3, Unmoved

(* A handler that changes nothing of v and sends one message that does not *)
(* concern v keeps Kept(v).                                                *)
LEMMA UnmovedTo ==
  ASSUME Around, NEW v \in Users, Kept(v), Still(v), changeReq'[v] = changeReq[v],
         NEW src, NEW me, <<src, me>> \in Links, NEW kind, Pending(src, me, kind),
         NEW n, NEW p \in Message, Receive(src, me, To(n, p)),
         p.u # v \/ ~Concerns(v, <<<<me, n>>, p>>)
  PROVE  Kept(v)'
<1>1. PICK m : m = Head(net[<<src, me>>])
  OBVIOUS
<1>2. PICK z : z = <<<<me, n>>, p>>
  OBVIOUS
<1>3. z \notin Kicks(v)
  BY <1>2 DEF Kicks, Concerns
<1>4. /\ NetOf(v, {<<<<src, me>>, m>>}, {z})
      /\ Ordered(Entry(v), Kicks(v)) => Ordered(Entry(v), Kicks(v))'
  BY <1>1, <1>2, <1>3, ReceivedTo
<1>5. CASE p.u # v
  <2>1. \A y \in {z} : y[2].u # v
    BY <1>2, <1>5
  <2>2. QED
    BY <1>4, <2>1, Unmoved
<1>6. CASE ~Concerns(v, z)
  <2>1. NetOf(v, {<<<<src, me>>, m>>}, {})
    BY <1>4, <1>6 DEF NetOf, Moves, Concerns
  <2>2. \A y \in {} : y[2].u # v
    OBVIOUS
  <2>3. QED
    BY <1>4, <2>1, <2>2, Unmoved
<1>7. QED
  BY <1>2, <1>5, <1>6

(* An entry of v that is passed on, or leads to the next step.             *)
LEMMA Relayed ==
  ASSUME Around, NEW v \in Users, Kept(v), Still(v),
         NEW src, NEW me, <<src, me>> \in Links, NEW kind, Pending(src, me, kind),
         NEW m, m = Head(net[<<src, me>>]), <<<<src, me>>, m>> \in Ahead(v),
         NEW n, NEW p \in Message, Receive(src, me, To(n, p)),
         NEW z, z = <<<<me, n>>, p>>, z \notin Reports(v, 0), z \notin Copies(v), z \notin Kicks(v),
         z \in Ahead(v) /\ NoNewEnd(v) => GoesOn(v, z),
         changeReq'[v] = changeReq[v] \/ \A s \in Shards : FesOf(s) # {} => ~First(v, s),
         z \in Entry(v) /\ n \in Fess => \A y \in Flights' : y \in Kicks(v) => y[1] # <<LS, me>>
  PROVE  Kept(v)'
<1> DEFINE X == {<<<<src, me>>, m>>}
<1>1. z \notin Reports(v, 0) /\ z \notin Copies(v) /\ z \notin Kicks(v)
  OBVIOUS
<1>2. /\ NetOf(v, X, {z})
      /\ Ordered(Entry(v), Kicks(v)) => Ordered(Entry(v), Kicks(v))'
  BY <1>1, ReceivedTo
<1>3. \E x \in X : x \in Ahead(v)
  OBVIOUS
<1>4. <<<<src, me>>, m>> \in Flights
  BY HeadIs
<1> HIDE DEF X
<1>5. /\ OneEnd(v) /\ OneCopy(v) /\ TokensOK(v) /\ Kicked(v) /\ Stored(v)
      /\ LSStays(v) /\ WSStays(v) /\ LoginStays(v) /\ SocksStay(v) /\ DataStays(v)
      /\ JobsOf(v, {}, {}) /\ TypeOK /\ OfItsShard
  BY DEF Kept, Still, Around
<1>6. OneEnd(v)' /\ NoNewEnd(v)
  <2>1. \A y \in {z} : y \notin Reports(v, 0)
    BY <1>1
  <2>2. \A y \in {} : y \notin EndJobs(v)
    OBVIOUS
  <2>3. QED
    BY <1>2, <1>5, <2>1, <2>2, EndsFewer DEF SocksStay
<1>7. /\ OneCopy(v)'
      /\ \A y \in Flights' : y \in Copies(v) => y \in Flights
      /\ \A y \in JobFlights' : y \in CopyJobs(v) => y \in JobFlights
  <2>1. \A y \in {z} : y \notin Copies(v)
    BY <1>1
  <2>2. \A y \in {} : y \notin CopyJobs(v)
    OBVIOUS
  <2>3. QED
    BY <1>2, <1>5, <2>1, <2>2, CopiesFewer
<1>8. Stored(v)'
  BY <1>5, <1>7, UserTyped, StoredFewer, NullsDistinct DEF SocksStay, LSStays, LSKeeps
<1>9. /\ LoneIn(Ahead(v))'
      /\ \A y \in Flights' : y \in Ahead(v) => y \in {z}
  BY <1>2, <1>3, <1>5 DEF TokensOK, NetOf, Moves
<1>10. \A y \in Flights' : y \in Kicks(v) => y \in Flights
  <2>1. \A y \in {z} : y \notin Kicks(v)
    BY <1>1
  <2>2. QED
    BY <1>2, <2>1 DEF NetOf, Moves
<1>11. NoNewDanger(v)
  BY <1>5, <1>10, DangersFewer DEF LSStays
<1>12. KicksFirst(v)'
  <2>1. Ordered(Entry(v), Kicks(v))'
    BY <1>2, <1>5 DEF Kicked, KicksFirst
  <2>2. ASSUME NEW x \in Flights', NEW y \in Flights', x \in Entry(v), x[1][2] \in Fess, y \in Kicks(v)
        PROVE  y[1] # <<LS, x[1][1]>>
    <3>1. x = z
      BY <1>9, <2>2 DEF Ahead
    <3>2. QED
      BY <2>2, <3>1
  <2>3. QED
    BY <2>1, <2>2 DEF KicksFirst
<1>13. \A y \in Flights' : y \in Ahead(v) => GoesOn(v, y)
  BY <1>6, <1>9
<1>14. \E x \in Flights : x \in Ahead(v)
  BY <1>4
<1>15. EntriesGo(v)
  BY <1>13, <1>14 DEF EntriesGo
<1>16. LoneIn(Ahead(v))'
  BY <1>9
<1>17. QED
  BY <1>5, <1>6, <1>7, <1>8, <1>11, <1>12, <1>15, <1>16, Proceeds

(* A request or an answer that is passed on.                               *)
LEMMA RelayedAsk ==
  ASSUME Around, NEW v \in Users, Kept(v), Still(v),
         NEW src, NEW me, <<src, me>> \in Links, NEW kind, Pending(src, me, kind),
         NEW m, m = Head(net[<<src, me>>]), kind \in AskKinds,
         NEW n, NEW p \in Message, Receive(src, me, To(n, p)), p.u = m.u, p.kind \in AskKinds,
         m.u = v => /\ AskOK(v, <<<<me, n>>, p>>)
                    /\ \A s \in Shards : FesOf(s) # {} /\ First(v, s) => FirstTok(v, s, <<<<me, n>>, p>>),
         \/ changeReq'[v] = changeReq[v]
         \/ m.u = v /\ changeReq'[v] = Nowhere /\ \A s \in Shards : FesOf(s) # {} => ~First(v, s)
  PROVE  Kept(v)'
<1>1. CASE m.u # v
  BY <1>1, UnmovedTo
<1>2. CASE m.u = v
  <2>1. PICK x : x = <<<<src, me>>, m>>
    OBVIOUS
  <2>2. PICK z : z = <<<<me, n>>, p>>
    OBVIOUS
  <2>3. x \in Asking(v) /\ x \in Flights
    BY <1>2, <2>1, HeadIs DEF Asking
  <2>4. /\ z \notin Entry(v) /\ z \notin Reports(v, 1) /\ z \notin Reports(v, 0)
        /\ z \notin Copies(v) /\ z \notin Kicks(v)
    BY <2>2 DEF Copies, Kicks, Entry, Reports, AskKinds, DataKinds
  <2>5. ASSUME z \in Ahead(v), NoNewEnd(v) PROVE GoesOn(v, z)
    <3>1. Calls(v) => Calls(v)'
      BY CallsStays DEF Still, SocksStay, LSStays, LSKeeps
    <3>2. Blank(v) => Blank(v)'
      BY <2>5 DEF Blank, NoNewEnd, Still, LSStays, LSKeeps, LSHolds, WSStays, SocksStay, Waits
    <3>3. TokenOK(v, z)
      BY <1>2, <2>2, <2>4 DEF TokenOK
    <3>4. TokenOK(v, z)'
      BY <2>5, <3>1, <3>2, <3>3, TokenStays DEF Still, SocksStay
    <3>5. \A s \in Shards : EndsOn(v, s) => current[v] # NoShard
      BY <2>3 DEF Kept, Leaves, LeftTok
    <3>6. \A s \in Shards, f \in Fess : ~Past(v, s, f)
      BY <2>3 DEF Past, PastTok
    <3>7. QED
      BY <1>2, <2>2, <2>3, <3>4, <3>5, <3>6 DEF GoesOn, Ahead
  <2>6. QED
    BY <2>1, <2>2, <2>3, <2>4, <2>5, Relayed DEF Ahead
<1>3. QED
  BY <1>1, <1>2

-----------------------------------------------------------------------------
(* The LS passes on what is asked and answered.                            *)
LEMMA AskHead ==
  ASSUME NEW u, Kept(u), NEW x \in Flights, x \in Asking(u)
  PROVE  /\ AskOK(u, x) /\ x \in Ahead(u)
         /\ \A s \in Shards : First(u, s) => FirstTok(u, s, x)
         /\ \A s \in Shards : EndsOn(u, s) => current[u] # NoShard
BY DEF Kept, TokensOK, TokenOK, Ahead, First, Leaves, LeftTok

(* LSChooseShardRefused keeps Kept for every user.                         *)
LEMMA KeptChooseShardRefused ==
  ASSUME Around, LSChooseShardRefused, UNCHANGED <<wsVars, fsVars, ssVars, latest>>, NEW v \in Users, Kept(v)
  PROVE  Kept(v)'
<1>1. PICK m : m = Head(net[<<SS, LS>>])
  OBVIOUS
<1>2. /\ <<SS, LS>> \in Links /\ Pending(SS, LS, "M_ENTER_SHARD_REQUEST")
      /\ Receive(SS, LS, To(SS, Msg("M_SC_FAIL", m.u)))
  BY <1>1, LinksAre DEF LSChooseShardRefused, ToSS
<1>3. /\ <<<<SS, LS>>, m>> \in Flights /\ <<<<SS, LS>>, m>> \in Flying
      /\ m.kind = "M_ENTER_SHARD_REQUEST" /\ m.u \in Users
  BY <1>1, <1>2, HeadIs
<1>4. PICK p : p = Msg("M_SC_FAIL", m.u)
  OBVIOUS
<1>5. p \in Message /\ p.u = m.u /\ p.kind = "M_SC_FAIL"
  BY <1>3, <1>4, MsgTyped, NullsTyped, WSNulls DEF Kinds, Answers, Msg
<1>6. Still(v) /\ changeReq'[v] = changeReq[v]
  BY LSQuiet, StillLS DEF LSChooseShardRefused
<1>7. ASSUME m.u = v
      PROVE  /\ AskOK(v, <<<<LS, SS>>, p>>)
             /\ \A s \in Shards : FesOf(s) # {} /\ First(v, s) => FirstTok(v, s, <<<<LS, SS>>, p>>)
  <2>1. PICK x : x = <<<<SS, LS>>, m>>
    OBVIOUS
  <2>2. x \in Asking(v)
    BY <1>3, <1>7, <2>1 DEF Asking, AskKinds
  <2>3. AskOK(v, x) /\ \A s \in Shards : First(v, s) => FirstTok(v, s, x)
    BY <1>3, <2>1, <2>2, AskHead
  <2>4. AskOK(v, <<<<LS, SS>>, p>>)
    BY <1>3, <1>5, <2>1, <2>3 DEF AskOK, Answers
  <2>5. \A s \in Shards : ~First(v, s)
    BY <1>3, <2>1, <2>2, <2>3, NodesDistinct DEF FirstTok
  <2>6. QED
    BY <2>4, <2>5
<1>8. QED
  BY <1>1, <1>2, <1>4, <1>5, <1>6, <1>7, RelayedAsk DEF AskKinds

(* LSShardAnswer keeps Kept for every user.                                *)
LEMMA KeptShardAnswer ==
  ASSUME Around, NEW s \in Shards, LSShardAnswer(s), UNCHANGED <<wsVars, fsVars, ssVars, latest>>,
         NEW v \in Users, Kept(v)
  PROVE  Kept(v)'
<1>1. PICK m : m = Head(net[<<s, LS>>])
  OBVIOUS
<1>2. <<s, LS>> \in Links /\ Pending(s, LS, "M_ENTER_SHARD_ANSWER")
  BY LinksAre DEF LSShardAnswer
<1>3. /\ <<<<s, LS>>, m>> \in Flights /\ <<<<s, LS>>, m>> \in Flying
      /\ m.kind = "M_ENTER_SHARD_ANSWER" /\ m.u \in Users /\ m \in Message
  BY <1>1, <1>2, HeadIs
<1>4. Still(v)
  <2>1. LSStays(v)
    BY DEF LSShardAnswer, LSStays, LSKeeps, LSHolds, LoadedShard, HomeOfData, dbVars
  <2>2. QED
    BY <2>1, StillLS
<1>5. PICK x : x = <<<<s, LS>>, m>>
  OBVIOUS
<1>6. ASSUME m.u = v
      PROVE  /\ x \in Asking(v)
             /\ AskOK(v, x) /\ \A t \in Shards : First(v, t) => FirstTok(v, t, x)
  <2>1. x \in Asking(v)
    BY <1>3, <1>5, <1>6 DEF Asking, AskKinds
  <2>2. QED
    BY <1>3, <1>5, <2>1, AskHead
<1>7. SS \notin Shards /\ LS \notin Shards /\ LS # SS /\ changeReq \in [Users -> Place]
  BY NodesDistinct DEF Around, TypeOK, LSTypeOK
<1>8. CASE tempCookie[m.u] # NoShard /\ Receive(s, LS, To(SS, m)) /\ UNCHANGED changeReq
  <2>1. ASSUME m.u = v
        PROVE  /\ AskOK(v, <<<<LS, SS>>, m>>)
               /\ \A t \in Shards : FesOf(t) # {} /\ First(v, t) => FirstTok(v, t, <<<<LS, SS>>, m>>)
    <3>1. AskOK(v, <<<<LS, SS>>, m>>)
      BY <1>3, <1>5, <1>6, <1>7, <1>8, <2>1 DEF AskOK
    <3>2. ASSUME NEW t \in Shards, First(v, t) PROVE FirstTok(v, t, <<<<LS, SS>>, m>>)
      <4>1. FirstTok(v, t, x) /\ x \in Asking(v)
        BY <1>6, <2>1, <3>2
      <4>2. m.v = 0 /\ ShardOf[m.f] = t
        BY <1>3, <1>5, <4>1 DEF FirstTok
      <4>3. <<<<LS, SS>>, m>> \notin Reports(v, 1) /\ <<<<LS, SS>>, m>> \notin Entry(v)
        BY <1>3 DEF Reports, Entry
      <4>4. QED
        BY <1>3, <1>7, <4>2, <4>3 DEF FirstTok
    <3>3. QED
      BY <3>1, <3>2
  <2>2. QED
    BY <1>1, <1>2, <1>3, <1>4, <1>8, <2>1, RelayedAsk DEF AskKinds
<1>9. ASSUME NEW req, req = changeReq[m.u], tempCookie[m.u] = NoShard, req # Nowhere,
             changeReq' = [changeReq EXCEPT ![m.u] = Nowhere],
             Receive(s, LS, To(req.s, [m EXCEPT !.kind = "M_SC_CHANGE_SHARD_ANS", !.fsSid = req.f]))
      PROVE  Kept(v)'
  <2>1. PICK p : p = [m EXCEPT !.kind = "M_SC_CHANGE_SHARD_ANS", !.fsSid = req.f]
    OBVIOUS
  <2>2. req.s \in Shards /\ req.f \in FesOrNone
    BY <1>3, <1>7, <1>9 DEF Place, ChangesToShards, Around
  <2>3. p \in Message /\ p.u = m.u /\ p.kind = "M_SC_CHANGE_SHARD_ANS" /\ p.v = m.v /\ p.f = m.f
    <3>1. /\ m = [kind |-> m.kind, u |-> m.u, ck |-> m.ck, s |-> m.s,
                  f |-> m.f, fsSid |-> m.fsSid, v |-> m.v]
          /\ m.ck \in Cookie /\ m.s \in ShardOrNone /\ m.f \in FesOrNone /\ m.fsSid \in FesOrNone
          /\ m.v \in Nat /\ (m.v = 0 => m.f # NoFes)
      BY <1>3, MessageIs DEF Answers
    <3>2. p = [kind |-> "M_SC_CHANGE_SHARD_ANS", u |-> m.u, ck |-> m.ck, s |-> m.s,
               f |-> m.f, fsSid |-> req.f, v |-> m.v]
      BY <2>1, <3>1
    <3>3. QED
      BY <1>3, <2>2, <3>1, <3>2 DEF Message, Kinds
  <2>4. ASSUME m.u = v
        PROVE  /\ AskOK(v, <<<<LS, req.s>>, p>>)
               /\ \A t \in Shards : ~First(v, t)
    <3>1. \A t \in Shards : ~First(v, t)
      BY <1>9, <2>4 DEF First, FirstHere
    <3>2. req.s # SS /\ <<LS, req.s>> \notin {<<SS, LS>>, <<LS, SS>>}
      BY <1>7, <2>2
    <3>3. AskOK(v, <<<<LS, req.s>>, p>>)
      BY <1>3, <1>5, <1>6, <1>9, <2>3, <2>4, <3>2 DEF AskOK, Answers
    <3>4. QED
      BY <3>1, <3>3
  <2>5. \/ changeReq'[v] = changeReq[v]
        \/ m.u = v /\ changeReq'[v] = Nowhere /\ \A t \in Shards : FesOf(t) # {} => ~First(v, t)
    BY <1>3, <1>7, <1>9, <2>4
  <2>6. "M_ENTER_SHARD_ANSWER" \in AskKinds /\ p.kind \in AskKinds
    BY <2>3 DEF AskKinds
  <2>7. Receive(s, LS, To(req.s, p))
    BY <1>9, <2>1
  <2>8. QED
    BY <1>1, <1>2, <1>3, <1>4, <2>3, <2>4, <2>5, <2>6, <2>7, RelayedAsk
<1>10. CASE Receive(s, LS, Silent) /\ UNCHANGED changeReq
  BY <1>2, <1>4, <1>10, UnmovedSilent
<1>11. QED
  BY <1>1, <1>8, <1>9, <1>10 DEF LSShardAnswer

-----------------------------------------------------------------------------
(* The end of a login on its way.                                          *)
LEMMA KickPassed ==
  ASSUME Around, NEW v \in Users, Kept(v), Still(v), changeReq'[v] = changeReq[v],
         NEW X, NEW z, NetOf(v, X, {z}), z[2].kind = "M_CLIENT_DISCONNECT",
         \A s \in Shards : z \in Kicks(v) /\ z[1] = <<LS, s>> => tempCookie[v] = s,
         z \in Kicks(v) /\ z[1][2] \in Fess => First(v, z[1][1]) /\ Past(v, z[1][1], z[1][2]),
         Ordered(Entry(v), Kicks(v))',
         \A x \in Flights : x \in Entry(v) /\ x[1][2] \in Fess /\ z \in Kicks(v) => z[1] # <<LS, x[1][1]>>
  PROVE  Kept(v)'
<1>1. z \notin Reports(v, 0) /\ z \notin Copies(v) /\ z \notin Ahead(v)
  BY DEF Ahead, Asking, Reports, Entry, Copies, AskKinds, DataKinds
<1>5. /\ OneEnd(v) /\ OneCopy(v) /\ TokensOK(v) /\ Kicked(v) /\ Stored(v)
      /\ LSStays(v) /\ WSStays(v) /\ LoginStays(v) /\ SocksStay(v) /\ DataStays(v)
      /\ JobsOf(v, {}, {}) /\ TypeOK /\ OfItsShard
  BY DEF Kept, Still, Around
<1>6. OneEnd(v)' /\ NoNewEnd(v)
  <2>1. \A y \in {z} : y \notin Reports(v, 0)
    BY <1>1
  <2>2. \A y \in {} : y \notin EndJobs(v)
    OBVIOUS
  <2>3. QED
    BY <1>5, <2>1, <2>2, EndsFewer DEF SocksStay
<1>7. /\ OneCopy(v)'
      /\ \A y \in Flights' : y \in Copies(v) => y \in Flights
      /\ \A y \in JobFlights' : y \in CopyJobs(v) => y \in JobFlights
  <2>1. \A y \in {z} : y \notin Copies(v)
    BY <1>1
  <2>2. \A y \in {} : y \notin CopyJobs(v)
    OBVIOUS
  <2>3. QED
    BY <1>5, <2>1, <2>2, CopiesFewer
<1>8. Stored(v)'
  BY <1>5, <1>7, UserTyped, StoredFewer, NullsDistinct DEF SocksStay, LSStays, LSKeeps
<1>9. /\ LoneIn(Ahead(v))'
      /\ \A y \in Flights' : y \in Ahead(v) => y \in Flights
  <2>1. \A y \in {z} : y \notin Ahead(v)
    BY <1>1
  <2>2. QED
    BY <1>5, <2>1 DEF TokensOK, NetOf, Moves
<1>10. \A y \in Flights' : y \in Kicks(v) => y \in Flights \/ y = z
  BY DEF NetOf, Moves
<1>11. NoNewDanger(v)
  <2>1. ASSUME NEW s \in Shards, InDanger(v, s)' PROVE InDanger(v, s)
    BY <1>5, <1>10, <2>1, NullsDistinct DEF InDanger, LSStays, LSKeeps, LSHolds
  <2>2. ASSUME NEW y \in Flights', y \in Kicks(v), y[1][2] \in Fess
        PROVE  First(v, y[1][1]) /\ Past(v, y[1][1], y[1][2])
    BY <1>5, <1>10, <2>2 DEF Kicked, KicksOK
  <2>3. QED
    BY <2>1, <2>2 DEF NoNewDanger
<1>12. KicksFirst(v)'
  <2>1. ASSUME NEW x \in Flights', NEW y \in Flights', x \in Entry(v), x[1][2] \in Fess, y \in Kicks(v)
        PROVE  y[1] # <<LS, x[1][1]>>
    <3>1. x \in Flights
      BY <1>9, <2>1 DEF Ahead
    <3>2. QED
      BY <1>5, <1>10, <2>1, <3>1 DEF Kicked, KicksFirst
  <2>2. QED
    BY <2>1 DEF KicksFirst
<1>13. EntriesGo(v)
  BY <1>9 DEF EntriesGo
<1>14. QED
  BY <1>5, <1>6, <1>7, <1>8, <1>9, <1>11, <1>12, <1>13, Proceeds

(* Nothing is in flight of the first kind: any order holds.                *)
LEMMA NothingOrdered ==
  ASSUME NEW A, NEW B, \A x \in Flights' : x \notin A
  PROVE  Ordered(A, B)'
<1>1. ASSUME NEW l \in Links, NEW i \in DOMAIN net'[l] PROVE <<l, net'[l][i]>> \notin A
  BY DEF Flights
<1>2. QED
  BY <1>1 DEF Ordered

(* LSDisconnectClient keeps Kept for every user.                           *)
LEMMA KeptDisconnectClient ==
  ASSUME Around, LSDisconnectClient, UNCHANGED <<wsVars, fsVars, ssVars, latest>>, NEW v \in Users, Kept(v)
  PROVE  Kept(v)'
<1>1. PICK m : m = Head(net[<<SS, LS>>])
  OBVIOUS
<1>2. <<SS, LS>> \in Links /\ Pending(SS, LS, "M_CLIENT_DISCONNECT")
  BY LinksAre DEF LSDisconnectClient
<1>3. m.u \in Users
  BY <1>1, <1>2, HeadIs
<1>4. Still(v) /\ changeReq'[v] = changeReq[v]
  BY LSQuiet, StillLS DEF LSDisconnectClient
<1>5. CASE Receive(SS, LS, Silent)
  BY <1>2, <1>4, <1>5, UnmovedSilent
<1>6. ASSUME NEW t, t = tempCookie[m.u], t # NoShard, NEW p, p = Msg("M_CLIENT_DISCONNECT", m.u), Receive(SS, LS, To(t, p))
      PROVE  Kept(v)'
  <2>1. p \in Message /\ p.u = m.u /\ p.kind = "M_CLIENT_DISCONNECT"
    BY <1>3, <1>6, MsgTyped, NullsTyped, WSNulls DEF Kinds, Answers, Msg
  <2>2. CASE m.u # v
    BY <1>2, <1>4, <1>6, <2>1, <2>2, UnmovedTo
  <2>3. CASE m.u = v
    <3>1. PICK z : z = <<<<LS, t>>, p>>
      OBVIOUS
    <3>2. NetOf(v, {<<<<SS, LS>>, m>>}, {z})
      BY <1>1, <1>2, <1>6, <2>1, <3>1, ReceivedTo
    <3>3. \A x \in Flights : x \notin Entry(v)
      BY <1>6, <2>3 DEF Kept, TokensOK, TokenOK, EntryOK
    <3>4. \A x \in Flights' : x \notin Entry(v)
      <4>1. \A y \in {z} : y \notin Ahead(v)
        BY <2>1, <3>1 DEF Ahead, Asking, Reports, Entry, AskKinds
      <4>2. \A x \in Flights' : x \in Ahead(v) => x \in Flights
        BY <3>2, <4>1 DEF NetOf, Moves
      <4>3. QED
        BY <3>3, <4>2 DEF Ahead
    <3>5. Ordered(Entry(v), Kicks(v))'
      <4> DEFINE A == Entry(v)
                 B == Kicks(v)
      <4>1. \A x \in Flights' : x \notin A
        BY <3>4
      <4>2. A' = A /\ B' = B
        BY DEF Entry, Kicks, Flying
      <4> HIDE DEF A, B
      <4>3. QED
        BY <4>1, <4>2, NothingOrdered DEF A, B
    <3>6. t \in Shards /\ t \notin Fess
      BY <1>3, <1>6, UserTyped, NodesDistinct DEF ShardOrNone
    <3>7. z[2].kind = "M_CLIENT_DISCONNECT" /\ z[1] = <<LS, t>> /\ z[1][2] \notin Fess
      BY <2>1, <3>1, <3>6
    <3>8. \A s \in Shards : z \in Kicks(v) /\ z[1] = <<LS, s>> => tempCookie[v] = s
      BY <1>6, <2>3, <3>7
    <3>9. QED
      BY <1>4, <3>2, <3>3, <3>5, <3>7, <3>8, KickPassed
  <2>4. QED
    BY <2>2, <2>3
<1>7. QED
  BY <1>1, <1>5, <1>6 DEF LSDisconnectClient

(* LSRemovedPendingCookie keeps Kept for every user.                       *)
LEMMA KeptRemovedPendingCookie ==
  ASSUME Around, NEW s \in Shards, LSRemovedPendingCookie(s), UNCHANGED <<wsVars, fsVars, ssVars, latest>>,
         NEW v \in Users, Kept(v)
  PROVE  Kept(v)'
<1>1. LSStays(v) /\ changeReq'[v] = changeReq[v]
  BY DEF LSRemovedPendingCookie, LSStays, LSKeeps, LSHolds, LoadedShard, HomeOfData, dbVars, Around, TypeOK, LSTypeOK
<1>2. QED
  BY <1>1, LinksAre, StillLS, UnmovedSilent DEF LSRemovedPendingCookie

(* Nobody is forced off, and no move is dropped.                           *)
LEMMA NeverForced ==
  ASSUME Around
  PROVE  /\ ~LSForceLogoff /\ \A s \in Shards : ~LSReviseLogoff(s)
         /\ \A u \in Users : ~LSMoveTimeout(u)
         /\ \A s \in Shards : ~WSForceLogoff(s)
         /\ ~SSForceLogoff
<1>1. ASSUME NEW l \in Links, NEW kind, Pending(l[1], l[2], kind),
             kind \in {"M_NT_REQ_FORCE_LOGOFF", "M_LS_RELOGOFF"}
      PROVE  FALSE
  <2>1. l = <<l[1], l[2]>>
    BY LinksAre
  <2>2. <<l, Head(net[l])>> \in Flights /\ Head(net[l]).kind = kind
    BY <1>1, <2>1, HeadIs
  <2>3. QED
    BY <1>1, <2>2 DEF Around, NoForce
<1>2. ~LSForceLogoff /\ ~SSForceLogoff
  BY <1>1, LinksAre DEF LSForceLogoff, SSForceLogoff, FromLS
<1>3. \A s \in Shards : ~LSReviseLogoff(s) /\ ~WSForceLogoff(s)
  BY <1>1, LinksAre DEF LSReviseLogoff, WSForceLogoff
<1>4. \A u \in Users : ~LSMoveTimeout(u)
  BY DEF LSMoveTimeout, Around, NoForce, Settings
<1>5. QED
  BY <1>2, <1>3, <1>4

(* LSChangeShardReq keeps Kept for every user.                             *)
LEMMA KeptChangeShardReq ==
  ASSUME Around, NEW s \in Shards, LSChangeShardReq(s), UNCHANGED <<wsVars, fsVars, ssVars, latest>>,
         NEW v \in Users, Kept(v)
  PROVE  Kept(v)'
<1>1. PICK m : m = Head(net[<<s, LS>>])
  OBVIOUS
<1>2. <<s, LS>> \in Links /\ Pending(s, LS, "M_CS_CHANGE_SHARD_REQ")
  BY LinksAre DEF LSChangeShardReq
<1>3. /\ <<<<s, LS>>, m>> \in Flights /\ <<<<s, LS>>, m>> \in Flying
      /\ m.kind = "M_CS_CHANGE_SHARD_REQ" /\ m.u \in Users /\ m \in Message
  BY <1>1, <1>2, HeadIs
<1>4. Still(v)
  <2>1. LSStays(v)
    BY DEF LSChangeShardReq, LSStays, LSKeeps, LSHolds, LoadedShard, HomeOfData, dbVars
  <2>2. QED
    BY <2>1, StillLS
<1>5. PICK x : x = <<<<s, LS>>, m>>
  OBVIOUS
<1>6. changeReq \in [Users -> Place] /\ loginCookie \in [Users -> Cookie]
  BY DEF Around, TypeOK, LSTypeOK
<1>7. CASE Receive(s, LS, Silent) /\ changeReq' = [changeReq EXCEPT ![m.u] = @]
  BY <1>2, <1>4, <1>6, <1>7, UnmovedSilent
<1>8. ASSUME NEW p, p = [Msg("M_ENTER_SHARD_REQUEST", m.u) EXCEPT !.ck = loginCookie[m.u]],
             Receive(s, LS, To(m.s, p)),
             changeReq' = [changeReq EXCEPT ![m.u] = [s |-> s, f |-> m.fsSid]]
      PROVE  Kept(v)'
  <2>1. p \in Message /\ p.u = m.u /\ p.kind = "M_ENTER_SHARD_REQUEST"
    BY <1>3, <1>6, <1>8, MsgTyped, NullsTyped, WSNulls DEF Kinds, Answers, Msg
  <2>2. CASE m.u # v
    BY <1>2, <1>4, <1>6, <1>8, <2>1, <2>2, UnmovedTo
  <2>3. CASE m.u = v
    <3>1. PICK z : z = <<<<LS, m.s>>, p>>
      OBVIOUS
    <3>2. x \in Asking(v) /\ x \in Ahead(v)
      BY <1>3, <1>5, <2>3 DEF Asking, AskKinds, Ahead
    <3>3. /\ AskOK(v, x) /\ \A t \in Shards : First(v, t) => FirstTok(v, t, x)
          /\ \A t \in Shards : EndsOn(v, t) => current[v] # NoShard
      BY <1>3, <1>5, <3>2, AskHead
    <3>4. \A t \in Shards : ~First(v, t)
      BY <1>3, <1>5, <3>2, <3>3 DEF FirstTok
    <3>5. m.s \in Shards /\ tempCookie[v] = NoShard /\ current[v] # m.s
      BY <1>3, <1>5, <3>3 DEF AskOK
    <3>6. /\ z \notin Entry(v) /\ z \notin Reports(v, 1) /\ z \notin Reports(v, 0)
          /\ z \notin Copies(v) /\ z \notin Kicks(v)
      BY <2>1, <3>1 DEF Copies, Kicks, Entry, Reports, AskKinds, DataKinds
    <3>7. AskOK(v, z)'
      <4>1. Calls(v)'
        BY <1>4, <3>3, CallsStays DEF Still, SocksStay, LSStays, AskOK
      <4>2. /\ Cand(v)' = {} /\ Content(v)' = {} /\ current'[v] = current[v] /\ tempCookie'[v] = NoShard
        BY <1>4, <3>3, <3>5 DEF Still, SocksStay, LSStays, LSKeeps, LSHolds, AskOK
      <4>3. m.s # SS /\ LS # SS /\ m.s \notin Fess
        BY <3>5, NodesDistinct
      <4>4. QED
        BY <2>1, <3>1, <3>5, <4>1, <4>2, <4>3 DEF AskOK, Answers
    <3>8. \A t \in Shards, f \in Fess : ~Past(v, t, f)
      BY <1>3, <1>5, <3>2 DEF Past, PastTok
    <3>9. GoesOn(v, z)
      BY <1>3, <1>5, <3>2, <3>3, <3>4, <3>6, <3>7, <3>8 DEF GoesOn, TokenOK
    <3>10. QED
      BY <1>1, <1>2, <1>4, <1>5, <1>8, <2>1, <3>1, <3>2, <3>4, <3>6, <3>9, Relayed
  <2>4. QED
    BY <2>2, <2>3
<1>9. QED
  BY <1>1, <1>7, <1>8 DEF LSChangeShardReq

-----------------------------------------------------------------------------
(* A login that gets its list of shards, or chooses a shard.               *)
LEMMA KeptShardsList ==
  ASSUME Around, LSShardsList, UNCHANGED <<wsVars, fsVars, ssVars, latest>>, NEW v \in Users, Kept(v)
  PROVE  Kept(v)'
<1>1. PICK m : m = Head(net[<<SS, LS>>])
  OBVIOUS
<1>2. /\ <<SS, LS>> \in Links /\ Pending(SS, LS, "M_SC_SHARDS")
      /\ Receive(SS, LS, To(SS, Msg("M_SC_SHARDS", m.u))) /\ SendShardListToSS(m.u)
      /\ UNCHANGED <<tempCookie, moving, abnormal, dbOnline>>
  BY <1>1, LinksAre DEF LSShardsList, ToSS
<1>3. /\ <<<<SS, LS>>, m>> \in Flights /\ <<<<SS, LS>>, m>> \in Flying
      /\ m.kind = "M_SC_SHARDS" /\ m.u \in Users
  BY <1>1, <1>2, HeadIs
<1>4. PICK p : p = Msg("M_SC_SHARDS", m.u)
  OBVIOUS
<1>5. p \in Message /\ p.u = m.u /\ p.kind = "M_SC_SHARDS"
  BY <1>3, <1>4, MsgTyped, NullsTyped, WSNulls DEF Kinds, Answers, Msg
<1>6. PICK x : x = <<<<SS, LS>>, m>>
  OBVIOUS
<1>7. ASSUME m.u = v
      PROVE  AskOK(v, x) /\ Blank(v) /\ \A t \in Shards : ~First(v, t)
  <2>1. x \in Asking(v)
    BY <1>3, <1>6, <1>7 DEF Asking, AskKinds
  <2>2. AskOK(v, x) /\ \A t \in Shards : First(v, t) => FirstTok(v, t, x)
    BY <1>3, <1>6, <2>1, AskHead
  <2>3. \A t \in Shards : ~FirstTok(v, t, x)
    BY <1>3, <1>6, <2>1 DEF FirstTok
  <2>4. QED
    BY <1>3, <1>6, <2>2, <2>3 DEF AskOK
<1>8. LSStays(v) /\ changeReq'[v] = changeReq[v]
  <2>1. /\ current \in [Users -> ShardOrNone] /\ waiting \in [Users -> Place] /\ changeReq \in [Users -> Place]
        /\ infoCur \in [Users -> ShardOrNone] /\ dbCur \in [Users -> ShardOrNone]
    BY DEF Around, TypeOK, LSTypeOK, NetTypeOK
  <2>2. /\ current' = [current EXCEPT ![m.u] = NoShard] /\ waiting' = [waiting EXCEPT ![m.u] = Nowhere]
        /\ changeReq' = [changeReq EXCEPT ![m.u] = Nowhere]
    BY <1>2 DEF SendShardListToSS, ResetSession
  <2>3. current'[v] = current[v] /\ waiting'[v] = waiting[v] /\ changeReq'[v] = changeReq[v]
    BY <1>3, <1>7, <2>1, <2>2 DEF Blank, Waits
  <2>4. (infoCur'[v] = infoCur[v] \/ Blank(v)) /\ HomeOfData(v)' = HomeOfData(v)
    <3>1. LoadedShard(m.u) \in Shards
      BY <1>3, UserTyped
    <3>2. CASE infoCur[m.u] = NoShard
      <4>1. /\ infoCur' = [infoCur EXCEPT ![m.u] = LoadedShard(m.u)]
            /\ dbCur' = [dbCur EXCEPT ![m.u] = LoadedShard(m.u)]
        BY <1>2, <3>2 DEF SendShardListToSS, LoadUserInfo
      <4>2. CASE m.u = v
        <5>1. infoCur'[v] = LoadedShard(v) /\ LoadedShard(v) # NoShard
          BY <2>1, <3>1, <4>1, <4>2, NullsDistinct
        <5>2. QED
          BY <1>7, <3>2, <4>2, <5>1 DEF HomeOfData
      <4>3. CASE m.u # v
        <5>1. infoCur'[v] = infoCur[v] /\ dbCur'[v] = dbCur[v]
          BY <2>1, <4>1, <4>3
        <5>2. QED
          BY <5>1 DEF HomeOfData, LoadedShard
      <4>4. QED
        BY <4>2, <4>3
    <3>3. CASE infoCur[m.u] # NoShard
      BY <1>2, <3>3 DEF SendShardListToSS, LoadUserInfo, HomeOfData, LoadedShard
    <3>4. QED
      BY <3>2, <3>3
  <2>5. QED
    BY <1>2, <2>3, <2>4 DEF LSStays, LSKeeps, LSHolds
<1>9. Still(v)
  BY <1>8, StillLS
<1>10. ASSUME m.u = v
       PROVE  /\ AskOK(v, <<<<LS, SS>>, p>>)
              /\ \A s \in Shards : FesOf(s) # {} /\ First(v, s) => FirstTok(v, s, <<<<LS, SS>>, p>>)
  BY <1>5, <1>7, <1>10 DEF AskOK, Answers
<1>11. QED
  BY <1>1, <1>2, <1>4, <1>5, <1>8, <1>9, <1>10, RelayedAsk DEF AskKinds

(* LSChooseShard keeps Kept for every user.                                *)
LEMMA KeptChooseShard ==
  ASSUME Around, LSChooseShard, UNCHANGED <<wsVars, fsVars, ssVars, latest>>, NEW v \in Users, Kept(v)
  PROVE  Kept(v)'
<1>1. PICK m : m = Head(net[<<SS, LS>>])
  OBVIOUS
<1>2. PICK p : p = [Msg("M_ENTER_SHARD_REQUEST", m.u) EXCEPT !.ck = [key |-> lastKey + 1, sock |-> m.v]]
  OBVIOUS
<1>3. /\ <<SS, LS>> \in Links /\ Pending(SS, LS, "M_ENTER_SHARD_REQUEST")
      /\ Receive(SS, LS, To(m.s, p))
      /\ tempCookie' = [tempCookie EXCEPT ![m.u] = IF @ = NoShard THEN m.s ELSE @]
      /\ UNCHANGED <<current, waiting, changeReq, moving, abnormal, infoCur, dbVars>>
  BY <1>1, <1>2, LinksAre DEF LSChooseShard
<1>4. /\ <<<<SS, LS>>, m>> \in Flights /\ <<<<SS, LS>>, m>> \in Flying
      /\ m.kind = "M_ENTER_SHARD_REQUEST" /\ m.u \in Users /\ m \in Message
  BY <1>1, <1>3, HeadIs
<1>5. p \in Message /\ p.u = m.u /\ p.kind = "M_ENTER_SHARD_REQUEST"
  <2>1. [key |-> lastKey + 1, sock |-> m.v] \in Cookie
    BY <1>4, MessageIs DEF Around, TypeOK, LSTypeOK, Cookie
  <2>2. QED
    BY <1>2, <1>4, <2>1, MsgTyped, NullsTyped, WSNulls DEF Kinds, Answers, Msg
<1>6. PICK x : x = <<<<SS, LS>>, m>>
  OBVIOUS
<1>7. PICK z : z = <<<<LS, m.s>>, p>>
  OBVIOUS
<1>8. LSKeeps(v) /\ changeReq'[v] = changeReq[v] /\ tempCookie \in [Users -> ShardOrNone]
  BY <1>3 DEF LSKeeps, LSHolds, HomeOfData, LoadedShard, dbVars, Around, TypeOK, LSTypeOK
<1>9. CASE m.u # v
  <2>1. Still(v)
    BY <1>3, <1>4, <1>8, <1>9, StillLS DEF LSStays, LSKeeps
  <2>2. QED
    BY <1>3, <1>5, <1>8, <1>9, <2>1, UnmovedTo
<1>10. ASSUME m.u = v
       PROVE  /\ x \in Asking(v) /\ x \in Ahead(v) /\ AskOK(v, x) /\ Blank(v) /\ m.s \in Shards
              /\ \A t : ~First(v, t)
  <2>1. x \in Asking(v)
    BY <1>4, <1>6, <1>10 DEF Asking, AskKinds
  <2>2. AskOK(v, x) /\ x \in Ahead(v)
    BY <1>4, <1>6, <2>1, AskHead
  <2>3. ASSUME NEW t, First(v, t) PROVE FALSE
    <3>1. FirstTok(v, t, x)
      BY <1>4, <1>6, <2>3 DEF First
    <3>2. QED
      BY <1>4, <1>6, <2>1, <3>1, NodesDistinct DEF FirstTok
  <2>4. QED
    BY <1>4, <1>6, <2>1, <2>2, <2>3 DEF AskOK
<1>11. CASE m.u = v /\ tempCookie[v] # NoShard
  <2>1. tempCookie' = tempCookie
    BY <1>3, <1>4, <1>8, <1>11
  <2>2. Still(v)
    BY <1>8, <2>1, StillLS DEF LSStays, LSKeeps
  <2>3. AskOK(v, z)
    BY <1>4, <1>5, <1>6, <1>7, <1>10, <1>11, NodesDistinct, NullsDistinct DEF AskOK, Answers, Blank
  <2>4. QED
    BY <1>1, <1>3, <1>5, <1>7, <1>8, <1>10, <1>11, <2>2, <2>3, RelayedAsk DEF AskKinds
<1>12. CASE m.u = v /\ tempCookie[v] = NoShard
  <2>1. tempCookie'[v] = m.s /\ m.s \in Shards /\ m.s # NoShard /\ m.s # SS /\ m.s \notin Fess /\ LS # SS
    BY <1>3, <1>4, <1>8, <1>10, <1>12, NodesDistinct, NullsDistinct
  <2>2. /\ WSStays(v) /\ DataStays(v) /\ JobsOf(v, {}, {})
        /\ SocksStay(v) /\ LoginStays(v)
    BY WSQuiet, FSQuiet, SSQuiet DEF wsVars, fsVars, ssVars
  <2>3. /\ z \notin Entry(v) /\ z \notin Reports(v, 1) /\ z \notin Reports(v, 0)
        /\ z \notin Copies(v) /\ z \notin Kicks(v)
    BY <1>5, <1>7 DEF Copies, Kicks, Entry, Reports, AskKinds, DataKinds
  <2>4. NetOf(v, {x}, {z})
    BY <1>1, <1>3, <1>5, <1>6, <1>7, <2>3, ReceivedTo
  <2>5. /\ OneEnd(v) /\ OneCopy(v) /\ TokensOK(v) /\ Kicked(v) /\ Stored(v)
        /\ Inside(v) /\ Outside(v) /\ Leaves(v) /\ Young(v)
    BY DEF Kept
  <2>6. OneEnd(v)' /\ NoNewEnd(v)
    <3>1. \A y \in {z} : y \notin Reports(v, 0)
      BY <2>3
    <3>2. \A y \in {} : y \notin EndJobs(v)
      OBVIOUS
    <3>3. QED
      BY <2>2, <2>4, <2>5, <3>1, <3>2, EndsFewer DEF SocksStay
  <2>7. /\ OneCopy(v)'
        /\ \A y \in Flights' : y \in Copies(v) => y \in Flights
        /\ \A y \in JobFlights' : y \in CopyJobs(v) => y \in JobFlights
    <3>1. \A y \in {z} : y \notin Copies(v)
      BY <2>3
    <3>2. \A y \in {} : y \notin CopyJobs(v)
      OBVIOUS
    <3>3. QED
      BY <2>2, <2>4, <2>5, <3>1, <3>2, CopiesFewer
  <2>8. Stored(v)'
    BY <1>8, <2>2, <2>5, <2>7, UserTyped, StoredFewer, NullsDistinct DEF SocksStay, LSKeeps
  <2>9. /\ LoneIn(Ahead(v))' /\ \A y \in Flights' : y \in Ahead(v) => y = z
    BY <1>10, <1>12, <2>4, <2>5 DEF TokensOK, NetOf, Moves
  <2>10. Blank(v)' /\ Calls(v)' /\ Cand(v)' = {} /\ Content(v)' = {} /\ Room(v)' = {} /\ Odd(v)' = {}
    <3>1. Blank(v)'
      BY <1>8, <1>10, <1>12, <2>2, <2>6, BlankStays DEF SocksStay
    <3>2. Calls(v)'
      BY <1>8, <1>10, <1>12, <2>2, CallsStays DEF SocksStay, AskOK
    <3>3. QED
      BY <1>10, <1>12, <2>2, <2>5, <3>1, <3>2 DEF SocksStay, AskOK, Blank, Inside
  <2>11. Inside(v)'
    BY <2>10 DEF Inside, IsLone
  <2>12. Outside(v)'
    BY <1>8, <2>2, <2>5, <2>6, OutsideFewer DEF SocksStay
  <2>13. Leaves(v)'
    BY <2>10 DEF Leaves, Blank
  <2>14. TokensOK(v)'
    <3>1. ASSUME NEW y \in Flights' PROVE TokenOK(v, y)'
      <4>1. AskOK(v, z)'
        BY <1>5, <1>7, <2>1, <2>10, NullsDistinct DEF AskOK, Answers, Blank
      <4>2. QED
        BY <2>3, <2>9, <4>1 DEF TokenOK, Ahead
    <3>2. QED
      BY <2>9, <3>1 DEF TokensOK
  <2>15. \A n \in Logins : sock'[v][n] \notin {"refused", "unused", "listed"}
    BY <1>4, <1>6, <1>10, <1>12, <2>2, <2>5, Chosen DEF LoginStays
  <2>16. Young(v)'
    BY <2>10, <2>15 DEF Young, Blank, Calls
  <2>17. \A y \in Flights' : y \in Kicks(v) => y \in Flights
    <3>1. \A y \in {z} : y \notin Kicks(v)
      BY <2>3
    <3>2. QED
      BY <2>4, <3>1 DEF NetOf, Moves
  <2>18. ASSUME NEW t \in Shards, InDanger(v, t)' PROVE First(v, t)' /\ wsAssoc'[t][v] = NoFes
    <3>1. ~InDanger(v, t)
      BY <1>10, <1>12, <2>5 DEF Kicked, DangerOK
    <3>2. t = m.s
      BY <2>1, <2>17, <2>18, <3>1 DEF InDanger
    <3>3. FirstHere(v, t)'
      BY <2>10, <2>15 DEF FirstHere, Blank, Calls
    <3>4. ASSUME NEW y \in Flights' PROVE FirstTok(v, t, y)'
      <4>1. FirstTok(v, t, z)'
        BY <1>5, <1>7, <2>3, <3>2 DEF FirstTok, Reports, Entry, Flying
      <4>2. QED
        BY <2>9, <4>1 DEF FirstTok, Ahead
    <3>5. QED
      BY <2>10, <3>3, <3>4 DEF First, Blank
  <2>19. KicksOK(v)'
    <3>1. \A y \in Flights' : ~(y \in Kicks(v) /\ y[1][2] \in Fess)
      BY <1>10, <1>12, <2>5, <2>17 DEF Kicked, KicksOK
    <3>2. QED
      BY <3>1 DEF KicksOK
  <2>20. KicksFirst(v)'
    <3>1. \A y \in Flights' : y \notin Entry(v)
      BY <2>3, <2>9 DEF Ahead
    <3>2. Ordered(Entry(v), Kicks(v))'
      <4> DEFINE A == Entry(v)
                 B == Kicks(v)
      <4>1. \A y \in Flights' : y \notin A
        BY <3>1
      <4>2. A' = A /\ B' = B
        BY DEF Entry, Kicks, Flying
      <4> HIDE DEF A, B
      <4>3. QED
        BY <4>1, <4>2, NothingOrdered DEF A, B
    <3>3. QED
      BY <3>1, <3>2 DEF KicksFirst
  <2>21. DangerOK(v)'
    BY <2>18 DEF DangerOK
  <2>22. Kicked(v)'
    BY <2>19, <2>20, <2>21 DEF Kicked
  <2>23. QED
    BY <2>6, <2>7, <2>8, <2>11, <2>12, <2>13, <2>14, <2>16, <2>22 DEF Kept
<1>13. QED
  BY <1>9, <1>11, <1>12

-----------------------------------------------------------------------------
(* A connection that is reported to the LS.                                *)

(* A step that sends nothing that concerns v.                              *)
LEMMA Unconcerned ==
  ASSUME Around, NEW v \in Users, Kept(v), Still(v), changeReq'[v] = changeReq[v],
         NEW X, NEW Y, NetOf(v, X, Y), \A y \in Y : ~Concerns(v, y),
         Ordered(Entry(v), Kicks(v)) => Ordered(Entry(v), Kicks(v))'
  PROVE  Kept(v)'
<1>1. NetOf(v, X, {})
  BY DEF NetOf, Moves, Concerns
<1>2. \A y \in {} : y[2].u # v
  OBVIOUS
<1>3. QED
  BY <1>1, <1>2, Unmoved

(* No kick without an entry that is told.                                  *)
LEMMA NoEntryFirst ==
  ASSUME NEW u, \A y \in Flights' : y \notin Entry(u)
  PROVE  KicksFirst(u)'
<1> DEFINE A == Entry(u)
           B == Kicks(u)
<1>1. \A y \in Flights' : y \notin A
  OBVIOUS
<1>2. A' = A /\ B' = B
  BY DEF Entry, Kicks, Flying
<1>3. Ordered(A, B)'
  <2> HIDE DEF A, B
  <2>1. QED
    BY <1>1, NothingOrdered
<1>4. QED
  BY <1>3 DEF KicksFirst

(* What is known when the report of a connection, con=1, arrives.          *)
LEMMA ReportHead ==
  ASSUME NEW u \in Users, Kept(u), NEW x \in Flights, x \in Reports(u, 1)
  PROVE  /\ ReportOK(u, x) /\ x \in Ahead(u)
         /\ \A t : First(u, t) => t = Source(x)
         /\ \A t, f : Past(u, t, f) => x[1] = <<t, LS>> /\ x[2].fsSid = f
         /\ \A t \in Shards : EndsOn(u, t) /\ current[u] = NoShard => Cand(u) = {} /\ t = Source(x)
         /\ \A n \in Logins : sock[u][n] \notin {"refused", "unused", "listed"}
<1>1. x \in Ahead(u) /\ TokensOK(u) /\ Leaves(u) /\ Young(u)
  BY DEF Kept, Ahead
<1>2. ReportOK(u, x)
  BY <1>1 DEF TokensOK, TokenOK
<1>3. \A t : First(u, t) => t = Source(x)
  BY DEF First, FirstTok
<1>4. \A t, f : Past(u, t, f) => x[1] = <<t, LS>> /\ x[2].fsSid = f
  BY DEF Past, PastTok
<1>5. \A t \in Shards : EndsOn(u, t) /\ current[u] = NoShard => Cand(u) = {} /\ t = Source(x)
  BY <1>1 DEF Leaves, LeftTok
<1>6. \A n \in Logins : sock[u][n] \notin {"refused", "unused", "listed"}
  BY <1>1, Chosen
<1>7. QED
  BY <1>1, <1>2, <1>3, <1>4, <1>5, <1>6

(* LSClientMustWait keeps Kept for every user.                             *)
LEMMA KeptClientMustWait ==
  ASSUME Around, NEW s \in Shards, LSClientMustWait(s), UNCHANGED <<wsVars, fsVars, ssVars, latest>>,
         NEW v \in Users, Kept(v)
  PROVE  Kept(v)'
<1>1. PICK m : m = Head(net[<<s, LS>>])
  OBVIOUS
<1>2. /\ <<s, LS>> \in Links /\ Pending(s, LS, "M_CLIENT_CONNECT_STATUS")
      /\ m.v = 1 /\ current[m.u] \notin {NoShard, s}
      /\ waiting' = [waiting EXCEPT ![m.u] = IF @ = Nowhere THEN [s |-> s, f |-> m.fsSid] ELSE @]
      /\ Receive(s, LS, Silent)
      /\ UNCHANGED <<tempCookie, current, changeReq, moving, abnormal, infoCur, dbVars>>
  BY <1>1, LinksAre DEF LSClientMustWait, OnAnotherShard
<1>3. /\ <<<<s, LS>>, m>> \in Flights /\ <<<<s, LS>>, m>> \in Flying
      /\ m.kind = "M_CLIENT_CONNECT_STATUS" /\ m.u \in Users /\ m \in Message
  BY <1>1, <1>2, HeadIs
<1>4. LSHolds(v) /\ tempCookie'[v] = tempCookie[v] /\ changeReq'[v] = changeReq[v] /\ waiting \in [Users -> Place]
  BY <1>2 DEF LSHolds, HomeOfData, LoadedShard, dbVars, Around, TypeOK, LSTypeOK
<1>5. CASE m.u # v
  <2>1. Still(v)
    BY <1>2, <1>4, <1>5, StillLS DEF LSStays, LSKeeps
  <2>2. QED
    BY <1>2, <1>4, <2>1, UnmovedSilent
<1>6. CASE m.u = v
  <2>1. PICK x : x = <<<<s, LS>>, m>>
    OBVIOUS
  <2>2. x \in Reports(v, 1) /\ Source(x) = s /\ Reporter(x) = m.fsSid
    BY <1>2, <1>3, <1>6, <2>1, NodesDistinct DEF Reports, Source, Reporter
  <2>3. /\ ReportOK(v, x) /\ x \in Ahead(v) /\ \A t : First(v, t) => t = s
        /\ \A n \in Logins : sock[v][n] \notin {"refused", "unused", "listed"}
    BY <1>3, <2>1, <2>2, ReportHead
  <2>4. /\ OneEnd(v) /\ OneCopy(v) /\ TokensOK(v) /\ Kicked(v) /\ Stored(v)
        /\ Inside(v) /\ Outside(v) /\ Leaves(v) /\ Young(v)
    BY DEF Kept
  <2>5. waiting'[v] = [s |-> s, f |-> m.fsSid] /\ ShardOf[m.fsSid] = s /\ m.fsSid \in Fess
    BY <1>2, <1>4, <1>6, <2>2, <2>3 DEF ReportOK, Calls, Waits
  <2>6. /\ WSStays(v) /\ DataStays(v) /\ JobsOf(v, {}, {}) /\ SocksStay(v) /\ LoginStays(v)
    BY WSQuiet, FSQuiet, SSQuiet DEF wsVars, fsVars, ssVars
  <2>7. NetOf(v, {x}, {})
    BY <1>1, <1>2, <2>1, ReceivedSilent
  <2>8. OneEnd(v)' /\ NoNewEnd(v)
    <3>1. (\A y \in {} : y \notin Reports(v, 0)) /\ (\A y \in {} : y \notin EndJobs(v))
      OBVIOUS
    <3>2. QED
      BY <2>4, <2>6, <2>7, <3>1, EndsFewer DEF SocksStay
  <2>9. /\ OneCopy(v)'
        /\ \A y \in Flights' : y \in Copies(v) => y \in Flights
        /\ \A y \in JobFlights' : y \in CopyJobs(v) => y \in JobFlights
    <3>1. (\A y \in {} : y \notin Copies(v)) /\ (\A y \in {} : y \notin CopyJobs(v))
      OBVIOUS
    <3>2. QED
      BY <2>4, <2>6, <2>7, <3>1, CopiesFewer
  <2>10. Stored(v)'
    BY <1>4, <2>4, <2>6, <2>9, UserTyped, StoredFewer, NullsDistinct DEF SocksStay
  <2>11. LoneIn(Ahead(v))' /\ \A y \in Flights' : y \notin Ahead(v)
    BY <2>3, <2>4, <2>7 DEF TokensOK, NetOf, Moves
  <2>12. Inside(v)'
    BY <1>4, <2>4, <2>6, <2>8, InsideFewer DEF SocksStay
  <2>13. Outside(v)'
    <3>1. offers'[v] = {} /\ Fresh(v)' = {} /\ ~Fetches(v)' /\ Cand(v)' = Cand(v) /\ Room(v)' = Room(v)
      BY <1>4, <2>3, <2>6 DEF ReportOK, Calls, SocksStay, LSHolds, Fetches
    <3>2. IsLone(Cand(v)')
      BY <2>4, <3>1 DEF Outside, FreshOK
    <3>3. WaitsOK(v)'
      BY <2>2, <2>3, <2>5, <3>1 DEF WaitsOK, ReportOK
    <3>4. QED
      BY <3>1, <3>2, <3>3 DEF Outside, OffersOK, FreshOK, FetchOK, IsLone
  <2>14. Leaves(v)'
    BY <1>2, <1>4, <1>6, <2>4, <2>6, <2>8 DEF Leaves, NoNewEnd, LSHolds, SocksStay
  <2>15. TokensOK(v)'
    BY <2>11 DEF TokensOK, TokenOK, Ahead
  <2>16. Young(v)'
    <3>1. tempCookie'[v] = NoShard
      BY <1>2, <1>4, <1>6, <2>4 DEF Young
    <3>2. QED
      BY <2>3, <2>6, <3>1 DEF Young, LoginStays
  <2>17. Kicked(v)'
    <3>1. \A t \in Shards : ~First(v, t)
      BY <1>2, <1>6, <2>3 DEF First, FirstHere
    <3>2. KicksFirst(v)'
      BY <2>11, NoEntryFirst DEF Ahead
    <3>3. \A y \in Flights' : y \in Kicks(v) => y \in Flights
      BY <2>7 DEF NetOf, Moves
    <3>4. QED
      BY <1>4, <2>4, <3>1, <3>2, <3>3, NoFirst
  <2>18. QED
    BY <2>8, <2>9, <2>10, <2>12, <2>13, <2>14, <2>15, <2>16, <2>17 DEF Kept
<1>7. QED
  BY <1>5, <1>6

(* LSClientConnected keeps Kept for every user.                            *)
LEMMA KeptClientConnected ==
  ASSUME Around, NEW s \in Shards, LSClientConnected(s), UNCHANGED <<wsVars, fsVars, ssVars, latest>>,
         NEW v \in Users, Kept(v)
  PROVE  Kept(v)'
<1>1. PICK m : m = Head(net[<<s, LS>>])
  OBVIOUS
<1>2. PICK u : u = m.u
  OBVIOUS
<1>3. PICK f : f = m.fsSid
  OBVIOUS
<1>4. PICK outs : outs = AdmitOutbox(u, s, f, 1)
  OBVIOUS
<1>5. PICK fails \in BOOLEAN :
        /\ m.v = 1 /\ ~OnAnotherShard(u, s) /\ Queries(fails)
        /\ Admit(u, s, f, 1, dbOnline[u], nPlayers, fails)
        /\ Receive(s, LS, outs)
  BY <1>1, <1>2, <1>3, <1>4 DEF LSClientConnected
<1>6. /\ <<s, LS>> \in Links /\ Pending(s, LS, "M_CLIENT_CONNECT_STATUS")
      /\ UNCHANGED <<waiting, changeReq, abnormal, infoCur, dbCur>>
  BY LinksAre DEF LSClientConnected
<1>7. /\ <<<<s, LS>>, m>> \in Flights /\ <<<<s, LS>>, m>> \in Flying
      /\ m.kind = "M_CLIENT_CONNECT_STATUS" /\ u \in Users /\ m \in Message /\ f \in FesOrNone
  BY <1>1, <1>2, <1>3, <1>6, HeadIs, MessageIs
<1>8. ~fails
  BY <1>5, NoFailure
<1>9. /\ dbOnline' = [dbOnline EXCEPT ![u] = IF LoginResult(dbOnline[u], s, fails) = "ERR_NOERR"
                                             THEN s ELSE dbOnline[u]]
      /\ tempCookie' = [tempCookie EXCEPT ![u] = NoShard]
      /\ current' = [current EXCEPT ![u] = s]
      /\ moving' = MoveForEntry(u, s, f)
  BY <1>5 DEF Admit
<1>10. /\ outs \in Outbox /\ LoneFor(v, LS, outs)
       /\ \A y \in Sent(LS, outs) :
              \/ ~Concerns(v, y)
              \/ v = u /\ moving[u] = NoMove /\ infoCur[u] = s /\ y = EntryTo(u, s, f)
              \/ /\ v = u /\ MoveBeforeEntry(u, s) /\ y[1] = <<LS, infoCur[u]>>
                 /\ y[2].kind = "M_NT_MOVE_USER_DATA_REQ" /\ y[2].u = u
  BY <1>4, <1>7, AdmitSends
<1>11. PICK x : x = <<<<s, LS>>, m>>
  OBVIOUS
<1>12. PICK Y : Y = Sent(LS, outs)
  OBVIOUS
<1>13. \A y \in Y : y \notin Kicks(v) /\ y \notin Reports(v, 0)
  BY <1>10, <1>12 DEF Concerns, EntryTo, Msg, Kicks, Reports
<1>14. /\ NetOf(v, {x}, Y)
       /\ Ordered(Entry(v), Kicks(v)) => Ordered(Entry(v), Kicks(v))'
  BY <1>1, <1>5, <1>6, <1>10, <1>11, <1>12, <1>13, Received
<1>15. /\ WSStays(v) /\ DataStays(v) /\ JobsOf(v, {}, {}) /\ SocksStay(v) /\ LoginStays(v)
  BY WSQuiet, FSQuiet, SSQuiet DEF wsVars, fsVars, ssVars
<1>16. /\ current \in [Users -> ShardOrNone] /\ dbOnline \in [Users -> ShardOrNone]
       /\ tempCookie \in [Users -> ShardOrNone] /\ moving \in [Users -> Move]
  BY DEF Around, TypeOK, LSTypeOK, NetTypeOK
<1>17. CASE u # v
  <2>1. moving'[v] = moving[v]
    BY <1>9, <1>16, <1>17 DEF MoveForEntry
  <2>2. LSStays(v) /\ changeReq'[v] = changeReq[v]
    BY <1>6, <1>9, <1>16, <1>17, <2>1 DEF LSStays, LSKeeps, LSHolds, HomeOfData, LoadedShard
  <2>3. \A y \in Y : ~Concerns(v, y)
    BY <1>10, <1>12, <1>17
  <2>4. QED
    BY <1>14, <2>2, <2>3, StillLS, Unconcerned
<1>18. CASE u = v
  <2>1. x \in Reports(u, 1) /\ Source(x) = s /\ Reporter(x) = f
    BY <1>2, <1>3, <1>5, <1>7, <1>11, NodesDistinct DEF Reports, Source, Reporter
  <2>2. /\ ReportOK(u, x) /\ x \in Ahead(u)
        /\ \A t : First(u, t) => t = s
        /\ \A t, g : Past(u, t, g) => f = g
        /\ \A t \in Shards : EndsOn(u, t) /\ current[u] = NoShard => Cand(u) = {} /\ t = s
        /\ \A n \in Logins : sock[u][n] \notin {"refused", "unused", "listed"}
    BY <1>3, <1>7, <1>11, <1>18, <2>1, ReportHead
  <2>3. f \in Fess /\ ShardOf[f] = s /\ current[u] = NoShard /\ Calls(u) /\ \A c \in Cand(u) : c[1] = f
    BY <1>5, <2>1, <2>2 DEF ReportOK, OnAnotherShard
  <2>4. Room(u) = {}
    BY <1>18, <2>3, PlacesOK, NullsDistinct DEF Kept, Inside, Room, Places
  <2>5. /\ OneEnd(u) /\ TokensOK(u) /\ Kicked(u) /\ Stored(u)
    BY <1>18 DEF Kept
  <2>6. dbOnline'[u] = s /\ current'[u] = s /\ tempCookie'[u] = NoShard /\ waiting'[u] = Nowhere
    BY <1>6, <1>7, <1>8, <1>9, <1>16, <2>3, <2>5 DEF LoginResult, Stored, Calls, Waits
  <2>7. changeReq'[u] = changeReq[u] /\ infoCur'[u] = infoCur[u] /\ LoadedShard(u)' = LoadedShard(u)
        /\ abnormal'[u] = abnormal[u]
    BY <1>6 DEF LoadedShard
  <2>8. LoneIn(Ahead(u))' /\ \A z \in Flights' : z \in Ahead(u) => z \in Y
    BY <1>14, <1>18, <2>2, <2>5 DEF TokensOK, NetOf, Moves
  <2>9. OneEnd(u)' /\ NoNewEnd(u)
    <3>1. (\A y \in Y : y \notin Reports(u, 0)) /\ (\A y \in {} : y \notin EndJobs(u))
      BY <1>13, <1>18
    <3>2. QED
      BY <1>14, <1>15, <1>18, <2>5, <3>1, EndsFewer DEF SocksStay
  <2>10. \A t \in Shards : EndsOn(u, t)' => t = s /\ Cand(u) = {}
    BY <2>2, <2>3, <2>9 DEF NoNewEnd
  <2>11. Ordered(Entry(u), Kicks(u))'
    BY <1>14, <1>18, <2>5 DEF Kicked, KicksFirst
  <2>12. \A y \in Y : \/ ~Concerns(u, y)
                      \/ moving[u] = NoMove /\ infoCur[u] = s /\ y = EntryTo(u, s, f)
                      \/ /\ MoveBeforeEntry(u, s) /\ y[1] = <<LS, infoCur[u]>>
                         /\ y[2].kind = "M_NT_MOVE_USER_DATA_REQ" /\ y[2].u = u
    BY <1>10, <1>12, <1>18
  <2>13. offers[u] = {} /\ Fresh(u) = {} /\ ~Fetches(u)
    BY <2>3 DEF Calls
  <2>14. \A t \in Shards, g \in Fess : First(u, t) /\ Past(u, t, g) => g = f
    BY <2>2
  <2>15. \A t \in Shards : First(u, t) => t = s
    BY <2>2
  <2>16. QED
    BY <1>7, <1>9, <1>14, <1>15, <1>18, <2>2, <2>3, <2>4, <2>6, <2>7, <2>8, <2>9, <2>10, <2>11, <2>12, <2>13,
       <2>14, <2>15, Admitted
<1>19. QED
  BY <1>17, <1>18

-----------------------------------------------------------------------------
(* A session that is reported to be over.                                  *)

(* SS only is told of it.                                                  *)
LEMMA LogoffSends ==
  ASSUME NEW u \in Users, ~abnormal[u], NEW v
  PROVE  LogoffOutbox(u) \in Outbox /\ LoneFor(v, LS, LogoffOutbox(u)) /\ Mute(v, LS, LogoffOutbox(u))
<1> DEFINE st == ToSS("M_CLIENT_CONNECT_STATUS", u)
           non == Silent
<1>1. LogoffOutbox(u) = non \oplus st
  BY DEF LogoffOutbox
<1>2. st \in Outbox /\ non \in Outbox
  <2>1. Msg("M_CLIENT_CONNECT_STATUS", u) \in Message
    BY MsgTyped, NullsTyped, WSNulls DEF Kinds, Answers
  <2>2. QED
    BY <2>1, ToTyped, SilentTyped DEF ToSS
<1>3. LoneFor(v, LS, st) /\ LoneFor(v, LS, non) /\ Mute(v, LS, non)
  BY LoneForOne DEF ToSS
<1>4. ASSUME NEW y \in Sent(LS, st) PROVE ~Concerns(v, y)
  <2>1. y = <<<<LS, SS>>, Msg("M_CLIENT_CONNECT_STATUS", u)>>
    BY <1>4, SentOne DEF ToSS
  <2>2. y[2].kind = "M_CLIENT_CONNECT_STATUS" /\ y[1][2] = SS
    BY <2>1 DEF Msg
  <2>3. QED
    BY <2>2, ApartConcerns
<1>5. Mute(v, LS, st)
  BY <1>4 DEF Mute
<1> HIDE DEF st, non
<1>6. QED
  BY <1>1, <1>2, <1>3, <1>5, LoneForBoth, JoinTyped

(* Once it is read no session of u ends any more.                          *)
LEMMA EndRead ==
  ASSUME NEW u \in Users, Kept(u), NEW x \in Flights, x \in Reports(u, 0), x[1][2] = LS, x[1][1] \in Shards,
         NEW Y, NetOf(u, {x}, Y), \A y \in Y : y \notin Reports(u, 0), JobsOf(u, {}, {}), SocksStay(u)
  PROVE  /\ OneEnd(u)' /\ \A t \in Shards : ~EndsOn(u, t)'
         /\ Room(u) = {} /\ current[u] \in {x[1][1], NoShard}
         /\ EndsOn(u, x[1][1]) /\ ~Blank(u) /\ \A t \in Shards : EndsOn(u, t) => t = x[1][1]
<1>1. OneEnd(u) /\ Leaves(u)
  BY DEF Kept
<1>2. EndsOn(u, x[1][1])
  BY DEF EndsOn, Source
<1>3. Gone(u) = {} /\ \A y \in JobFlights : y \notin EndJobs(u)
  BY <1>1 DEF OneEnd
<1>4. OneEnd(u)'
  <2>1. \A y \in {} : y \notin EndJobs(u)
    OBVIOUS
  <2>2. QED
    BY <1>1, <2>1, EndsFewer DEF SocksStay
<1>5. \A z \in Flights' : z \notin Reports(u, 0)
  BY <1>1 DEF OneEnd, NetOf, Moves
<1>6. Gone(u)' = {} /\ \A y \in JobFlights' : y \notin EndJobs(u)
  BY <1>3 DEF SocksStay, JobsOf, JobsMove
<1>7. \A t \in Shards : ~EndsOn(u, t)'
  BY <1>5, <1>6 DEF EndsOn
<1>8. ASSUME NEW t \in Shards, EndsOn(u, t) PROVE t = x[1][1]
  <2>1. PICK y \in Flights : y \in Reports(u, 0) /\ Source(y) = t
    BY <1>3, <1>8 DEF EndsOn
  <2>2. y = x
    <3>1. LoneIn(Reports(u, 0))
      BY <1>1 DEF OneEnd
    <3>2. PICK l \in Links : \E i \in DOMAIN net[l] : x = <<l, net[l][i]>>
      BY FlightHas
    <3>3. PICK k \in Links : \E i \in DOMAIN net[k] : y = <<k, net[k][i]>>
      BY FlightHas
    <3>4. QED
      BY <2>1, <3>1, <3>2, <3>3 DEF LoneIn
  <2>3. QED
    BY <2>1, <2>2 DEF Source
<1>9. QED
  BY <1>1, <1>2, <1>4, <1>7, <1>8 DEF Leaves, Blank

(* LSClientHandedOver keeps Kept for every user.                           *)
LEMMA KeptClientHandedOver ==
  ASSUME Around, NEW s \in Shards, LSClientHandedOver(s), UNCHANGED <<wsVars, fsVars, ssVars, latest>>,
         NEW v \in Users, \A a \in Users : Kept(a)
  PROVE  Kept(v)'
<1>1. PICK m : m = Head(net[<<s, LS>>])
  OBVIOUS
<1>2. PICK u : u = m.u
  OBVIOUS
<1>3. PICK w : w = waiting[u]
  OBVIOUS
<1>4. PICK adm : adm = AdmitOutbox(u, w.s, w.f, 0)
  OBVIOUS
<1>5. PICK failsOut \in BOOLEAN, failsIn \in BOOLEAN :
        /\ m.v = 0 /\ ~NobodyWaits(u) /\ Queries(failsOut \/ failsIn)
        /\ waiting' = [waiting EXCEPT ![u] = Nowhere]
        /\ Admit(u, w.s, w.f, 0, OnlineAfterLogoff(u, s, failsOut), PlayersAfterLogoff(u, s, failsOut), failsIn)
        /\ Receive(s, LS, LogoffOutbox(u) \oplus adm)
  BY <1>1, <1>2, <1>3, <1>4 DEF LSClientHandedOver
<1>6. /\ <<s, LS>> \in Links /\ Pending(s, LS, "M_CLIENT_CONNECT_STATUS")
      /\ UNCHANGED <<changeReq, abnormal, infoCur, dbCur>>
  BY LinksAre DEF LSClientHandedOver
<1>7. /\ <<<<s, LS>>, m>> \in Flights /\ <<<<s, LS>>, m>> \in Flying
      /\ m.kind = "M_CLIENT_CONNECT_STATUS" /\ u \in Users /\ m \in Message
  BY <1>1, <1>2, <1>6, HeadIs
<1>8. ~failsOut /\ ~failsIn
  <2>1. (failsOut \/ failsIn) \in BOOLEAN
    OBVIOUS
  <2>2. PICK b \in BOOLEAN : b = (failsOut \/ failsIn)
    BY <2>1
  <2>3. Queries(b)
    BY <1>5, <2>2
  <2>4. ~b
    BY <2>3, NoFailure
  <2>5. QED
    BY <2>2, <2>4
<1>9. /\ dbOnline' = [dbOnline EXCEPT ![u] =
             IF LoginResult(OnlineAfterLogoff(u, s, failsOut), w.s, failsIn) = "ERR_NOERR"
             THEN w.s ELSE OnlineAfterLogoff(u, s, failsOut)]
      /\ tempCookie' = [tempCookie EXCEPT ![u] = NoShard]
      /\ current' = [current EXCEPT ![u] = w.s]
      /\ moving' = MoveForEntry(u, w.s, w.f)
  BY <1>5 DEF Admit
<1>10. /\ current \in [Users -> ShardOrNone] /\ dbOnline \in [Users -> ShardOrNone]
       /\ tempCookie \in [Users -> ShardOrNone] /\ moving \in [Users -> Move] /\ waiting \in [Users -> Place]
       /\ abnormal \in [Users -> BOOLEAN]
  BY DEF Around, TypeOK, LSTypeOK, NetTypeOK
<1>11. /\ ~abnormal[u] /\ w # Nowhere /\ w.s \in ShardOrNone /\ w.f \in FesOrNone
       /\ current[u] \notin {NoShard, w.s}
  BY <1>3, <1>5, <1>7, <1>10 DEF NobodyWaits, Place, Around, WaitsForAnotherShard
<1>12. PICK x : x = <<<<s, LS>>, m>>
  OBVIOUS
<1>13. PICK outs : outs = LogoffOutbox(u) \oplus adm
  OBVIOUS
<1>14. /\ WSStays(v) /\ DataStays(v) /\ JobsOf(v, {}, {}) /\ SocksStay(v) /\ LoginStays(v)
  BY WSQuiet, FSQuiet, SSQuiet DEF wsVars, fsVars, ssVars
<1>15. PICK s2 \in Shards, f2 \in Fess : s2 = w.s /\ f2 = w.f /\ ShardOf[f2] = s2
  <2>1. Waits(u) /\ Kept(u)
    BY <1>3, <1>7, <1>11 DEF Waits
  <2>2. w.f \in Fess /\ ShardOf[w.f] = w.s
    BY <1>3, <2>1 DEF Kept, Outside, WaitsOK
  <2>3. QED
    BY <2>2, PlacesOK
<1>16. QED
  <2>1. /\ adm \in Outbox /\ LoneFor(v, LS, adm)
        /\ \A y \in Sent(LS, adm) :
             \/ ~Concerns(v, y)
             \/ v = u /\ moving[u] = NoMove /\ infoCur[u] = s2 /\ y = EntryTo(u, s2, f2)
             \/ /\ v = u /\ MoveBeforeEntry(u, s2) /\ y[1] = <<LS, infoCur[u]>>
                /\ y[2].kind = "M_NT_MOVE_USER_DATA_REQ" /\ y[2].u = u
    <3>1. adm = AdmitOutbox(u, s2, f2, 0) /\ f2 \in FesOrNone
      BY <1>4, <1>15 DEF FesOrNone
    <3>2. QED
      BY <1>7, <3>1, AdmitSends
  <2>2. LogoffOutbox(u) \in Outbox /\ LoneFor(v, LS, LogoffOutbox(u)) /\ Mute(v, LS, LogoffOutbox(u))
    BY <1>7, <1>11, LogoffSends
  <2>3. outs \in Outbox /\ LoneFor(v, LS, outs) /\ \A y \in Sent(LS, outs) : y \in Sent(LS, LogoffOutbox(u)) \/ y \in Sent(LS, adm)
    BY <1>13, <2>1, <2>2, LoneForBoth, JoinTyped
  <2>4. \A y \in Sent(LS, outs) :
             \/ ~Concerns(v, y)
             \/ v = u /\ moving[u] = NoMove /\ infoCur[u] = s2 /\ y = EntryTo(u, s2, f2)
             \/ /\ v = u /\ MoveBeforeEntry(u, s2) /\ y[1] = <<LS, infoCur[u]>>
                /\ y[2].kind = "M_NT_MOVE_USER_DATA_REQ" /\ y[2].u = u
    BY <2>1, <2>2, <2>3 DEF Mute
  <2>5. PICK Y : Y = Sent(LS, outs)
    OBVIOUS
  <2>6. \A y \in Y : y \notin Kicks(v) /\ y \notin Reports(v, 0)
    BY <2>4, <2>5 DEF Concerns, EntryTo, Msg, Kicks, Reports
  <2>7. /\ NetOf(v, {x}, Y)
        /\ Ordered(Entry(v), Kicks(v)) => Ordered(Entry(v), Kicks(v))'
    BY <1>1, <1>5, <1>6, <1>12, <1>13, <2>3, <2>5, <2>6, Received
  <2>8. CASE u # v
    <3>1. moving'[v] = moving[v]
      BY <1>9, <1>10, <1>15, <2>8 DEF MoveForEntry
    <3>2. LSStays(v) /\ changeReq'[v] = changeReq[v]
      BY <1>5, <1>6, <1>9, <1>10, <2>8, <3>1 DEF LSStays, LSKeeps, LSHolds, HomeOfData, LoadedShard
    <3>3. \A y \in Y : ~Concerns(v, y)
      BY <2>4, <2>5, <2>8
    <3>4. QED
      BY <2>7, <3>2, <3>3, StillLS, Unconcerned
  <2>9. CASE u = v
    <3>1. x \in Reports(u, 0) /\ x[1][1] = s /\ x[1][2] = LS /\ x \in Flights
      BY <1>2, <1>5, <1>7, <1>12, NodesDistinct DEF Reports
    <3>2. /\ OneEnd(u)' /\ \A t \in Shards : ~EndsOn(u, t)'
          /\ Room(u) = {} /\ current[u] \in {s, NoShard} /\ ~Blank(u)
      BY <1>14, <2>6, <2>7, <2>9, <3>1, EndRead
    <3>3. Waits(u)
      BY <1>3, <1>11 DEF Waits
    <3>4. /\ OneEnd(u) /\ TokensOK(u) /\ Kicked(u) /\ Stored(u) /\ Outside(u) /\ Young(u)
      BY <1>7 DEF Kept
    <3>5. ~Fetches(u) /\ \A c \in Cand(u) : c[1] = f2
      BY <1>3, <1>15, <3>3, <3>4 DEF Outside, WaitsOK
    <3>6. offers[u] = {} /\ Fresh(u) = {}
      BY <3>3, <3>4 DEF Outside, OffersOK, FreshOK
    <3>7. \A z \in Flights : z \notin Ahead(u)
      BY <3>3, <3>4 DEF TokensOK, TokenOK, Ahead, AskOK, ReportOK, EntryOK, Calls
    <3>8. \A n \in Logins : sock[u][n] \notin {"refused", "unused", "listed"}
      BY <3>2, <3>4 DEF Young
    <3>9. \A t \in Shards : ~First(u, t)
      BY <3>3 DEF First, FirstHere
    <3>10. dbOnline'[u] = s2 /\ current'[u] = s2 /\ tempCookie'[u] = NoShard /\ waiting'[u] = Nowhere
      <4>1. dbOnline[u] = s
        BY <1>11, <3>2, <3>4 DEF Stored
      <4>2. OnlineAfterLogoff(u, s, failsOut) = NoShard
        BY <1>8, <4>1, NullsDistinct DEF OnlineAfterLogoff, LogoffResult
      <4>3. QED
        BY <1>5, <1>7, <1>8, <1>9, <1>10, <1>15, <4>2 DEF LoginResult
    <3>11. changeReq'[u] = changeReq[u] /\ infoCur'[u] = infoCur[u] /\ LoadedShard(u)' = LoadedShard(u)
           /\ abnormal'[u] = abnormal[u]
      BY <1>6 DEF LoadedShard
    <3>12. LoneIn(Ahead(u))' /\ \A z \in Flights' : z \in Ahead(u) => z \in Y
      BY <2>7, <2>9, <3>4, <3>7 DEF TokensOK, NetOf, Moves
    <3>13. Ordered(Entry(u), Kicks(u))'
      BY <2>7, <2>9, <3>4 DEF Kicked, KicksFirst
    <3>14. \A y \in Y : \/ ~Concerns(u, y)
                        \/ moving[u] = NoMove /\ infoCur[u] = s2 /\ y = EntryTo(u, s2, f2)
                        \/ /\ MoveBeforeEntry(u, s2) /\ y[1] = <<LS, infoCur[u]>>
                           /\ y[2].kind = "M_NT_MOVE_USER_DATA_REQ" /\ y[2].u = u
      BY <2>4, <2>5, <2>9
    <3>15. \A t \in Shards : EndsOn(u, t)' => t = s2 /\ Cand(u) = {}
      BY <3>2
    <3>16. \A t \in Shards : First(u, t) => t = s2
      BY <3>9
    <3>17. \A t \in Shards, g \in Fess : First(u, t) /\ Past(u, t, g) => g = f2
      BY <3>9
    <3>18. moving' = MoveForEntry(u, s2, f2) /\ ShardOf[f2] = s2
      BY <1>9, <1>15
    <3>19. Kept(u)
      BY <2>9
    <3>20. QED
      BY <1>7, <1>14, <2>7, <2>9, <3>2, <3>5, <3>6, <3>8, <3>10, <3>11, <3>12, <3>13, <3>14, <3>15, <3>16, <3>17, <3>18,
         <3>19, Admitted
  <2>10. QED
    BY <2>8, <2>9

-----------------------------------------------------------------------------
(* A session that is over, and nobody waits.                               *)

(* The data of u is away from home, and not on its way.                    *)
Abroad(u) == moving[u] = NoMove /\ infoCur[u] \notin {NoShard, MainShard[u]}
(* What the LS and the main database know of u once it has left.           *)
Left(u) ==
  /\ current'[u] = NoShard /\ dbOnline'[u] = NoShard /\ ~abnormal'[u]
  /\ waiting[u] = Nowhere /\ waiting'[u] = Nowhere
  /\ tempCookie'[u] = tempCookie[u] /\ changeReq'[u] = changeReq[u] /\ infoCur'[u] = infoCur[u]
  /\ LoadedShard(u)' = LoadedShard(u)
  /\ \/ moving'[u] = moving[u] /\ ~Abroad(u)
     \/ moving'[u] # NoMove /\ moving'[u].reason = 0 /\ Abroad(u)

(* An entry that is on its way goes on.                                    *)
LEMMA LeftToken ==
  ASSUME Around, NEW u \in Users, NEW z \in Flying, TokenOK(u, z), Left(u), SocksStay(u),
         Room(u) = {}, ~Blank(u), NEW s \in Shards, EndsOn(u, s), \A t \in Shards : ~EndsOn(u, t)'
  PROVE  TokenOK(u, z)'
<1>1. NoShard \notin Shards /\ NoFes \notin Fess
  BY NullsDistinct
<1>2. Calls(u) => Calls(u)'
  BY DEF Calls, Left, SocksStay, Waits, Fetches
<1>3. ASSUME z \in Asking(u) PROVE AskOK(u, z)'
  <2>1. AskOK(u, z)
    BY <1>3 DEF TokenOK
  <2>2. /\ z[2].kind \notin {"M_SC_SHARDS", "M_SC_FAIL"} /\ z[1] \notin {<<SS, LS>>, <<LS, SS>>}
        /\ z[2].kind \in {"M_ENTER_SHARD_REQUEST", "M_ENTER_SHARD_ANSWER"} => tempCookie[u] = NoShard
    BY <2>1 DEF AskOK
  <2>3. Cand(u)' = {} /\ Calls(u)' /\ Content(u)' = {}
    BY <2>1, <1>2 DEF AskOK, SocksStay
  <2>4. z[1] \in Links /\ z[2] \in Message
    BY DEF Flying
  <2>5. z[1][1] = LS => z[1][2] \in Shards
    BY <2>2, <2>4, LinksAre, LinksApart, NodesDistinct, PlacesOK DEF Links
  <2>6. z[1][2] \in Fess => z[1][1] \in Shards
    BY <2>4, DownLinks
  <2>7. z[2].kind \in Answers /\ z[2].v = 0 => ShardOf[z[2].f] \in Shards
    BY <2>4, PlacesOK DEF Message, FesOrNone
  <2>8. /\ z[2].kind = "M_CS_CHANGE_SHARD_REQ" => z[2].s \in Shards
        /\ z[2].kind \in {"M_CS_CHANGE_SHARD_REQ", "M_SC_CHANGE_SHARD_ANS"} => tempCookie[u] = NoShard
    BY <2>1 DEF AskOK
  <2>9. current'[u] = NoShard /\ tempCookie'[u] = tempCookie[u]
    BY DEF Left
  <2>10. QED
    BY <1>1, <2>2, <2>3, <2>5, <2>6, <2>7, <2>8, <2>9 DEF AskOK
<1>4. ASSUME z \in Reports(u, 1) PROVE ReportOK(u, z)'
  <2>1. ReportOK(u, z)
    BY <1>4 DEF TokenOK
  <2>2. Source(z) \in Shards
    BY <2>1, PlacesOK DEF ReportOK
  <2>3. QED
    BY <1>1, <1>2, <2>1, <2>2 DEF ReportOK, Left, SocksStay
<1>5. ASSUME z \in Entry(u) PROVE EntryOK(u, z)'
  <2>1. EntryOK(u, z)
    BY <1>5 DEF TokenOK
  <2>2. Cand(u) = {}
    BY <2>1 DEF EntryOK
  <2>3. Cand(u)' = {} /\ Room(u)' = {}
    BY <2>2 DEF SocksStay
  <2>4. QED
    BY <1>2, <2>1, <2>3 DEF EntryOK, Left
<1>6. Asking(u)' = Asking(u) /\ Reports(u, 1)' = Reports(u, 1) /\ Entry(u)' = Entry(u)
  BY DEF Asking, Reports, Entry
<1>7. QED
  BY <1>3, <1>4, <1>5, <1>6 DEF TokenOK

(* The LS learns that the session of u ended, when nobody waits for it: u  *)
(* is left nowhere, and its data may start for home.                       *)
LEMMA LoggedOff ==
  ASSUME Around, NEW u \in Users, Kept(u), Left(u), NEW s \in Shards, EndsOn(u, s),
         Room(u) = {}, ~Blank(u), \A t \in Shards : ~EndsOn(u, t)', OneEnd(u)',
         WSStays(u), DataStays(u), SocksStay(u), LoginStays(u), JobsOf(u, {}, {}),
         NEW X, NEW Y, NetOf(u, X, Y),
         \A y \in Y : \/ ~Concerns(u, y)
                      \/ /\ Abroad(u) /\ y[1] = <<LS, infoCur[u]>>
                         /\ y[2].kind = "M_NT_MOVE_USER_DATA_REQ" /\ y[2].u = u,
         Ordered(Entry(u), Kicks(u))'
  PROVE  Kept(u)'
<1>1. /\ OneCopy(u) /\ Inside(u) /\ Outside(u) /\ TokensOK(u) /\ Young(u) /\ Kicked(u) /\ Stored(u)
  BY DEF Kept
<1>2. \A y \in Y : y \notin Ahead(u) /\ y \notin Kicks(u)
  BY DEF Concerns, Ahead, Asking, Reports, Entry, Kicks, AskKinds
<1>3. \A z \in Flights' : z \in Ahead(u) \/ z \in Kicks(u) => z \in Flights
  BY <1>2 DEF NetOf, Moves
<1>4. \A y \in {} : y \notin CopyJobs(u)
  OBVIOUS
<1>5. \A z \in JobFlights' : z \in CopyJobs(u) => z \in JobFlights
  BY DEF JobsOf, JobsMove
<1>6. NoShard \notin Shards
  BY NullsDistinct
<1>7. Room(u)' = {} /\ Cand(u)' = Cand(u) /\ Fresh(u)' = Fresh(u) /\ offers'[u] = offers[u]
  BY DEF SocksStay
<1>8. Fetches(u)' => Fetches(u) /\ moving'[u] = moving[u]
  BY DEF Fetches, Left
<1>9. ~Waits(u)' /\ ~Waits(u)
  BY DEF Waits, Left
<1>10. OneCopy(u)'
  <2>1. CASE Abroad(u)
    <3>1. (\A x \in Flights : x \notin Copies(u)) /\ \A x \in JobFlights : x \notin CopyJobs(u)
      BY <1>1, <2>1 DEF Stored, Abroad
    <3>2. QED
      BY <1>1, <1>4, <1>5, <3>1 DEF OneCopy, NetOf, Moves, JobsOf, JobsMove
  <2>2. CASE ~Abroad(u)
    <3>1. \A y \in Y : y \notin Copies(u)
      BY <2>2 DEF Concerns
    <3>2. QED
      BY <1>1, <1>4, <3>1, CopiesFewer
  <2>3. QED
    BY <2>1, <2>2
<1>11. Inside(u)'
  BY <1>1, <1>7 DEF Inside, IsLone, SocksStay
<1>12. Outside(u)'
  <2>1. \A o \in offers[u] : ShardOf[o.f] \in Shards
    BY UserTyped, PlacesOK DEF Offer
  <2>2. OffersOK(u)'
    BY <1>1, <1>6, <1>7, <1>8, <1>9, <2>1 DEF Outside, OffersOK, Left
  <2>3. \A c \in Fresh(u) : ShardOf[c[1]] \in Shards
    BY PlacesOK DEF Fresh, Places
  <2>4. FreshOK(u)'
    BY <1>1, <1>6, <1>7, <1>8, <1>9, <2>3 DEF Outside, FreshOK, Left
  <2>5. WaitsOK(u)'
    BY <1>9 DEF WaitsOK
  <2>6. FetchOK(u)'
    BY <1>1, <1>7, <1>8 DEF Outside, FetchOK
  <2>7. QED
    BY <2>2, <2>4, <2>5, <2>6 DEF Outside
<1>13. Leaves(u)'
  BY DEF Leaves
<1>14. TokensOK(u)'
  <2>1. LoneIn(Ahead(u))'
    BY <1>1, <1>2 DEF TokensOK, NetOf, Moves
  <2>2. ASSUME NEW z \in Flights' PROVE TokenOK(u, z)'
    <3>1. CASE z \in Ahead(u)
      <4>1. z \in Flights /\ z \in Flying
        BY <1>3, <3>1, <2>2 DEF Ahead, Asking, Reports, Entry
      <4>2. TokenOK(u, z)
        BY <1>1, <4>1 DEF TokensOK
      <4>3. QED
        BY <4>1, <4>2, LeftToken
    <3>2. CASE z \notin Ahead(u)
      BY <3>2 DEF Ahead, TokenOK, Asking, Reports, Entry
    <3>3. QED
      BY <3>1, <3>2
  <2>3. QED
    BY <2>1, <2>2 DEF TokensOK
<1>15. Young(u)'
  <2>1. \A n \in Logins : sock[u][n] \notin {"refused", "unused", "listed"}
    BY <1>1 DEF Young
  <2>2. \A n \in Logins : sock'[u][n] \notin {"refused", "unused", "listed"}
    BY <2>1 DEF LoginStays
  <2>3. tempCookie[u] # NoShard => ~Fetches(u)
    BY <1>1 DEF Young
  <2>4. current'[u] = NoShard /\ tempCookie'[u] = tempCookie[u]
    BY DEF Left
  <2>5. QED
    BY <1>7, <1>8, <1>9, <2>2, <2>3, <2>4 DEF Young
<1>16. Kicked(u)'
  <2>1. NoNewDanger(u)
    BY <1>1, <1>3, DangersFewer DEF Left
  <2>2. KicksFirst(u)'
    <3>1. \A z \in Flights' : z \in Entry(u) => z \in Flights
      BY <1>3 DEF Ahead
    <3>2. \A z \in Flights' : z \in Kicks(u) => z \in Flights
      BY <1>3
    <3>3. QED
      BY <1>1, <3>1, <3>2 DEF Kicked, KicksFirst, Kicks, Entry
  <2>3. \A z \in Flights' : z \in Asking(u) \/ z \in Reports(u, 1) \/ z \in Entry(u) => z \in Flights
    BY <1>3 DEF Ahead
  <2>4. ASSUME NEW t \in Shards, First(u, t) PROVE First(u, t)'
    <3>1. FirstHere(u, t)'
      <4>1. FirstHere(u, t)
        BY <2>4 DEF First
      <4>2. \A n \in Logins : sock'[u][n] \notin {"unused", "listed"}
        BY <4>1 DEF FirstHere, LoginStays
      <4>3. changeReq'[u] = Nowhere /\ current'[u] = NoShard
        BY <4>1 DEF FirstHere, Left
      <4>4. Fetches(u)' => moving'[u].to = t
        BY <4>1, <1>8 DEF FirstHere
      <4>5. QED
        BY <4>1, <4>2, <4>3, <4>4, <1>7, <1>9 DEF FirstHere
    <3>2. \A z \in Flights' : FirstTok(u, t, z)'
      BY <2>3, <2>4 DEF First, FirstTok, Asking, Reports, Entry, Source, Answers
    <3>3. QED
      BY <3>1, <3>2 DEF First
  <2>5. ASSUME NEW t \in Shards, NEW f \in Fess, Past(u, t, f) PROVE Past(u, t, f)'
    <3>1. PastHere(u, f)'
      BY <2>5, <1>7, <1>8 DEF Past, PastHere
    <3>2. \A z \in Flights' : PastTok(u, t, f, z)'
      BY <2>3, <2>5 DEF Past, PastTok, Asking, Reports, Entry
    <3>3. QED
      BY <3>1, <3>2 DEF Past
  <2>6. DangersStay(u)
    BY <2>4, <2>5 DEF DangersStay
  <2>7. QED
    BY <1>1, <2>1, <2>2, <2>6, KickedFewer DEF Around
<1>17. Stored(u)'
  <2>1. DataStays(u) /\ HomeOfData(u)' = HomeOfData(u)
    BY DEF HomeOfData, Left
  <2>2. LoadedShard(u) \in Shards /\ infoCur[u] \in ShardOrNone /\ HomeOfData(u) \in Shards
    <3>1. LoadedShard(u) \in Shards /\ infoCur[u] \in ShardOrNone
      BY UserTyped
    <3>2. QED
      BY <3>1 DEF HomeOfData, ShardOrNone
  <2>3. moving'[u] = NoMove => moving[u] = NoMove /\ ~Abroad(u)
    BY DEF Left
  <2>4. ~Abroad(u) => \A z \in Flights' : z \in Copies(u) => z \in Flights
    BY DEF Concerns, NetOf, Moves
  <2>5. ASSUME moving'[u] = NoMove
        PROVE  /\ data'[HomeOfData(u)'][u] = latest'[u]
               /\ \A x \in Flights' : x \notin Copies(u)
               /\ \A x \in JobFlights' : x \notin CopyJobs(u)
    <3>1. data[HomeOfData(u)][u] = latest[u]
      BY <1>1, <2>3, <2>5 DEF Stored
    <3>2. data'[HomeOfData(u)'][u] = latest'[u]
      BY <2>1, <2>2, <3>1 DEF DataStays
    <3>3. QED
      BY <1>1, <1>5, <2>3, <2>4, <2>5, <3>2 DEF Stored
  <2>6. \E t \in Shards : data'[t][u] = latest'[u]
    BY <1>1 DEF Stored, DataStays
  <2>7. \A x \in JobFlights' : x \in CopyJobs(u) => data'[x[1]][u] = latest'[u]
    BY <1>1, <1>5 DEF Stored, DataStays, CopyJobs
  <2>8. ASSUME NEW z \in Flights', z \in Copies(u) PROVE CopyOK(u, z)'
    <3>1. CASE z \in Flights
      <4>1. CopyOK(u, z)
        BY <1>1, <2>8, <3>1 DEF Stored
      <4>2. QED
        BY <4>1 DEF CopyOK, DataStays
    <3>2. CASE z \in Y
      <4>1. Abroad(u) /\ z[1] = <<LS, infoCur[u]>> /\ z[2].kind = "M_NT_MOVE_USER_DATA_REQ"
        BY <2>8, <3>2 DEF Concerns
      <4>2. infoCur[u] \in Shards /\ HomeOfData(u) = infoCur[u] /\ moving[u] = NoMove
        BY <2>2, <4>1 DEF Abroad, HomeOfData, ShardOrNone
      <4>3. data[infoCur[u]][u] = latest[u]
        BY <1>1, <4>2 DEF Stored
      <4>4. data'[infoCur[u]][u] = latest'[u]
        BY <4>2, <4>3 DEF DataStays
      <4>5. QED
        BY <4>1, <4>2, <4>4 DEF CopyOK
    <3>3. QED
      BY <2>8, <3>1, <3>2 DEF NetOf, Moves
  <2>9. dbOnline'[u] = current'[u] /\ ~abnormal'[u]
    BY DEF Left
  <2>10. Copies(u)' = Copies(u) /\ CopyJobs(u)' = CopyJobs(u)
    BY DEF Copies, CopyJobs
  <2>11. QED
    BY <1>7, <2>5, <2>6, <2>7, <2>8, <2>9, <2>10 DEF Stored
<1>18. QED
  BY <1>10, <1>11, <1>12, <1>13, <1>14, <1>15, <1>16, <1>17 DEF Kept

(* What the LS sends to bring the data home.                               *)
LEMMA HomeSends ==
  ASSUME Around, NEW u \in Users, Abroad(u), NEW v
  PROVE  /\ MoveRequest(u, infoCur[u], MainShard[u]) \in Outbox
         /\ LoneFor(v, LS, MoveRequest(u, infoCur[u], MainShard[u]))
         /\ \A y \in Sent(LS, MoveRequest(u, infoCur[u], MainShard[u])) :
              /\ y[1] = <<LS, infoCur[u]>> /\ y[2].kind = "M_NT_MOVE_USER_DATA_REQ" /\ y[2].u = u
<1>1. PICK m : m = [Msg("M_NT_MOVE_USER_DATA_REQ", u) EXCEPT !.s =
              IF MainShard[u] \in {infoCur[u], MainShard[u]} THEN MainShard[u] ELSE MainShard[u]]
  OBVIOUS
<1>2. MoveRequest(u, infoCur[u], MainShard[u]) = To(infoCur[u], m)
  BY <1>1 DEF MoveRequest
<1>3. MainShard[u] \in ShardOrNone
  BY PlacesOK DEF ShardOrNone
<1>4. m.kind = "M_NT_MOVE_USER_DATA_REQ" /\ m.u = u
  BY <1>1 DEF Msg
<1>5. \A y \in Sent(LS, To(infoCur[u], m)) : y = <<<<LS, infoCur[u]>>, m>>
  BY SentOne
<1>6. LoneFor(v, LS, To(infoCur[u], m))
  BY LoneForOne
<1>7. MoveRequest(u, infoCur[u], MainShard[u]) \in Outbox
  BY <1>3, UserTyped, MoveRequestTyped
<1>8. \A y \in Sent(LS, To(infoCur[u], m)) :
        /\ y[1] = <<LS, infoCur[u]>> /\ y[2].kind = "M_NT_MOVE_USER_DATA_REQ" /\ y[2].u = u
  BY <1>4, <1>5
<1>9. QED
  BY <1>2, <1>6, <1>7, <1>8

(* LSClientDisconnected keeps Kept for every user.                         *)
LEMMA KeptClientDisconnected ==
  ASSUME Around, NEW s \in Shards, LSClientDisconnected(s), UNCHANGED <<wsVars, fsVars, ssVars, latest>>,
         NEW v \in Users, \A a \in Users : Kept(a)
  PROVE  Kept(v)'
<1>1. PICK m : m = Head(net[<<s, LS>>])
  OBVIOUS
<1>2. PICK u : u = m.u
  OBVIOUS
<1>3. /\ <<s, LS>> \in Links /\ Pending(s, LS, "M_CLIENT_CONNECT_STATUS")
      /\ UNCHANGED tempCookie
  BY LinksAre DEF LSClientDisconnected
<1>4. /\ <<<<s, LS>>, m>> \in Flights /\ <<<<s, LS>>, m>> \in Flying
      /\ m.kind = "M_CLIENT_CONNECT_STATUS" /\ u \in Users /\ m \in Message
  BY <1>1, <1>2, <1>3, HeadIs
<1>5. ~abnormal[u]
  BY <1>4 DEF Kept, Stored
<1>6. PICK go : go = (IF Abroad(u) THEN MoveRequest(u, infoCur[u], MainShard[u]) ELSE Silent)
  OBVIOUS
<1>7. PICK fails \in BOOLEAN :
        /\ m.v = 0 /\ NobodyWaits(u) /\ Queries(fails)
        /\ dbOnline' = [dbOnline EXCEPT ![u] = OnlineAfterLogoff(u, s, fails)]
        /\ current' = [current EXCEPT ![u] = NoShard]
        /\ UNCHANGED <<changeReq, loginCookie, waiting, infoCur, dbCur>>
        /\ abnormal' = [abnormal EXCEPT ![u] = FALSE]
        /\ moving' = [moving EXCEPT ![u] =
             IF Abroad(u) THEN [to |-> MainShard[u], f |-> NoFes, reason |-> 0] ELSE @]
        /\ Receive(s, LS, LogoffOutbox(u) \oplus go)
  BY <1>1, <1>2, <1>5, <1>6 DEF LSClientDisconnected, Abroad
<1>8. ~fails
  BY <1>7, NoFailure
<1>9. /\ current \in [Users -> ShardOrNone] /\ dbOnline \in [Users -> ShardOrNone]
      /\ tempCookie \in [Users -> ShardOrNone] /\ moving \in [Users -> Move] /\ waiting \in [Users -> Place]
      /\ abnormal \in [Users -> BOOLEAN]
  BY DEF Around, TypeOK, LSTypeOK, NetTypeOK
<1>10. PICK x : x = <<<<s, LS>>, m>>
  OBVIOUS
<1>11. PICK outs : outs = LogoffOutbox(u) \oplus go
  OBVIOUS
<1>12. /\ WSStays(v) /\ DataStays(v) /\ JobsOf(v, {}, {}) /\ SocksStay(v) /\ LoginStays(v)
  BY WSQuiet, FSQuiet, SSQuiet DEF wsVars, fsVars, ssVars
<1>13. /\ go \in Outbox /\ LoneFor(v, LS, go)
       /\ \A y \in Sent(LS, go) : /\ Abroad(u) /\ y[1] = <<LS, infoCur[u]>>
                                  /\ y[2].kind = "M_NT_MOVE_USER_DATA_REQ" /\ y[2].u = u
  <2>1. CASE Abroad(u)
    BY <1>4, <1>6, <2>1, HomeSends
  <2>2. CASE ~Abroad(u)
    <3>1. go = Silent
      BY <1>6, <2>2
    <3>2. \A y \in Sent(LS, Silent) : FALSE
      BY SentNone
    <3>3. QED
      BY <3>1, <3>2, SilentTyped, LoneForOne
  <2>3. QED
    BY <2>1, <2>2
<1>14. LogoffOutbox(u) \in Outbox /\ LoneFor(v, LS, LogoffOutbox(u)) /\ Mute(v, LS, LogoffOutbox(u))
  BY <1>4, <1>5, LogoffSends
<1>15. outs \in Outbox /\ LoneFor(v, LS, outs) /\ \A y \in Sent(LS, outs) : y \in Sent(LS, LogoffOutbox(u)) \/ y \in Sent(LS, go)
  BY <1>11, <1>13, <1>14, LoneForBoth, JoinTyped
<1>16. PICK Y : Y = Sent(LS, outs)
  OBVIOUS
<1>17. \A y \in Y : \/ ~Concerns(v, y)
                    \/ /\ v = u /\ Abroad(u) /\ y[1] = <<LS, infoCur[u]>>
                       /\ y[2].kind = "M_NT_MOVE_USER_DATA_REQ" /\ y[2].u = u
  BY <1>13, <1>14, <1>15, <1>16, ApartConcerns DEF Mute
<1>18. \A y \in Y : y \notin Kicks(v) /\ y \notin Reports(v, 0)
  BY <1>17 DEF Concerns, Kicks, Reports
<1>19. /\ NetOf(v, {x}, Y)
       /\ Ordered(Entry(v), Kicks(v)) => Ordered(Entry(v), Kicks(v))'
  BY <1>1, <1>3, <1>7, <1>10, <1>11, <1>15, <1>16, <1>18, Received
<1>20. CASE u # v
  <2>1. moving'[v] = moving[v]
    BY <1>7, <1>9, <1>20
  <2>2. LSStays(v) /\ changeReq'[v] = changeReq[v]
    BY <1>3, <1>7, <1>9, <1>20, <2>1 DEF LSStays, LSKeeps, LSHolds, HomeOfData, LoadedShard
  <2>3. \A y \in Y : ~Concerns(v, y)
    BY <1>17, <1>20
  <2>4. QED
    BY <1>19, <2>2, <2>3, StillLS, Unconcerned
<1>21. CASE u = v
  <2>1. x \in Reports(u, 0) /\ x[1][1] = s /\ x[1][2] = LS /\ x \in Flights
    BY <1>2, <1>4, <1>7, <1>10, NodesDistinct DEF Reports
  <2>2. /\ OneEnd(u)' /\ \A t \in Shards : ~EndsOn(u, t)'
        /\ Room(u) = {} /\ current[u] \in {s, NoShard} /\ ~Blank(u) /\ EndsOn(u, s)
    BY <1>12, <1>18, <1>19, <1>21, <2>1, EndRead
  <2>3. Kept(u) /\ Kicked(u) /\ Stored(u)
    BY <1>21 DEF Kept
  <2>4. dbOnline'[u] = NoShard
    <3>1. dbOnline[u] \in {s, NoShard}
      BY <2>2, <2>3 DEF Stored
    <3>2. OnlineAfterLogoff(u, s, fails) = NoShard
      BY <1>8, <3>1, NullsDistinct DEF OnlineAfterLogoff, LogoffResult
    <3>3. QED
      BY <1>4, <1>7, <1>9, <3>2
  <2>5. Left(u)
    <3>1. waiting[u] = Nowhere
      BY <1>5, <1>7 DEF NobodyWaits
    <3>2. MainShard[u] # NoShard
      BY <1>4, NullsDistinct, PlacesOK
    <3>3. [to |-> MainShard[u], f |-> NoFes, reason |-> 0] # NoMove
      BY <3>2 DEF NoMove
    <3>4. \/ moving'[u] = moving[u] /\ ~Abroad(u)
          \/ moving'[u] # NoMove /\ moving'[u].reason = 0 /\ Abroad(u)
      BY <1>4, <1>7, <1>9, <3>3
    <3>5. current'[u] = NoShard /\ ~abnormal'[u] /\ waiting'[u] = Nowhere /\ changeReq'[u] = changeReq[u]
          /\ infoCur'[u] = infoCur[u] /\ LoadedShard(u)' = LoadedShard(u) /\ tempCookie'[u] = tempCookie[u]
      BY <1>3, <1>4, <1>7, <1>9, <3>1 DEF LoadedShard
    <3>6. QED
      BY <2>4, <3>1, <3>4, <3>5 DEF Left
  <2>6. Ordered(Entry(u), Kicks(u))'
    BY <1>19, <1>21, <2>3 DEF Kicked, KicksFirst
  <2>7. \A y \in Y : \/ ~Concerns(u, y)
                     \/ /\ Abroad(u) /\ y[1] = <<LS, infoCur[u]>>
                        /\ y[2].kind = "M_NT_MOVE_USER_DATA_REQ" /\ y[2].u = u
    BY <1>17, <1>21
  <2>8. QED
    BY <1>4, <1>12, <1>19, <1>21, <2>2, <2>3, <2>5, <2>6, <2>7, LoggedOff
<1>22. QED
  BY <1>20, <1>21

-----------------------------------------------------------------------------
(* A copy that has arrived.                                                *)

(* The move of u ends or goes on.                                          *)
MoveGoes(u) ==
  /\ current'[u] = current[u] /\ tempCookie'[u] = tempCookie[u] /\ waiting'[u] = waiting[u]
  /\ changeReq'[u] = changeReq[u]
  /\ moving[u] # NoMove /\ Room(u) = {}
  /\ Fetches(u)' => moving'[u] = moving[u]

(* An entry that is on its way stays.                                      *)
LEMMA TokenBesideMove ==
  ASSUME NEW u, NEW z, TokenOK(u, z), MoveGoes(u), SocksStay(u), NoNewEnd(u)
  PROVE  TokenOK(u, z)'
<1>1. Calls(u) => Calls(u)'
  BY DEF Calls, MoveGoes, SocksStay, Waits, Fetches
<1>2. ~Blank(u)
  BY DEF Blank, MoveGoes
<1>3. Asking(u)' = Asking(u) /\ Reports(u, 1)' = Reports(u, 1) /\ Entry(u)' = Entry(u)
  BY DEF Asking, Reports, Entry
<1>4. ASSUME z \in Asking(u) PROVE AskOK(u, z)'
  <2>1. AskOK(u, z)
    BY <1>4 DEF TokenOK
  <2>2. Cand(u)' = {} /\ Calls(u)' /\ Content(u)' = {}
    BY <2>1, <1>1 DEF AskOK, SocksStay
  <2>3. current'[u] = current[u] /\ tempCookie'[u] = tempCookie[u]
    BY DEF MoveGoes
  <2>4. QED
    BY <1>2, <2>1, <2>2, <2>3 DEF AskOK
<1>5. ASSUME z \in Reports(u, 1) PROVE ReportOK(u, z)'
  BY <1>1, <1>5 DEF TokenOK, ReportOK, MoveGoes, SocksStay
<1>6. ASSUME z \in Entry(u) PROVE EntryOK(u, z)'
  <2>1. EntryOK(u, z) /\ Cand(u) = {}
    BY <1>6 DEF TokenOK, EntryOK, MoveGoes
  <2>2. Cand(u)' = {} /\ Room(u)' = {}
    BY <2>1 DEF SocksStay, EntryOK
  <2>3. QED
    BY <1>1, <2>1, <2>2 DEF EntryOK, MoveGoes
<1>7. QED
  BY <1>3, <1>4, <1>5, <1>6 DEF TokenOK

(* A leg of a move of the data ends: the next leg starts, or the user that *)
(* waited for its data is let in.                                          *)
LEMMA MovedOn ==
  ASSUME Around, NEW u \in Users, Kept(u), MoveGoes(u),
         WSStays(u), SocksStay(u), LoginStays(u), JobsOf(u, {}, {}),
         NEW X, NEW Y, NetOf(u, X, Y),
         \A y \in Y : \/ ~Concerns(u, y)
                      \/ y \in Copies(u)
                      \/ /\ Fetches(u) /\ moving'[u] = NoMove /\ infoCur'[u] = moving[u].to
                         /\ y = EntryTo(u, moving[u].to, moving[u].f),
         OneCopy(u)', Stored(u)', Ordered(Entry(u), Kicks(u))'
  PROVE  Kept(u)'
<1>1. /\ OneEnd(u) /\ Inside(u) /\ Outside(u) /\ Leaves(u) /\ TokensOK(u) /\ Young(u) /\ Kicked(u)
  BY DEF Kept
<1>2. PICK e : e = EntryTo(u, moving[u].to, moving[u].f)
  OBVIOUS
<1>3. /\ e[1] = <<LS, moving[u].to>> /\ e[2].kind = "M_ENTER__SHARD" /\ e[2].u = u
      /\ e[2].fsSid = moving[u].f
  BY <1>2 DEF EntryTo, Msg
<1>4. e \notin Reports(u, 0) /\ e \notin Reports(u, 1) /\ e \notin Kicks(u) /\ e \notin Asking(u)
  BY <1>3 DEF Reports, Kicks, Asking, AskKinds
<1>5. \A y \in Y : y \in Ahead(u) => Fetches(u) /\ moving'[u] = NoMove /\ infoCur'[u] = moving[u].to /\ y = e
  BY <1>2 DEF Concerns, Copies, DataKinds, Ahead, Asking, AskKinds, Reports, Entry
<1>6. \A y \in Y : y \notin Kicks(u) /\ y \notin Reports(u, 0)
  BY <1>2, <1>4 DEF Concerns, Copies, DataKinds, Kicks, Reports
<1>7. OneEnd(u)' /\ NoNewEnd(u)
  <2>1. \A y \in {} : y \notin EndJobs(u)
    OBVIOUS
  <2>2. QED
    BY <1>1, <1>6, <2>1, EndsFewer DEF SocksStay
<1>8. Room(u)' = {} /\ Cand(u)' = Cand(u) /\ Fresh(u)' = Fresh(u) /\ offers'[u] = offers[u]
  BY DEF SocksStay, MoveGoes
<1>9. Fetches(u)' => Fetches(u) /\ moving'[u] = moving[u]
  BY DEF Fetches, MoveGoes
<1>10. Waits(u)' = Waits(u)
  BY DEF Waits, MoveGoes
<1>11. Fetches(u) => \A z \in Flights : z \notin Ahead(u)
  BY <1>1 DEF TokensOK, TokenOK, Ahead, AskOK, ReportOK, EntryOK, Calls
<1>12. \A z \in Flights' : z \in Ahead(u) =>
         \/ z \in Flights
         \/ Fetches(u) /\ moving'[u] = NoMove /\ infoCur'[u] = moving[u].to /\ z = e
  BY <1>5 DEF NetOf, Moves
<1>13. Inside(u)'
  BY <1>1, <1>8 DEF Inside, IsLone, SocksStay
<1>14. Outside(u)'
  <2>1. OffersOK(u)' /\ FreshOK(u)'
    BY <1>1, <1>8, <1>9, <1>10 DEF Outside, OffersOK, FreshOK, MoveGoes
  <2>2. WaitsOK(u)'
    BY <1>1, <1>8, <1>9, <1>10 DEF Outside, WaitsOK, MoveGoes
  <2>3. FetchOK(u)'
    BY <1>1, <1>7, <1>8, <1>9 DEF Outside, FetchOK, MoveGoes, NoNewEnd
  <2>4. QED
    BY <2>1, <2>2, <2>3 DEF Outside
<1>15. Leaves(u)'
  <2>1. ASSUME NEW t \in Shards PROVE LeftTok(u, t, e)
    BY <1>4 DEF LeftTok
  <2>2. QED
    BY <1>1, <1>7, <1>8, <1>12, <2>1, LeavesFewer DEF MoveGoes
<1>16. TokensOK(u)'
  <2>1. LoneIn(Ahead(u))'
    BY <1>1, <1>5, <1>11 DEF TokensOK, NetOf, Moves
  <2>2. ASSUME NEW z \in Flights', z \in Ahead(u) PROVE TokenOK(u, z)'
    <3>1. CASE z \in Flights
      <4>1. TokenOK(u, z)
        BY <1>1, <3>1 DEF TokensOK
      <4>2. QED
        BY <4>1, <1>7, TokenBesideMove
    <3>2. CASE Fetches(u) /\ moving'[u] = NoMove /\ infoCur'[u] = moving[u].to /\ z = e
      <4>1. FetchOK(u) /\ offers[u] = {} /\ Fresh(u) = {} /\ ~Waits(u)
        BY <1>1, <3>2 DEF Outside, OffersOK, FreshOK, WaitsOK
      <4>2. Calls(u)'
        BY <1>8, <1>10, <3>2, <4>1 DEF Calls, Fetches, NoMove
      <4>3. tempCookie'[u] = NoShard
        BY <1>1, <3>2 DEF Young, MoveGoes
      <4>4. EntryShard(z) = moving[u].to
        <5>1. moving[u].to # LS
          BY <3>2, <4>1, PlacesOK, NodesDistinct DEF FetchOK
        <5>2. QED
          BY <1>3, <3>2, <5>1 DEF EntryShard
      <4>5. EntryOK(u, z)'
        <5>1. EntryShard(z)' = EntryShard(z)
          BY DEF EntryShard
        <5>2. z[2].fsSid = moving[u].f /\ z[2].fsSid \in Fess /\ ShardOf[z[2].fsSid] = EntryShard(z)
          BY <1>3, <3>2, <4>1, <4>4 DEF FetchOK
        <5>3. \A c \in Cand(u) : /\ c[1] = z[2].fsSid /\ moving'[u] = NoMove
                        /\ current'[u] = EntryShard(z) /\ infoCur'[u] = EntryShard(z)
          BY <3>2, <4>1, <4>4, <5>2 DEF FetchOK, MoveGoes
        <5>4. \A t \in Shards : EndsOn(u, t)' => Cand(u) = {}
          BY <1>7, <3>2, <4>1 DEF NoNewEnd, FetchOK
        <5>5. QED
          BY <1>8, <4>2, <4>3, <5>1, <5>2, <5>3, <5>4 DEF EntryOK
      <4>6. z \notin Asking(u)' /\ z \notin Reports(u, 1)'
        BY <1>4, <3>2 DEF Asking, Reports
      <4>7. QED
        BY <4>5, <4>6 DEF TokenOK
    <3>3. QED
      BY <1>12, <2>2, <3>1, <3>2
  <2>3. ASSUME NEW z \in Flights' PROVE TokenOK(u, z)'
    <3>1. CASE z \in Ahead(u)
      BY <2>2, <3>1
    <3>2. CASE z \notin Ahead(u)
      BY <3>2 DEF Ahead, TokenOK, Asking, Reports, Entry
    <3>3. QED
      BY <3>1, <3>2
  <2>4. QED
    BY <2>1, <2>3 DEF TokensOK
<1>17. Young(u)'
  <2>1. \A n \in Logins : sock[u][n] \notin {"refused", "unused", "listed"}
    BY <1>1 DEF Young, MoveGoes, Blank
  <2>2. \A n \in Logins : sock'[u][n] \notin {"refused", "unused", "listed"}
    BY <2>1 DEF LoginStays
  <2>3. QED
    BY <1>1, <1>8, <1>9, <1>10, <2>2 DEF Young, MoveGoes
<1>18. Kicked(u)'
  <2>1. NoNewDanger(u)
    <3>1. \A z \in Flights' : z \in Kicks(u) => z \in Flights
      BY <1>6 DEF NetOf, Moves
    <3>2. QED
      BY <1>1, <3>1, DangersFewer DEF MoveGoes
  <2>2. KicksFirst(u)'
    <3>1. \A z \in Flights' : z \in Kicks(u) => z \in Flights
      BY <1>6 DEF NetOf, Moves
    <3>2. ASSUME NEW z \in Flights', z \in Entry(u), z[1][2] \in Fess PROVE z \in Flights
      <4>1. CASE Fetches(u) /\ z = e
        <5>1. moving[u].to \in Shards
          BY <1>1, <4>1, PlacesOK DEF Outside, FetchOK
        <5>2. QED
          BY <1>3, <3>2, <4>1, <5>1, NodesDistinct
      <4>2. QED
        BY <1>12, <3>2, <4>1 DEF Ahead
    <3>3. QED
      BY <1>1, <3>1, <3>2 DEF Kicked, KicksFirst, Kicks, Entry
  <2>3. ASSUME NEW t \in Shards, First(u, t) PROVE First(u, t)'
    <3>1. FirstHere(u, t)'
      <4>1. FirstHere(u, t)
        BY <2>3 DEF First
      <4>2. \A n \in Logins : sock'[u][n] \notin {"unused", "listed"}
        BY <4>1 DEF FirstHere, LoginStays
      <4>3. changeReq'[u] = Nowhere /\ current'[u] = current[u]
        BY <4>1 DEF FirstHere, MoveGoes
      <4>4. Fetches(u)' => moving'[u].to = t
        BY <4>1, <1>9 DEF FirstHere
      <4>5. QED
        BY <1>7, <4>1, <4>2, <4>3, <4>4, <1>8, <1>10 DEF FirstHere, NoNewEnd
    <3>2. ASSUME NEW z \in Flights' PROVE FirstTok(u, t, z)
      <4>1. CASE z \in Flights
        BY <2>3, <4>1 DEF First
      <4>2. CASE z = e /\ Fetches(u)
        <5>1. moving[u].to = t
          BY <2>3, <4>2 DEF First, FirstHere
        <5>2. QED
          BY <1>3, <1>4, <4>2, <5>1 DEF FirstTok
      <4>3. CASE z \notin Ahead(u)
        BY <4>3 DEF FirstTok, Ahead
      <4>4. QED
        BY <1>12, <4>1, <4>2, <4>3
    <3>3. \A z : FirstTok(u, t, z)' = FirstTok(u, t, z)
      BY DEF FirstTok, Asking, Reports, Entry, Source, Answers
    <3>4. QED
      BY <3>1, <3>2, <3>3 DEF First
  <2>4. ASSUME NEW t \in Shards, NEW f \in Fess, Past(u, t, f) PROVE Past(u, t, f)'
    <3>1. PastHere(u, f)'
      BY <2>4, <1>8, <1>9 DEF Past, PastHere
    <3>2. ASSUME NEW z \in Flights' PROVE PastTok(u, t, f, z)
      <4>1. CASE z \in Flights
        BY <2>4, <4>1 DEF Past
      <4>2. CASE z = e /\ Fetches(u)
        <5>1. moving[u].f = f
          BY <2>4, <4>2 DEF Past, PastHere
        <5>2. QED
          BY <1>3, <1>4, <4>2, <5>1 DEF PastTok
      <4>3. CASE z \notin Ahead(u)
        BY <4>3 DEF PastTok, Ahead
      <4>4. QED
        BY <1>12, <4>1, <4>2, <4>3
    <3>3. \A z : PastTok(u, t, f, z)' = PastTok(u, t, f, z)
      BY DEF PastTok, Asking, Reports, Entry
    <3>4. QED
      BY <3>1, <3>2, <3>3 DEF Past
  <2>5. DangersStay(u)
    BY <2>3, <2>4 DEF DangersStay
  <2>6. QED
    BY <1>1, <2>1, <2>2, <2>5, KickedFewer DEF Around
<1>19. QED
  BY <1>7, <1>13, <1>14, <1>15, <1>16, <1>17, <1>18 DEF Kept

(* What the LS sends when a copy has arrived on s.                         *)
MoveEndOutbox(u, s) ==
  IF FirstLeg(moving[u], s) THEN MoveRequest(u, s, moving[u].to)
  ELSE IF moving[u] # NoMove /\ moving[u].reason = 1 /\ infoCur[u] # NoShard
       THEN EnterShardOk(u, s, moving[u].f) ELSE Silent

(* What the LS sends when a copy has arrived: the next request, an entry,  *)
(* or nothing.                                                             *)
LEMMA MoveEndSends ==
  ASSUME Around, NEW u \in Users, NEW s \in Shards, NEW v
  PROVE  /\ MoveEndOutbox(u, s) \in Outbox
         /\ LoneFor(v, LS, MoveEndOutbox(u, s))
         /\ \A y \in Sent(LS, MoveEndOutbox(u, s)) :
              \/ /\ FirstLeg(moving[u], s) /\ y[1] = <<LS, s>>
                 /\ y[2].kind = "M_NT_MOVE_USER_DATA_REQ" /\ y[2].u = u
              \/ /\ Fetches(u) /\ moving[u].to = s /\ infoCur[u] # NoShard
                 /\ y = EntryTo(u, s, moving[u].f)
<1>1. moving[u] \in Move /\ moving[u].to \in ShardOrNone /\ moving[u].f \in FesOrNone /\ s \in ShardOrNone
  BY UserTyped DEF Move, ShardOrNone
<1>2. CASE FirstLeg(moving[u], s)
  <2>1. PICK t : t = (IF MainShard[u] \in {s, moving[u].to} THEN moving[u].to ELSE MainShard[u])
    OBVIOUS
  <2>2. PICK m : m = [Msg("M_NT_MOVE_USER_DATA_REQ", u) EXCEPT !.s = t]
    OBVIOUS
  <2>3. MoveEndOutbox(u, s) = MoveRequest(u, s, moving[u].to) /\ MoveRequest(u, s, moving[u].to) = To(s, m)
    BY <1>2, <2>1, <2>2 DEF MoveEndOutbox, MoveRequest
  <2>4. MoveRequest(u, s, moving[u].to) \in Outbox
    BY <1>1, MoveRequestTyped
  <2>5. \A y \in Sent(LS, To(s, m)) : y = <<<<LS, s>>, m>>
    BY SentOne
  <2>6. m.kind = "M_NT_MOVE_USER_DATA_REQ" /\ m.u = u
    BY <2>2 DEF Msg
  <2>7. LoneFor(v, LS, To(s, m))
    BY LoneForOne
  <2>8. QED
    BY <1>2, <2>3, <2>4, <2>5, <2>6, <2>7
<1>3. CASE ~FirstLeg(moving[u], s) /\ moving[u] # NoMove /\ moving[u].reason = 1 /\ infoCur[u] # NoShard
  <2>1. MoveEndOutbox(u, s) = EnterShardOk(u, s, moving[u].f)
    BY <1>3 DEF MoveEndOutbox
  <2>2. PICK m : m = [Msg("M_ENTER__SHARD", u) EXCEPT !.fsSid = moving[u].f]
    OBVIOUS
  <2>3. EnterShardOk(u, s, moving[u].f) = To(s, m) /\ EntryTo(u, s, moving[u].f) = <<<<LS, s>>, m>>
    BY <2>2 DEF EnterShardOk, EntryTo
  <2>4. EnterShardOk(u, s, moving[u].f) \in Outbox
    BY <1>1, EnterShardOkTyped
  <2>5. \A y \in Sent(LS, To(s, m)) : y = <<<<LS, s>>, m>>
    BY SentOne
  <2>6. LoneFor(v, LS, To(s, m))
    BY LoneForOne
  <2>7. moving[u].to = s /\ Fetches(u)
    BY <1>3 DEF FirstLeg, Fetches
  <2>8. QED
    BY <1>3, <2>1, <2>3, <2>4, <2>5, <2>6, <2>7
<1>4. CASE ~FirstLeg(moving[u], s) /\ ~(moving[u] # NoMove /\ moving[u].reason = 1 /\ infoCur[u] # NoShard)
  <2>1. MoveEndOutbox(u, s) = Silent
    BY <1>4 DEF MoveEndOutbox
  <2>2. \A y \in Sent(LS, Silent) : FALSE
    BY SentNone
  <2>3. QED
    BY <2>1, <2>2, SilentTyped, LoneForOne
<1>5. QED
  BY <1>2, <1>3, <1>4

(* A copy, and the data, once it has arrived.                              *)
LEMMA CopyArrived ==
  ASSUME Around, NEW u \in Users, Kept(u), NEW s \in Shards,
         NEW x \in Flights, x \in Copies(u), x[1] = <<s, LS>>, x[2].kind = "M_NT_MOVE_USER_DATA_END",
         DataStays(u), SocksStay(u), JobsOf(u, {}, {}),
         dbOnline'[u] = dbOnline[u], current'[u] = current[u], abnormal'[u] = abnormal[u],
         \/ FirstLeg(moving[u], s) /\ moving'[u] = moving[u]
         \/ ~FirstLeg(moving[u], s) /\ moving'[u] = NoMove /\ HomeOfData(u)' = s,
         NEW Y, NetOf(u, {x}, Y),
         \A y \in Y : y \in Copies(u) =>
            FirstLeg(moving[u], s) /\ y[1] = <<LS, s>> /\ y[2].kind = "M_NT_MOVE_USER_DATA_REQ"
  PROVE  OneCopy(u)' /\ Stored(u)' /\ moving[u] # NoMove /\ Room(u) = {}
<1>1. OneCopy(u) /\ Stored(u)
  BY DEF Kept
<1>2. moving[u] # NoMove /\ Room(u) = {}
  BY <1>1 DEF Stored
<1>3. data[s][u] = latest[u]
  <2>1. CopyOK(u, x)
    BY <1>1 DEF Stored
  <2>2. x[1][1] = s
    OBVIOUS
  <2>3. QED
    BY <2>1, <2>2 DEF CopyOK
<1>4. \A z \in JobFlights : z \notin CopyJobs(u)
  BY <1>1 DEF OneCopy
<1>5. \A z \in JobFlights' : z \notin CopyJobs(u)
  BY <1>4 DEF JobsOf, JobsMove
<1>6. \A z \in Flights' : z \in Copies(u) => z \in Y
  BY <1>1 DEF OneCopy, NetOf, Moves
<1>7. Copies(u)' = Copies(u) /\ CopyJobs(u)' = CopyJobs(u)
  BY DEF Copies, CopyJobs
<1>8. LoneIn(Copies(u))' /\ LoneJob(CopyJobs(u))'
  <2>1. \A y \in {} : y \notin CopyJobs(u)
    OBVIOUS
  <2>2. QED
    BY <1>1, <2>1 DEF OneCopy, NetOf, Moves, JobsOf, JobsMove
<1>9. OneCopy(u)'
  BY <1>5, <1>7, <1>8 DEF OneCopy
<1>10. data'[s][u] = latest'[u]
  BY <1>3 DEF DataStays
<1>11. moving'[u] = NoMove => /\ HomeOfData(u)' = s /\ \A z \in Flights' : z \notin Copies(u)
  BY <1>2, <1>6
<1>12. ASSUME NEW z \in Flights', z \in Copies(u) PROVE CopyOK(u, z)'
  <2>1. z[1] = <<LS, s>> /\ z[2].kind = "M_NT_MOVE_USER_DATA_REQ"
    BY <1>6, <1>12
  <2>2. QED
    BY <1>10, <2>1 DEF CopyOK
<1>13. Stored(u)'
  <2>1. Room(u)' = {}
    BY <1>2 DEF SocksStay
  <2>2. data'[HomeOfData(u)'][u] = latest'[u] \/ moving'[u] # NoMove
    BY <1>10, <1>11
  <2>3. dbOnline'[u] = current'[u] /\ ~abnormal'[u]
    BY <1>1 DEF Stored
  <2>4. QED
    BY <1>5, <1>7, <1>10, <1>11, <1>12, <2>1, <2>2, <2>3 DEF Stored
<1>14. QED
  BY <1>2, <1>9, <1>13

(* LSMoveDataEnd keeps Kept for every user.                                *)
LEMMA KeptMoveDataEnd ==
  ASSUME Around, NEW s \in Shards, LSMoveDataEnd(s), UNCHANGED <<wsVars, fsVars, ssVars, latest>>,
         NEW v \in Users, \A a \in Users : Kept(a)
  PROVE  Kept(v)'
<1>1. PICK m : m = Head(net[<<s, LS>>])
  OBVIOUS
<1>2. PICK u : u = m.u
  OBVIOUS
<1>3. /\ <<s, LS>> \in Links /\ Pending(s, LS, "M_NT_MOVE_USER_DATA_END")
      /\ UNCHANGED <<tempCookie, current, waiting, changeReq, abnormal, dbOnline>>
  BY LinksAre DEF LSMoveDataEnd
<1>4. /\ <<<<s, LS>>, m>> \in Flights /\ <<<<s, LS>>, m>> \in Flying
      /\ m.kind = "M_NT_MOVE_USER_DATA_END" /\ u \in Users /\ m \in Message
  BY <1>1, <1>2, <1>3, HeadIs
<1>5. PICK outs : outs = MoveEndOutbox(u, s)
  OBVIOUS
<1>6. PICK fails \in BOOLEAN :
        /\ Queries(fails)
        /\ dbCur' = [dbCur EXCEPT ![u] = IF fails THEN @ ELSE s]
        /\ moving' = [moving EXCEPT ![u] =
             IF moving[u] # NoMove /\ ~FirstLeg(moving[u], s) THEN NoMove ELSE @]
        /\ infoCur' = [infoCur EXCEPT ![u] =
             IF (moving[u] # NoMove /\ ~FirstLeg(moving[u], s)) /\ @ # NoShard THEN s ELSE @]
        /\ Receive(s, LS, outs)
  <2>1. \A mv : (mv # NoMove /\ ~FirstLeg(mv, s)) /\ mv.reason = 1 /\ infoCur[u] # NoShard /\ ~FirstLeg(mv, s)
           <=> (mv # NoMove /\ mv.reason = 1 /\ infoCur[u] # NoShard) /\ ~FirstLeg(mv, s)
    OBVIOUS
  <2>2. outs = IF FirstLeg(moving[u], s) THEN MoveRequest(u, s, moving[u].to)
               ELSE IF (moving[u] # NoMove /\ ~FirstLeg(moving[u], s)) /\ moving[u].reason = 1 /\ infoCur[u] # NoShard
                    THEN EnterShardOk(u, s, moving[u].f) ELSE Silent
    BY <1>5 DEF MoveEndOutbox
  <2>3. QED
    BY <1>1, <1>2, <2>2 DEF LSMoveDataEnd
<1>7. ~fails
  BY <1>6, NoFailure
<1>8. /\ moving \in [Users -> Move] /\ infoCur \in [Users -> ShardOrNone] /\ dbCur \in [Users -> ShardOrNone]
  BY DEF Around, TypeOK, LSTypeOK, NetTypeOK
<1>9. PICK x : x = <<<<s, LS>>, m>>
  OBVIOUS
<1>10. /\ WSStays(v) /\ DataStays(v) /\ JobsOf(v, {}, {}) /\ SocksStay(v) /\ LoginStays(v)
  BY WSQuiet, FSQuiet, SSQuiet DEF wsVars, fsVars, ssVars
<1>11. /\ outs \in Outbox /\ LoneFor(v, LS, outs)
       /\ \A y \in Sent(LS, outs) :
              \/ /\ FirstLeg(moving[u], s) /\ y[1] = <<LS, s>>
                 /\ y[2].kind = "M_NT_MOVE_USER_DATA_REQ" /\ y[2].u = u
              \/ /\ Fetches(u) /\ moving[u].to = s /\ infoCur[u] # NoShard
                 /\ y = EntryTo(u, s, moving[u].f)
  BY <1>4, <1>5, MoveEndSends
<1>12. PICK Y : Y = Sent(LS, outs)
  OBVIOUS
<1>13. \A y \in Y : y[2].u = u /\ y[2].kind \in {"M_NT_MOVE_USER_DATA_REQ", "M_ENTER__SHARD"}
  BY <1>11, <1>12 DEF EntryTo, Msg
<1>14. \A y \in Y : y \notin Kicks(v) /\ y \notin Reports(v, 0)
  BY <1>13 DEF Kicks, Reports
<1>15. /\ NetOf(v, {x}, Y)
       /\ Ordered(Entry(v), Kicks(v)) => Ordered(Entry(v), Kicks(v))'
  BY <1>1, <1>3, <1>6, <1>9, <1>11, <1>12, <1>14, Received
<1>16. CASE u # v
  <2>1. moving'[v] = moving[v] /\ infoCur'[v] = infoCur[v] /\ dbCur'[v] = dbCur[v]
    BY <1>6, <1>8, <1>16
  <2>2. LSStays(v) /\ changeReq'[v] = changeReq[v]
    BY <1>3, <2>1 DEF LSStays, LSKeeps, LSHolds, HomeOfData, LoadedShard
  <2>3. \A y \in Y : ~Concerns(v, y)
    BY <1>13, <1>16, ApartConcerns
  <2>4. QED
    BY <1>15, <2>2, <2>3, StillLS, Unconcerned
<1>17. CASE u = v
  <2>1. x \in Copies(u) /\ x[1] = <<s, LS>> /\ x[2].kind = "M_NT_MOVE_USER_DATA_END" /\ x \in Flights
    BY <1>2, <1>4, <1>9 DEF Copies, DataKinds
  <2>2. Kept(u) /\ Kicked(u) /\ Stored(u)
    BY <1>17 DEF Kept
  <2>3. moving[u] # NoMove
    BY <2>1, <2>2 DEF Stored
  <2>4. \/ FirstLeg(moving[u], s) /\ moving'[u] = moving[u]
        \/ ~FirstLeg(moving[u], s) /\ moving'[u] = NoMove /\ HomeOfData(u)' = s
    <3>1. CASE FirstLeg(moving[u], s)
      BY <1>4, <1>6, <1>8, <3>1
    <3>2. CASE ~FirstLeg(moving[u], s)
      <4>1. moving'[u] = NoMove
        BY <1>4, <1>6, <1>8, <2>3, <3>2
      <4>2. infoCur'[u] = (IF infoCur[u] # NoShard THEN s ELSE NoShard) /\ dbCur'[u] = s
        BY <1>4, <1>6, <1>7, <1>8, <2>3, <3>2
      <4>3. HomeOfData(u)' = s
        BY <4>2, NullsDistinct DEF HomeOfData, LoadedShard
      <4>4. QED
        BY <3>2, <4>1, <4>3
    <3>3. QED
      BY <3>1, <3>2
  <2>5. /\ dbOnline'[u] = dbOnline[u] /\ current'[u] = current[u] /\ abnormal'[u] = abnormal[u]
        /\ tempCookie'[u] = tempCookie[u] /\ waiting'[u] = waiting[u] /\ changeReq'[u] = changeReq[u]
    BY <1>3
  <2>6. \A y \in Y : y \in Copies(u) =>
            FirstLeg(moving[u], s) /\ y[1] = <<LS, s>> /\ y[2].kind = "M_NT_MOVE_USER_DATA_REQ"
    BY <1>11, <1>12 DEF Copies, DataKinds, EntryTo, Msg
  <2>7. OneCopy(u)' /\ Stored(u)' /\ Room(u) = {}
    BY <1>4, <1>10, <1>15, <1>17, <2>1, <2>2, <2>4, <2>5, <2>6, CopyArrived
  <2>8. MoveGoes(u)
    <3>1. Fetches(u)' => moving'[u] = moving[u]
      BY <2>4 DEF Fetches, NoMove
    <3>2. QED
      BY <2>3, <2>5, <2>7, <3>1 DEF MoveGoes
  <2>9. ASSUME NEW y \in Y
        PROVE  \/ ~Concerns(u, y)
               \/ y \in Copies(u)
               \/ /\ Fetches(u) /\ moving'[u] = NoMove /\ infoCur'[u] = moving[u].to
                  /\ y = EntryTo(u, moving[u].to, moving[u].f)
    <3>1. CASE y[2].kind = "M_NT_MOVE_USER_DATA_REQ"
      BY <3>1 DEF Concerns, Ahead, Asking, AskKinds, Reports, Entry, Kicks
    <3>2. CASE Fetches(u) /\ moving[u].to = s /\ infoCur[u] # NoShard /\ y = EntryTo(u, s, moving[u].f)
      <4>1. ~FirstLeg(moving[u], s)
        BY <3>2 DEF FirstLeg
      <4>2. moving'[u] = NoMove /\ infoCur'[u] = s
        BY <1>4, <1>6, <1>8, <2>3, <3>2, <4>1
      <4>3. QED
        BY <3>2, <4>2
    <3>3. QED
      BY <1>11, <1>12, <3>1, <3>2
  <2>10. Ordered(Entry(u), Kicks(u))'
    BY <1>15, <1>17, <2>2 DEF Kicked, KicksFirst
  <2>11. QED
    BY <1>4, <1>10, <1>15, <1>17, <2>2, <2>7, <2>8, <2>9, <2>10, MovedOn
<1>18. QED
  BY <1>16, <1>17

-----------------------------------------------------------------------------
(* What a welcome service passes on.                                       *)

(* WSShardAnswer keeps Kept for every user.                                *)
LEMMA KeptWSShardAnswer ==
  ASSUME Around, NEW f \in Fess, WSShardAnswer(f), UNCHANGED <<dbVars, lsVars, fsVars, ssVars, latest>>,
         NEW v \in Users, Kept(v)
  PROVE  Kept(v)'
<1>1. PICK s \in Shards : s = ShardOf[f]
  BY PlacesOK
<1>2. PICK m : m = Head(net[<<f, s>>])
  OBVIOUS
<1>3. /\ <<f, s>> \in Links /\ Pending(f, s, "M_ENTER_SHARD_ANSWER") /\ Receive(f, s, To(LS, m))
      /\ UNCHANGED wsVars
  BY <1>1, <1>2, LinksAre DEF WSShardAnswer
<1>4. /\ <<<<f, s>>, m>> \in Flights /\ <<<<f, s>>, m>> \in Flying
      /\ m.kind = "M_ENTER_SHARD_ANSWER" /\ m.u \in Users /\ m \in Message
  BY <1>2, <1>3, HeadIs
<1>5. Still(v) /\ changeReq'[v] = changeReq[v]
  BY <1>3, StillWS DEF wsVars
<1>6. SS \notin Shards /\ LS \notin Shards /\ LS # SS /\ SS \notin Fess /\ LS \notin Fess
  BY NodesDistinct
<1>7. ASSUME m.u = v
      PROVE  /\ AskOK(v, <<<<s, LS>>, m>>)
             /\ \A t \in Shards : FesOf(t) # {} /\ First(v, t) => FirstTok(v, t, <<<<s, LS>>, m>>)
  <2>1. PICK x : x = <<<<f, s>>, m>>
    OBVIOUS
  <2>2. x \in Asking(v)
    BY <1>4, <1>7, <2>1 DEF Asking, AskKinds
  <2>3. AskOK(v, x) /\ \A t \in Shards : First(v, t) => FirstTok(v, t, x)
    BY <1>4, <2>1, <2>2, AskHead
  <2>4. AskOK(v, <<<<s, LS>>, m>>)
    BY <1>4, <1>6, <2>1, <2>3 DEF AskOK
  <2>5. ASSUME NEW t \in Shards, First(v, t) PROVE FirstTok(v, t, <<<<s, LS>>, m>>)
    <3>1. FirstTok(v, t, x)
      BY <2>3, <2>5
    <3>2. m.v = 0 /\ ShardOf[m.f] = t
      BY <1>4, <2>1, <2>2, <3>1 DEF FirstTok
    <3>3. <<<<s, LS>>, m>> \notin Reports(v, 1) /\ <<<<s, LS>>, m>> \notin Entry(v)
      BY <1>4 DEF Reports, Entry
    <3>4. QED
      BY <1>4, <1>6, <3>2, <3>3 DEF FirstTok
  <2>6. QED
    BY <2>4, <2>5
<1>8. QED
  BY <1>2, <1>3, <1>4, <1>5, <1>7, RelayedAsk DEF AskKinds

(* WSChangeShardReq keeps Kept for every user.                             *)
LEMMA KeptWSChangeShardReq ==
  ASSUME Around, NEW f \in Fess, WSChangeShardReq(f), UNCHANGED <<dbVars, lsVars, fsVars, ssVars, latest>>,
         NEW v \in Users, Kept(v)
  PROVE  Kept(v)'
<1>1. PICK s \in Shards : s = ShardOf[f]
  BY PlacesOK
<1>2. PICK m : m = Head(net[<<f, s>>])
  OBVIOUS
<1>3. PICK p : p = [m EXCEPT !.fsSid = f]
  OBVIOUS
<1>4. /\ <<f, s>> \in Links /\ Pending(f, s, "M_CS_CHANGE_SHARD_REQ")
      /\ UNCHANGED wsVars
  BY <1>1, LinksAre DEF WSChangeShardReq
<1>5. Receive(f, s, IF m.s = s THEN Silent ELSE To(LS, p))
  BY <1>1, <1>2, <1>3 DEF WSChangeShardReq
<1>6. /\ <<<<f, s>>, m>> \in Flights /\ <<<<f, s>>, m>> \in Flying
      /\ m.kind = "M_CS_CHANGE_SHARD_REQ" /\ m.u \in Users /\ m \in Message
  BY <1>2, <1>4, HeadIs
<1>7. Still(v) /\ changeReq'[v] = changeReq[v]
  BY <1>4, StillWS DEF wsVars
<1>8. SS \notin Shards /\ LS \notin Shards /\ LS # SS /\ SS \notin Fess /\ LS \notin Fess /\ s \notin Fess
  BY NodesDistinct
<1>9. CASE m.s = s
  <2>1. Receive(f, s, Silent)
    BY <1>5, <1>9
  <2>2. QED
    BY <1>4, <1>7, <2>1, UnmovedSilent
<1>10. CASE m.s # s
  <2>1. p \in Message /\ p.u = m.u /\ p.kind = m.kind /\ p.v = m.v /\ p.f = m.f /\ p.s = m.s
    <3>1. /\ m = [kind |-> m.kind, u |-> m.u, ck |-> m.ck, s |-> m.s,
                  f |-> m.f, fsSid |-> m.fsSid, v |-> m.v]
          /\ m.ck \in Cookie /\ m.s \in ShardOrNone /\ m.f \in FesOrNone /\ m.fsSid \in FesOrNone
          /\ m.v \in Nat
      BY <1>6, MessageIs
    <3>2. p = [kind |-> m.kind, u |-> m.u, ck |-> m.ck, s |-> m.s, f |-> m.f, fsSid |-> f, v |-> m.v]
      BY <1>3, <3>1
    <3>3. f \in FesOrNone
      BY DEF FesOrNone
    <3>4. QED
      BY <1>6, <3>1, <3>2, <3>3 DEF Message, Kinds, Answers
  <2>2. ASSUME m.u = v
        PROVE  /\ AskOK(v, <<<<s, LS>>, p>>)
               /\ \A t \in Shards : FesOf(t) # {} /\ First(v, t) => FirstTok(v, t, <<<<s, LS>>, p>>)
    <3>1. PICK x : x = <<<<f, s>>, m>>
      OBVIOUS
    <3>2. x \in Asking(v)
      BY <1>6, <2>2, <3>1 DEF Asking, AskKinds
    <3>3. AskOK(v, x) /\ \A t \in Shards : First(v, t) => FirstTok(v, t, x)
      BY <1>6, <3>1, <3>2, AskHead
    <3>4. current[v] \in {NoShard, s} /\ m.s \in Shards
      BY <1>6, <3>1, <3>3 DEF AskOK
    <3>5. current[v] # p.s
      BY <1>10, <2>1, <3>4, NullsDistinct
    <3>6. AskOK(v, <<<<s, LS>>, p>>)
      BY <1>6, <1>8, <2>1, <3>1, <3>3, <3>4, <3>5 DEF AskOK, Answers
    <3>7. \A t \in Shards : ~First(v, t)
      BY <1>6, <3>1, <3>2, <3>3 DEF FirstTok
    <3>8. QED
      BY <3>6, <3>7
  <2>3. Receive(f, s, To(LS, p))
    BY <1>5, <1>10
  <2>4. p.kind \in AskKinds /\ "M_CS_CHANGE_SHARD_REQ" \in AskKinds
    BY <1>6, <2>1 DEF AskKinds
  <2>5. QED
    BY <1>2, <1>4, <1>6, <1>7, <2>1, <2>2, <2>3, <2>4, RelayedAsk
<1>11. QED
  BY <1>9, <1>10

(* WSChooseShard keeps Kept for every user.                                *)
LEMMA KeptWSChooseShard ==
  ASSUME Around, NEW s \in Shards, WSChooseShard(s), UNCHANGED <<dbVars, lsVars, fsVars, ssVars, latest>>,
         NEW v \in Users, Kept(v)
  PROVE  Kept(v)'
<1>1. PICK m : m = Head(net[<<LS, s>>])
  OBVIOUS
<1>2. PICK f \in Best(s) : Receive(LS, s, To(f, m))
  BY <1>1 DEF WSChooseShard
<1>3. /\ <<LS, s>> \in Links /\ Pending(LS, s, "M_ENTER_SHARD_REQUEST")
      /\ UNCHANGED <<wsAssoc, jobs, data>>
  BY LinksAre DEF WSChooseShard
<1>4. /\ <<<<LS, s>>, m>> \in Flights /\ <<<<LS, s>>, m>> \in Flying
      /\ m.kind = "M_ENTER_SHARD_REQUEST" /\ m.u \in Users /\ m \in Message
  BY <1>1, <1>3, HeadIs
<1>5. Still(v) /\ changeReq'[v] = changeReq[v]
  BY <1>3, StillWS
<1>6. f \in Fess /\ SS \notin Shards /\ LS \notin Shards /\ LS # SS /\ SS \notin Fess /\ LS \notin Fess /\ s \notin Fess
  BY NodesDistinct DEF Best, FesOf
<1>7. ASSUME m.u = v
      PROVE  /\ AskOK(v, <<<<s, f>>, m>>)
             /\ \A t \in Shards : FesOf(t) # {} /\ First(v, t) => FirstTok(v, t, <<<<s, f>>, m>>)
  <2>1. PICK x : x = <<<<LS, s>>, m>>
    OBVIOUS
  <2>2. x \in Asking(v)
    BY <1>4, <1>7, <2>1 DEF Asking, AskKinds
  <2>3. AskOK(v, x) /\ \A t \in Shards : First(v, t) => FirstTok(v, t, x)
    BY <1>4, <2>1, <2>2, AskHead
  <2>4. AskOK(v, <<<<s, f>>, m>>)
    BY <1>4, <1>6, <2>1, <2>3 DEF AskOK, Answers
  <2>5. ASSUME NEW t \in Shards, First(v, t) PROVE FirstTok(v, t, <<<<s, f>>, m>>)
    <3>1. FirstTok(v, t, x)
      BY <2>3, <2>5
    <3>2. t = s
      BY <1>4, <1>6, <2>1, <2>2, <3>1 DEF FirstTok
    <3>3. <<<<s, f>>, m>> \notin Reports(v, 1) /\ <<<<s, f>>, m>> \notin Entry(v)
      BY <1>4 DEF Reports, Entry
    <3>4. QED
      BY <1>4, <1>6, <3>2, <3>3 DEF FirstTok
  <2>6. QED
    BY <2>4, <2>5
<1>8. QED
  BY <1>1, <1>2, <1>3, <1>4, <1>5, <1>7, RelayedAsk DEF AskKinds

(* WSNoFrontend keeps Kept for every user.                                 *)
LEMMA KeptWSNoFrontend ==
  ASSUME Around, NEW s \in Shards, WSNoFrontend(s), UNCHANGED <<dbVars, lsVars, fsVars, ssVars, latest>>,
         NEW v \in Users, Kept(v)
  PROVE  Kept(v)'
<1>1. PICK m : m = Head(net[<<LS, s>>])
  OBVIOUS
<1>2. PICK p : p = [m EXCEPT !.kind = "M_ENTER_SHARD_ANSWER", !.v = 1]
  OBVIOUS
<1>3. /\ <<LS, s>> \in Links /\ Pending(LS, s, "M_ENTER_SHARD_REQUEST")
      /\ UNCHANGED wsVars /\ Best(s) = {} /\ Receive(LS, s, To(LS, p))
  BY <1>1, <1>2, LinksAre DEF WSNoFrontend
<1>4. /\ <<<<LS, s>>, m>> \in Flights /\ <<<<LS, s>>, m>> \in Flying
      /\ m.kind = "M_ENTER_SHARD_REQUEST" /\ m.u \in Users /\ m \in Message
  BY <1>1, <1>3, HeadIs
<1>5. Still(v) /\ changeReq'[v] = changeReq[v]
  BY <1>3, StillWS DEF wsVars
<1>6. SS \notin Shards /\ LS \notin Shards /\ LS # SS /\ SS \notin Fess /\ LS \notin Fess /\ s \notin Fess
  BY NodesDistinct
<1>7. FesOf(s) = {}
  BY <1>3, AroundTyped, SomeBest DEF Around, NoForce
<1>8. p \in Message /\ p.u = m.u /\ p.kind = "M_ENTER_SHARD_ANSWER" /\ p.v = 1
  <2>1. /\ m = [kind |-> m.kind, u |-> m.u, ck |-> m.ck, s |-> m.s,
                f |-> m.f, fsSid |-> m.fsSid, v |-> m.v]
        /\ m.ck \in Cookie /\ m.s \in ShardOrNone /\ m.f \in FesOrNone /\ m.fsSid \in FesOrNone
        /\ m.v \in Nat
    BY <1>4, MessageIs
  <2>2. p = [kind |-> "M_ENTER_SHARD_ANSWER", u |-> m.u, ck |-> m.ck, s |-> m.s,
             f |-> m.f, fsSid |-> m.fsSid, v |-> 1]
    BY <1>2, <2>1
  <2>3. QED
    BY <1>4, <2>1, <2>2 DEF Message, Kinds
<1>9. ASSUME m.u = v
      PROVE  /\ AskOK(v, <<<<s, LS>>, p>>)
             /\ \A t \in Shards : FesOf(t) # {} /\ First(v, t) => FirstTok(v, t, <<<<s, LS>>, p>>)
  <2>1. PICK x : x = <<<<LS, s>>, m>>
    OBVIOUS
  <2>2. x \in Asking(v)
    BY <1>4, <1>9, <2>1 DEF Asking, AskKinds
  <2>3. AskOK(v, x) /\ \A t \in Shards : First(v, t) => FirstTok(v, t, x)
    BY <1>4, <2>1, <2>2, AskHead
  <2>4. AskOK(v, <<<<s, LS>>, p>>)
    BY <1>4, <1>6, <1>8, <2>1, <2>3 DEF AskOK, Answers
  <2>5. ASSUME NEW t \in Shards, First(v, t) PROVE t = s
    BY <1>4, <1>6, <2>1, <2>2, <2>3, <2>5 DEF FirstTok
  <2>6. QED
    BY <1>7, <2>4, <2>5
<1>10. p.kind \in AskKinds /\ "M_ENTER_SHARD_REQUEST" \in AskKinds
  BY <1>8 DEF AskKinds
<1>11. QED
  BY <1>1, <1>3, <1>4, <1>5, <1>8, <1>9, <1>10, RelayedAsk

(* WSRelayToFES keeps Kept for every user.                                 *)
LEMMA KeptWSRelayToFES ==
  ASSUME Around, NEW s \in Shards, WSRelayToFES(s), UNCHANGED <<dbVars, lsVars, fsVars, ssVars, latest>>,
         NEW v \in Users, Kept(v)
  PROVE  Kept(v)'
<1>1. PICK m : m = Head(net[<<LS, s>>])
  OBVIOUS
<1>2. PICK f : f = m.fsSid
  OBVIOUS
<1>3. PICK kind \in {"M_ENTER__SHARD", "M_SC_CHANGE_SHARD_ANS"} : Pending(LS, s, kind)
  BY DEF WSRelayToFES
<1>4. /\ <<LS, s>> \in Links
      /\ UNCHANGED wsVars /\ Receive(LS, s, IF f = NoFes THEN Silent ELSE To(f, m))
  BY <1>1, <1>2, LinksAre DEF WSRelayToFES
<1>5. /\ <<<<LS, s>>, m>> \in Flights /\ <<<<LS, s>>, m>> \in Flying
      /\ m.kind = kind /\ m.u \in Users /\ m \in Message
  BY <1>1, <1>3, <1>4, HeadIs
<1>6. Still(v) /\ changeReq'[v] = changeReq[v]
  BY <1>4, StillWS DEF wsVars
<1>7. SS \notin Shards /\ LS \notin Shards /\ LS # SS /\ SS \notin Fess /\ LS \notin Fess /\ s \notin Fess
  BY NodesDistinct
<1>8. CASE f = NoFes
  <2>1. Receive(LS, s, Silent)
    BY <1>4, <1>8
  <2>2. QED
    BY <1>3, <1>4, <1>6, <2>1, UnmovedSilent
<1>9. CASE f # NoFes /\ kind = "M_SC_CHANGE_SHARD_ANS"
  <2>1. Receive(LS, s, To(f, m)) /\ f \in Fess
    BY <1>2, <1>4, <1>5, <1>9, MessageIs DEF FesOrNone
  <2>2. ASSUME m.u = v
        PROVE  /\ AskOK(v, <<<<s, f>>, m>>)
               /\ \A t \in Shards : FesOf(t) # {} /\ First(v, t) => FirstTok(v, t, <<<<s, f>>, m>>)
    <3>1. PICK x : x = <<<<LS, s>>, m>>
      OBVIOUS
    <3>2. x \in Asking(v)
      BY <1>5, <1>9, <2>2, <3>1 DEF Asking, AskKinds
    <3>3. AskOK(v, x) /\ \A t \in Shards : First(v, t) => FirstTok(v, t, x)
      BY <1>5, <3>1, <3>2, AskHead
    <3>4. AskOK(v, <<<<s, f>>, m>>)
      BY <1>5, <1>7, <1>9, <2>1, <3>1, <3>3 DEF AskOK
    <3>5. \A t \in Shards : ~First(v, t)
      BY <1>5, <1>9, <3>1, <3>2, <3>3 DEF FirstTok
    <3>6. QED
      BY <3>4, <3>5
  <2>3. kind \in AskKinds /\ m.kind \in AskKinds
    BY <1>5, <1>9 DEF AskKinds
  <2>4. QED
    BY <1>1, <1>3, <1>4, <1>5, <1>6, <2>1, <2>2, <2>3, RelayedAsk
<1>10. CASE f # NoFes /\ kind = "M_ENTER__SHARD"
  <2>1. Receive(LS, s, To(f, m)) /\ f \in Fess
    BY <1>2, <1>4, <1>5, <1>10, MessageIs DEF FesOrNone
  <2>2. CASE m.u # v
    BY <1>1, <1>3, <1>4, <1>5, <1>6, <2>1, <2>2, UnmovedTo
  <2>3. CASE m.u = v
    <3>1. PICK x : x = <<<<LS, s>>, m>>
      OBVIOUS
    <3>2. PICK z : z = <<<<s, f>>, m>>
      OBVIOUS
    <3>3. x \in Entry(v) /\ x \in Flights /\ x \in Ahead(v)
      BY <1>5, <1>10, <2>3, <3>1 DEF Entry, Ahead
    <3>4. z \notin Asking(v) /\ z \notin Reports(v, 1) /\ z \notin Reports(v, 0) /\ z \notin Copies(v) /\ z \notin Kicks(v)
      BY <1>5, <1>10, <3>2 DEF Asking, AskKinds, Reports, Copies, DataKinds, Kicks
    <3>5. EntryOK(v, x) /\ Leaves(v) /\ Kicked(v) /\ TokensOK(v)
      BY <3>3 DEF Kept, TokensOK, TokenOK
    <3>6. EntryShard(x) = s /\ EntryShard(z) = s
      BY <1>7, <3>1, <3>2 DEF EntryShard
    <3>7. ASSUME NoNewEnd(v) PROVE GoesOn(v, z)
      <4>1. Calls(v) => Calls(v)'
        BY <1>6, CallsStays DEF Still, SocksStay, LSStays, LSKeeps
      <4>2. Blank(v) => Blank(v)'
        BY <1>6, <3>7 DEF Blank, NoNewEnd, Still, LSStays, LSKeeps, LSHolds, WSStays, SocksStay, Waits
      <4>3. x[2] = m /\ z[2] = m
        BY <3>1, <3>2
      <4>4. EntryOK(v, z)
        BY <3>5, <3>6, <4>3 DEF EntryOK
      <4>5. TokenOK(v, z)'
        BY <1>6, <3>4, <3>7, <4>1, <4>2, <4>4, TokenStays DEF Still, SocksStay, TokenOK
      <4>6. \A t \in Shards : LeftTok(v, t, z)
        BY <3>4 DEF LeftTok
      <4>7. ASSUME NEW t \in Shards, First(v, t) PROVE FirstTok(v, t, z)
        <5>1. FirstTok(v, t, x)
          BY <3>3, <4>7 DEF First
        <5>2. t = s
          BY <1>7, <3>1, <3>3, <5>1 DEF FirstTok
        <5>3. QED
          BY <3>2, <3>4, <5>2 DEF FirstTok
      <4>8. ASSUME NEW t \in Shards, NEW g \in Fess, Past(v, t, g) PROVE PastTok(v, t, g, z)
        <5>1. PastTok(v, t, g, x)
          BY <3>3, <4>8 DEF Past
        <5>2. QED
          BY <3>3, <3>4, <4>3, <5>1 DEF PastTok
      <4>9. QED
        BY <3>3, <4>5, <4>6, <4>7, <4>8 DEF GoesOn
    <3>8. \A y \in Flights' : y \in Kicks(v) => y[1] # <<LS, s>>
      <4>1. NetOf(v, {x}, {z})
        BY <1>1, <1>3, <1>4, <1>5, <2>1, <3>1, <3>2, ReceivedTo
      <4>2. \A y \in Flights' : y \in Kicks(v) => y \in Flights
        BY <3>4, <4>1 DEF NetOf, Moves
      <4>3. Ordered(Entry(v), Kicks(v))
        BY <3>5 DEF Kicked, KicksFirst
      <4>4. 1 \in DOMAIN net[<<LS, s>>] /\ m = net[<<LS, s>>][1]
        BY <1>1, <1>3, <1>4, AroundTyped, HeadFlies
      <4>5. <<<<LS, s>>, net[<<LS, s>>][1]>> \in Entry(v)
        BY <3>1, <3>3, <4>4
      <4>6. \A y \in Flights : y \in Kicks(v) => y[1] # <<LS, s>>
        BY <1>4, <4>3, <4>4, <4>5, AroundTyped, HeadOrdered
      <4>7. QED
        BY <4>2, <4>6
    <3>9. QED
      BY <1>1, <1>3, <1>4, <1>5, <1>6, <2>1, <3>1, <3>2, <3>3, <3>4, <3>7, <3>8, Relayed
  <2>4. QED
    BY <2>2, <2>3
<1>11. QED
  BY <1>8, <1>9, <1>10

(* WSRemovedPendingCookie keeps Kept for every user.                       *)
LEMMA KeptWSRemovedPendingCookie ==
  ASSUME Around, NEW f \in Fess, WSRemovedPendingCookie(f), UNCHANGED <<dbVars, lsVars, fsVars, ssVars, latest>>,
         NEW v \in Users, Kept(v)
  PROVE  Kept(v)'
<1>1. PICK s \in Shards : s = ShardOf[f]
  BY PlacesOK
<1>2. PICK m : m = Head(net[<<f, s>>])
  OBVIOUS
<1>3. /\ <<f, s>> \in Links /\ Pending(f, s, "M_LOGIN_SERVER_RPC") /\ Receive(f, s, To(LS, m))
      /\ UNCHANGED <<wsAssoc, jobs, data>>
  BY <1>1, <1>2, LinksAre DEF WSRemovedPendingCookie
<1>4. /\ <<<<f, s>>, m>> \in Flights /\ <<<<f, s>>, m>> \in Flying
      /\ m.kind = "M_LOGIN_SERVER_RPC" /\ m.u \in Users /\ m \in Message
  BY <1>2, <1>3, HeadIs
<1>5. Still(v) /\ changeReq'[v] = changeReq[v]
  BY <1>3, StillWS
<1>6. ~Concerns(v, <<<<s, LS>>, m>>)
  <2>1. Apart(m.kind)
    BY <1>4 DEF Apart, AskKinds, DataKinds
  <2>2. PICK z : z = <<<<s, LS>>, m>>
    OBVIOUS
  <2>3. Apart(z[2].kind)
    BY <2>1, <2>2
  <2>4. QED
    BY <2>2, <2>3, ApartConcerns
<1>7. QED
  BY <1>3, <1>4, <1>5, <1>6, UnmovedTo

-----------------------------------------------------------------------------
(* The reports of a welcome service.                                       *)

(* An entry of u goes on, whatever the shards record of it.                *)
LEMMA Continues ==
  ASSUME NEW u \in Users, Kept(u),
         LSStays(u), LoginStays(u), SocksStay(u),
         OneEnd(u)', NoNewEnd(u), OneCopy(u)', Stored(u)', LoneIn(Ahead(u))',
         NEW x \in Flights, x \in Ahead(u),
         \A z \in Flights' : z \in Ahead(u) => GoesOn(u, z),
         Kicked(u)'
  PROVE  Kept(u)'
<1>1. /\ Inside(u) /\ Outside(u) /\ Leaves(u) /\ TokensOK(u) /\ Young(u) /\ Kicked(u)
  BY DEF Kept
<1>2. Inside(u)' /\ Outside(u)'
  BY <1>1, InsideFewer, OutsideFewer DEF SocksStay, LSStays, LSKeeps
<1>3. Calls(u) => Calls(u)'
  BY CallsStays DEF SocksStay, LSStays, LSKeeps
<1>4. Leaves(u)'
  <2>1. \A z \in Flights' : z \in Ahead(u) =>
          \/ z \in Flights
          \/ \A s \in Shards : EndsOn(u, s) /\ current[u] = NoShard => LeftTok(u, s, z)
    BY DEF GoesOn
  <2>2. QED
    BY <1>1, <2>1, LeavesFewer DEF SocksStay, LSStays, LSKeeps, LSHolds
<1>5. TokensOK(u)'
  <2>1. ASSUME NEW z \in Flights' PROVE TokenOK(u, z)'
    <3>1. CASE z \notin Ahead(u)
      BY <3>1 DEF TokenOK, Ahead
    <3>2. CASE GoesOn(u, z)
      BY <3>2 DEF GoesOn
    <3>3. QED
      BY <3>1, <3>2
  <2>2. QED
    BY <2>1 DEF TokensOK
<1>6. Young(u)'
  BY <1>1, <1>3, YoungFewer DEF SocksStay
<1>7. QED
  BY <1>2, <1>4, <1>5, <1>6 DEF Kept

(* A session that is validated is reported to the LS, and recorded.        *)
LEMMA KeptWSLoginClient ==
  ASSUME Around, NEW f \in Fess, WSLoginClient(f), UNCHANGED <<dbVars, lsVars, fsVars, ssVars, latest>>,
         NEW v \in Users, Kept(v)
  PROVE  Kept(v)'
<1>1. PICK s \in Shards : s = ShardOf[f]
  BY PlacesOK
<1>2. PICK m : m = Head(net[<<f, s>>])
  OBVIOUS
<1>3. PICK p : p = [m EXCEPT !.fsSid = f]
  OBVIOUS
<1>4. /\ <<f, s>> \in Links /\ Pending(f, s, "M_CLIENT_CONNECT_STATUS")
      /\ UNCHANGED data
  BY <1>1, LinksAre DEF WSLoginClient
<1>5. /\ <<<<f, s>>, m>> \in Flights /\ <<<<f, s>>, m>> \in Flying
      /\ m.kind = "M_CLIENT_CONNECT_STATUS" /\ m.u \in Users /\ m \in Message
  BY <1>2, <1>4, HeadIs
<1>6. PICK u : u = m.u
  OBVIOUS
<1>7. /\ m.v = 1
      /\ wsAssoc' = [wsAssoc EXCEPT ![s][u] = IF @ = NoFes THEN f ELSE @]
      /\ UNCHANGED jobs
      /\ Receive(f, s, To(LS, p))
  <2>1. PICK fails \in BOOLEAN :
       /\ m.v = 1
       /\ Queries(fails)
       /\ ~fails => /\ wsAssoc' = [wsAssoc EXCEPT ![s][u] = IF @ = NoFes THEN f ELSE @]
                    /\ UNCHANGED jobs
                    /\ Receive(f, s, To(LS, p))
    BY <1>1, <1>2, <1>3, <1>6 DEF WSLoginClient
  <2>2. ~fails
    BY <2>1, NoFailure
  <2>3. QED
    BY <2>1, <2>2
<1>8. p \in Message /\ p.u = u /\ p.kind = m.kind /\ p.v = 1 /\ p.fsSid = f
  <2>1. /\ m = [kind |-> m.kind, u |-> m.u, ck |-> m.ck, s |-> m.s,
                f |-> m.f, fsSid |-> m.fsSid, v |-> m.v]
        /\ m.ck \in Cookie /\ m.s \in ShardOrNone /\ m.f \in FesOrNone /\ m.fsSid \in FesOrNone
        /\ m.v \in Nat
    BY <1>5, MessageIs
  <2>2. p = [kind |-> m.kind, u |-> m.u, ck |-> m.ck, s |-> m.s, f |-> m.f, fsSid |-> f, v |-> m.v]
    BY <1>3, <2>1
  <2>3. f \in FesOrNone
    BY DEF FesOrNone
  <2>4. QED
    BY <1>5, <1>6, <1>7, <2>1, <2>2, <2>3 DEF Message, Kinds, Answers
<1>9. wsAssoc \in [Shards -> [Users -> FesOrNone]]
  BY DEF Around, TypeOK, WSTypeOK
<1>10. /\ LSStays(v) /\ changeReq'[v] = changeReq[v] /\ SocksStay(v) /\ LoginStays(v)
       /\ DataStays(v) /\ JobsOf(v, {}, {})
  BY <1>4, <1>7, LSQuiet, FSQuiet, SSQuiet, JobsStill DEF fsVars, ssVars, DataStays, JobsOf
<1>11. SS \notin Shards /\ LS \notin Shards /\ LS # SS /\ SS \notin Fess /\ LS \notin Fess /\ s \notin Fess
  BY NodesDistinct
<1>12. CASE u # v
  <2>1. WSStays(v)
    BY <1>7, <1>9, <1>12 DEF WSStays
  <2>2. Still(v)
    BY <1>10, <2>1 DEF Still
  <2>3. QED
    BY <1>4, <1>7, <1>8, <1>10, <1>12, <2>2, UnmovedTo
<1>13. CASE u = v
  <2>1. PICK x : x = <<<<f, s>>, m>>
    OBVIOUS
  <2>2. PICK z : z = <<<<s, LS>>, p>>
    OBVIOUS
  <2>3. x \in Reports(v, 1) /\ x \in Ahead(v) /\ x \in Flights /\ Source(x) = s /\ Reporter(x) = f
    BY <1>5, <1>6, <1>7, <1>11, <1>13, <2>1 DEF Reports, Ahead, Source, Reporter
  <2>4. ReportOK(v, x) /\ \A t : First(v, t) => t = s
    BY <2>3, ReportHead
  <2>5. \A t, g : ~Past(v, t, g)
    <3>1. x[1] # <<s, LS>>
      BY <1>11, <2>1
    <3>2. \A t, g : Past(v, t, g) => x[1] = <<t, LS>>
      BY <2>3 DEF Past, PastTok
    <3>3. \A t : x[1] # <<t, LS>>
      BY <1>11, <2>1
    <3>4. QED
      BY <3>2, <3>3
  <2>6. z \notin Asking(v) /\ z \notin Entry(v) /\ z \notin Reports(v, 0) /\ z \notin Copies(v) /\ z \notin Kicks(v)
        /\ Source(z) = s /\ Reporter(z) = f
    BY <1>5, <1>8, <1>11, <2>2 DEF Asking, AskKinds, Entry, Reports, Copies, DataKinds, Kicks, Source, Reporter
  <2>7. /\ OneEnd(v) /\ OneCopy(v) /\ TokensOK(v) /\ Kicked(v) /\ Stored(v) /\ Leaves(v)
    BY DEF Kept
  <2>8. NetOf(v, {x}, {z}) /\ Ordered(Entry(v), Kicks(v)) => Ordered(Entry(v), Kicks(v))'
    BY <1>2, <1>4, <1>7, <1>8, <2>1, <2>2, <2>6, ReceivedTo
  <2>9. NetOf(v, {x}, {z})
    BY <1>2, <1>4, <1>7, <1>8, <2>1, <2>2, ReceivedTo
  <2>10. OneEnd(v)' /\ NoNewEnd(v)
    <3>1. \A y \in {z} : y \notin Reports(v, 0)
      BY <2>6
    <3>2. \A y \in {} : y \notin EndJobs(v)
      OBVIOUS
    <3>3. QED
      BY <1>10, <2>7, <2>9, <3>1, <3>2, EndsFewer DEF SocksStay
  <2>11. /\ OneCopy(v)'
         /\ \A y \in Flights' : y \in Copies(v) => y \in Flights
         /\ \A y \in JobFlights' : y \in CopyJobs(v) => y \in JobFlights
    <3>1. \A y \in {z} : y \notin Copies(v)
      BY <2>6
    <3>2. \A y \in {} : y \notin CopyJobs(v)
      OBVIOUS
    <3>3. QED
      BY <1>10, <2>7, <2>9, <3>1, <3>2, CopiesFewer
  <2>12. Stored(v)'
    BY <1>10, <2>7, <2>11, UserTyped, StoredFewer, NullsDistinct DEF SocksStay, LSStays, LSKeeps
  <2>13. /\ LoneIn(Ahead(v))'
         /\ \A y \in Flights' : y \in Ahead(v) => y = z
    <3>1. \E y \in {x} : y \in Ahead(v)
      BY <2>3
    <3>2. QED
      BY <2>7, <2>9, <3>1 DEF TokensOK, NetOf, Moves
  <2>14. GoesOn(v, z)
    <3>1. Calls(v) => Calls(v)'
      BY <1>10, CallsStays DEF SocksStay, LSStays, LSKeeps
    <3>2. ReportOK(v, z)'
      <4>1. ReportOK(v, z)
        BY <2>3, <2>4, <2>6 DEF ReportOK
      <4>2. QED
        BY <1>10, <3>1, <4>1 DEF ReportOK, LSStays, LSKeeps, LSHolds, SocksStay
    <3>3. z \notin Asking(v)' /\ z \notin Entry(v)'
      BY <2>6 DEF Asking, Entry
    <3>4. TokenOK(v, z)'
      BY <3>2, <3>3 DEF TokenOK
    <3>5. \A t \in Shards : EndsOn(v, t) /\ current[v] = NoShard => t = s
      BY <2>3, ReportHead
    <3>6. \A t \in Shards : EndsOn(v, t) /\ current[v] = NoShard => LeftTok(v, t, z)
      BY <2>6, <3>5 DEF LeftTok
    <3>7. \A t \in Shards : First(v, t) => FirstTok(v, t, z)
      BY <2>4, <2>6 DEF FirstTok
    <3>8. QED
      BY <2>3, <2>5, <3>4, <3>6, <3>7 DEF GoesOn
  <2>15. NoNewDanger(v)
    <3>1. \A y \in Flights' : y \in Kicks(v) => y \in Flights
      BY <2>6, <2>9 DEF NetOf, Moves
    <3>2. QED
      BY <1>10, <2>7, <3>1, DangersFewer DEF LSStays
  <2>16. \A y \in Flights' : y \notin Entry(v)
    BY <2>6, <2>13 DEF Ahead
  <2>17. KicksFirst(v)'
    BY <2>16, NoEntryFirst DEF Entry
  <2>18. ASSUME NEW t \in Shards, InDanger(v, t)'
         PROVE  (First(v, t) /\ (wsAssoc[t][v] # NoFes => Past(v, t, wsAssoc[t][v])))'
    <3>1. InDanger(v, t)
      BY <2>15, <2>18 DEF NoNewDanger
    <3>2. First(v, t) /\ t = s /\ wsAssoc[s][v] = NoFes
      BY <2>4, <2>5, <2>7, <3>1 DEF Kicked, DangerOK
    <3>3. First(v, t)'
      <4>1. \A y \in Flights' : y \in Ahead(v) => y \in Flights \/ FirstTok(v, t, y)
        BY <2>4, <2>6, <2>13, <3>2 DEF FirstTok
      <4>2. QED
        BY <1>10, <2>10, <3>2, <4>1, FirstStays DEF SocksStay
    <3>4. wsAssoc'[t][v] = f
      BY <1>6, <1>5, <1>7, <1>9, <1>13, <3>2
    <3>5. Past(v, t, f)'
      <4>1. PastHere(v, f)'
        BY <1>10, <2>3, <2>4 DEF ReportOK, PastHere, Calls, SocksStay, LSStays, LSKeeps, LSHolds, Fetches
      <4>2. PastTok(v, t, f, z)
        BY <1>8, <2>2, <2>6, <3>2 DEF PastTok
      <4>3. \A y \in Flights' : PastTok(v, t, f, y)
        BY <2>13, <4>2 DEF PastTok, Ahead
      <4>4. \A y : PastTok(v, t, f, y)' = PastTok(v, t, f, y)
        BY DEF PastTok, Asking, Reports, Entry
      <4>5. QED
        BY <4>1, <4>3, <4>4 DEF Past
    <3>6. Past(v, t, wsAssoc[t][v])'
      BY <3>4, <3>5 DEF Past, PastHere, PastTok
    <3>7. QED
      BY <3>3, <3>6
  <2>19. KicksOK(v)'
    <3>1. ASSUME NEW y \in Flights', y \in Kicks(v), y[1][2] \in Fess PROVE FALSE
      BY <2>5, <2>15, <3>1 DEF NoNewDanger
    <3>2. QED
      BY <3>1 DEF KicksOK, Kicks
  <2>20. Kicked(v)'
    BY <2>17, <2>18, <2>19 DEF Kicked, DangerOK
  <2>21. \A y \in Flights' : y \in Ahead(v) => GoesOn(v, y)
    BY <2>13, <2>14
  <2>22. QED
    BY <1>10, <2>3, <2>10, <2>11, <2>12, <2>13, <2>20, <2>21, Continues
<1>14. QED
  BY <1>12, <1>13

-----------------------------------------------------------------------------
(* Ends of sessions, and copies, on their way.                             *)

(* Nothing of u goes on but the end of a session, or a copy.               *)
LEMMA Aside ==
  ASSUME Around, NEW u \in Users, Kept(u),
         LSStays(u), WSStays(u), LoginStays(u), SocksStay(u), changeReq'[u] = changeReq[u],
         NEW X, NEW Y, NetOf(u, X, Y), \A y \in Y : y \notin Ahead(u) /\ y \notin Kicks(u),
         OneEnd(u)', NoNewEnd(u), OneCopy(u)', Stored(u)', Ordered(Entry(u), Kicks(u))'
  PROVE  Kept(u)'
<1>1. TokensOK(u) /\ Kicked(u)
  BY DEF Kept
<1>2. /\ LoneIn(Ahead(u))'
      /\ \A z \in Flights' : z \in Ahead(u) => z \in Flights
  BY <1>1 DEF TokensOK, NetOf, Moves
<1>3. \A z \in Flights' : z \in Kicks(u) => z \in Flights
  BY DEF NetOf, Moves
<1>4. NoNewDanger(u)
  BY <1>1, <1>3, DangersFewer DEF LSStays
<1>5. KicksFirst(u)'
  <2>1. \A z \in Flights' : z \in Entry(u) => z \in Flights
    BY <1>2 DEF Ahead
  <2>2. QED
    BY <1>1, <1>3, <2>1 DEF Kicked, KicksFirst
<1>6. EntriesGo(u)
  BY <1>2 DEF EntriesGo
<1>7. QED
  BY <1>2, <1>4, <1>5, <1>6, Proceeds DEF Around

(* What a welcome service leaves alone.                                    *)
LEMMA WSApart ==
  ASSUME UNCHANGED <<dbVars, lsVars, fsVars, ssVars, latest>>, NEW u
  PROVE  /\ LSStays(u) /\ changeReq'[u] = changeReq[u] /\ SocksStay(u) /\ LoginStays(u)
         /\ latest'[u] = latest[u] /\ HomeOfData(u)' = HomeOfData(u)
         /\ moving'[u] = moving[u] /\ dbOnline'[u] = dbOnline[u] /\ current'[u] = current[u]
         /\ abnormal'[u] = abnormal[u]
<1>1. LSStays(u) /\ changeReq'[u] = changeReq[u]
  BY LSQuiet
<1>2. SocksStay(u) /\ LoginStays(u)
  BY FSQuiet, SSQuiet DEF fsVars, ssVars
<1>3. QED
  BY <1>1, <1>2 DEF LSStays, LSKeeps, LSHolds

(* The end of a session that a front end has reported.                     *)
LEMMA KeptWSLogoffClient ==
  ASSUME Around, NEW f \in Fess, WSLogoffClient(f), UNCHANGED <<dbVars, lsVars, fsVars, ssVars, latest>>,
         NEW v \in Users, Kept(v)
  PROVE  Kept(v)'
<1>1. PICK s \in Shards : s = ShardOf[f]
  BY PlacesOK
<1>2. PICK m : m = Head(net[<<f, s>>])
  OBVIOUS
<1>3. PICK u : u = m.u
  OBVIOUS
<1>4. /\ <<f, s>> \in Links /\ Pending(f, s, "M_CLIENT_CONNECT_STATUS") /\ Receive(f, s, Silent)
      /\ UNCHANGED data /\ m.v = 0
      /\ wsAssoc' = [wsAssoc EXCEPT ![s][u] = NoFes]
      /\ jobs' = Queued(s, "FamilyLogout", u, NoShard)
  BY <1>1, <1>2, <1>3, LinksAre DEF WSLogoffClient, LogoffClient
<1>5. /\ <<<<f, s>>, m>> \in Flights /\ <<<<f, s>>, m>> \in Flying
      /\ m.kind = "M_CLIENT_CONNECT_STATUS" /\ m.u \in Users /\ m \in Message
  BY <1>2, <1>4, HeadIs
<1>6. PICK j : j = [job |-> "FamilyLogout", u |-> u, to |-> NoShard]
  OBVIOUS
<1>7. j \in Job /\ j.job = "FamilyLogout" /\ j.u = u
  BY <1>3, <1>5, <1>6 DEF Job, ShardOrNone
<1>8. JobsOf(v, {}, {<<s, j>>})
  <2>1. jobs \in [Shards -> Seq(Job)]
    BY DEF Around, TypeOK, WSTypeOK
  <2>2. \A K : JobsMove({}, {<<s, j>>}, K)
    BY <1>4, <1>6, <1>7, <2>1, QueuedMoves
  <2>3. QED
    BY <2>2 DEF JobsOf
<1>9. /\ LSStays(v) /\ changeReq'[v] = changeReq[v] /\ SocksStay(v) /\ LoginStays(v) /\ WSStays(v) /\ DataStays(v)
  <2>1. wsAssoc \in [Shards -> [Users -> FesOrNone]]
    BY DEF Around, TypeOK, WSTypeOK
  <2>2. WSStays(v)
    BY <1>4, <2>1 DEF WSStays
  <2>3. QED
    BY <1>4, <2>2, WSApart DEF DataStays
<1>10. SS \notin Shards /\ LS \notin Shards /\ LS # SS /\ SS \notin Fess /\ LS \notin Fess /\ s \notin Fess
  BY NodesDistinct
<1>11. PICK x : x = <<<<f, s>>, m>>
  OBVIOUS
<1>12. NetOf(v, {x}, {}) /\ Ordered(Entry(v), Kicks(v))'
  BY <1>2, <1>4, <1>11, ReceivedSilent DEF Kept, Kicked, KicksFirst
<1>13. CASE u # v
  <2>1. \A y \in {} : y[2].u # v
    OBVIOUS
  <2>2. \A y \in {<<s, j>>} : y[2].u # v
    BY <1>7, <1>13
  <2>3. QED
    BY <1>8, <1>9, <1>12, <2>1, <2>2, Untouched DEF Around
<1>14. CASE u = v
  <2>1. x \in Reports(v, 0) /\ x \in Flights /\ Source(x) = s
    BY <1>3, <1>4, <1>5, <1>10, <1>11, <1>14 DEF Reports, Source
  <2>2. OneEnd(v) /\ OneCopy(v) /\ Stored(v)
    BY DEF Kept
  <2>3. Gone(v) = {} /\ \A y \in JobFlights : y \notin EndJobs(v)
    BY <2>1, <2>2 DEF OneEnd
  <2>4. \A y \in Flights' : y \notin Reports(v, 0)
    <3>1. \E y \in {x} : y \in Reports(v, 0)
      BY <2>1
    <3>2. QED
      BY <1>12, <2>2, <3>1 DEF OneEnd, NetOf, Moves
  <2>5. Gone(v)' = {}
    BY <1>9, <2>3 DEF SocksStay
  <2>6. OneEnd(v)'
    <3>1. LoneJob(EndJobs(v))'
      BY <1>8, <2>2, <2>3 DEF OneEnd, JobsOf, JobsMove
    <3>2. LoneIn(Reports(v, 0))'
      <4>1. \A y \in {} : y \notin Reports(v, 0)
        OBVIOUS
      <4>2. QED
        BY <1>12, <2>2, <4>1 DEF OneEnd, NetOf, Moves
    <3>3. IsLone(Gone(v))'
      BY <2>5 DEF IsLone
    <3>4. Reports(v, 0)' = Reports(v, 0) /\ EndJobs(v)' = EndJobs(v)
      BY DEF Reports, EndJobs
    <3>5. QED
      BY <2>4, <2>5, <3>1, <3>2, <3>3, <3>4 DEF OneEnd
  <2>7. NoNewEnd(v)
    <3>1. ASSUME NEW t \in Shards, EndsOn(v, t)' PROVE t = s
      <4>1. PICK y \in JobFlights' : y \in EndJobs(v) /\ y[1] = t
        BY <2>4, <2>5, <3>1 DEF EndsOn, EndJobs, Reports
      <4>2. y \in {<<s, j>>}
        BY <1>8, <2>3, <4>1 DEF JobsOf, JobsMove
      <4>3. QED
        BY <4>1, <4>2
    <3>2. EndsOn(v, s)
      BY <2>1 DEF EndsOn
    <3>3. QED
      BY <3>1, <3>2 DEF NoNewEnd
  <2>8. /\ OneCopy(v)'
        /\ \A y \in Flights' : y \in Copies(v) => y \in Flights
        /\ \A y \in JobFlights' : y \in CopyJobs(v) => y \in JobFlights
    <3>1. \A y \in {} : y \notin Copies(v)
      OBVIOUS
    <3>2. \A y \in {<<s, j>>} : y \notin CopyJobs(v)
      BY <1>7 DEF CopyJobs
    <3>3. QED
      BY <1>8, <1>12, <2>2, <3>1, <3>2, CopiesFewer
  <2>9. Stored(v)'
    BY <1>9, <2>2, <2>8, UserTyped, StoredFewer, NullsDistinct DEF SocksStay, LSStays, LSKeeps
  <2>10. \A y \in {} : y \notin Ahead(v) /\ y \notin Kicks(v)
    OBVIOUS
  <2>11. QED
    BY <1>9, <1>12, <2>6, <2>7, <2>8, <2>9, <2>10, Aside
<1>15. QED
  BY <1>13, <1>14

(* A kick that is sent where no entry goes.                                *)
LEMMA KickOrdered ==
  ASSUME Around, NEW src, NEW me, <<src, me>> \in Links, NEW kind, Pending(src, me, kind),
         NEW n, NEW p \in Message, Receive(src, me, To(n, p)), NEW u, Ordered(Entry(u), Kicks(u)),
         \A z \in Flights' : z \in Entry(u) => z[1] # <<me, n>>
  PROVE  Ordered(Entry(u), Kicks(u))'
<1>1. PICK outs : outs = To(n, p)
  OBVIOUS
<1>2. outs \in Outbox
  BY <1>1, ToTyped
<1> DEFINE A == Entry(u)
           B == Kicks(u)
<1>3. \A y \in Sent(me, outs) : y \in B => \A z \in Flights' : z \in A => z[1] # y[1]
  <2>1. \A y \in Sent(me, outs) : y = <<<<me, n>>, p>>
    BY <1>1, SentOne
  <2>2. QED
    BY <2>1
<1>4. A' = A /\ B' = B
  BY DEF Entry, Kicks, Flying
<1>5. Ordered(A, B)
  OBVIOUS
<1>6. Receive(src, me, outs)
  BY <1>1
<1> HIDE DEF A, B
<1>7. QED
  BY <1>2, <1>3, <1>4, <1>5, <1>6, AroundTyped, ReceiveOrdered DEF A, B

(* The end of a login, passed on to the front end.                         *)
LEMMA KeptWSDisconnectClient ==
  ASSUME Around, NEW s \in Shards, WSDisconnectClient(s), UNCHANGED <<dbVars, lsVars, fsVars, ssVars, latest>>,
         NEW v \in Users, Kept(v)
  PROVE  Kept(v)'
<1>1. PICK m : m = Head(net[<<LS, s>>])
  OBVIOUS
<1>2. PICK u : u = m.u
  OBVIOUS
<1>3. /\ <<LS, s>> \in Links /\ Pending(LS, s, "M_CLIENT_DISCONNECT")
      /\ UNCHANGED wsVars /\ Receive(LS, s, DisconnectClient(s, u))
  BY <1>1, <1>2, LinksAre DEF WSDisconnectClient
<1>4. /\ <<<<LS, s>>, m>> \in Flights /\ <<<<LS, s>>, m>> \in Flying
      /\ m.kind = "M_CLIENT_DISCONNECT" /\ m.u \in Users /\ m \in Message
  BY <1>1, <1>3, HeadIs
<1>5. Still(v) /\ changeReq'[v] = changeReq[v]
  BY <1>3, StillWS DEF wsVars
<1>6. SS \notin Shards /\ LS \notin Shards /\ LS # SS /\ SS \notin Fess /\ LS \notin Fess /\ s \notin Fess
  BY NodesDistinct
<1>7. CASE wsAssoc[s][u] = NoFes
  <2>1. Receive(LS, s, Silent)
    BY <1>3, <1>7 DEF DisconnectClient
  <2>2. QED
    BY <1>3, <1>5, <2>1, UnmovedSilent
<1>8. CASE wsAssoc[s][u] # NoFes
  <2>1. PICK g \in Fess : g = wsAssoc[s][u] /\ ShardOf[g] = s
    <3>1. wsAssoc[s][u] \in FesOrNone
      BY <1>2, <1>4, UserTyped
    <3>2. QED
      BY <1>2, <1>4, <1>8, <3>1 DEF FesOrNone, OfItsShard, Around
  <2>2. PICK p : p = Msg("M_CLIENT_DISCONNECT", u)
    OBVIOUS
  <2>3. p \in Message /\ p.u = u /\ p.kind = "M_CLIENT_DISCONNECT"
    BY <1>2, <1>4, <2>2, MsgTyped, NullsTyped, WSNulls DEF Kinds, Answers, Msg
  <2>4. Receive(LS, s, To(g, p))
    BY <1>3, <1>8, <2>1, <2>2 DEF DisconnectClient
  <2>5. CASE u # v
    BY <1>3, <1>5, <2>3, <2>4, <2>5, UnmovedTo
  <2>6. CASE u = v
    <3>1. PICK x : x = <<<<LS, s>>, m>>
      OBVIOUS
    <3>2. PICK z : z = <<<<s, g>>, p>>
      OBVIOUS
    <3>3. x \in Kicks(v) /\ x \in Flights /\ x[1] = <<LS, s>>
      BY <1>2, <1>4, <2>6, <3>1 DEF Kicks
    <3>4. FesOf(s) # {}
      BY <2>1 DEF FesOf
    <3>5. InDanger(v, s)
      BY <3>3, <3>4 DEF InDanger
    <3>6. Kicked(v)
      BY DEF Kept
    <3>7. First(v, s) /\ Past(v, s, g)
      BY <1>8, <2>1, <2>6, <3>5, <3>6 DEF Kicked, DangerOK
    <3>8. \A e \in Flights : e \in Entry(v) => e[1] # <<s, g>>
      <4>1. ASSUME NEW e \in Flights, e \in Entry(v), e[1] = <<s, g>> PROVE FALSE
        <5>1. e[1][2] \in Fess /\ e[1][1] = s
          BY <4>1
        <5>2. x[1] # <<LS, s>>
          BY <3>3, <3>6, <4>1, <5>1 DEF Kicked, KicksFirst
        <5>3. QED
          BY <3>3, <5>2
      <4>2. QED
        BY <4>1
    <3>9. NetOf(v, {x}, {z})
      BY <1>1, <1>3, <2>3, <2>4, <3>1, <3>2, ReceivedTo
    <3>10. \A e \in Flights' : e \in Entry(v) => e[1] # <<s, g>>
      <4>1. z \notin Ahead(v)
        BY <2>3, <3>2 DEF Ahead, Asking, AskKinds, Reports, Entry
      <4>2. \A e \in Flights' : e \in Entry(v) => e \in Flights
        BY <3>9, <4>1 DEF NetOf, Moves, Ahead
      <4>3. QED
        BY <3>8, <4>2
    <3>11. Ordered(Entry(v), Kicks(v))'
      BY <1>3, <2>3, <2>4, <3>6, <3>10, KickOrdered DEF Kicked, KicksFirst
    <3>12. z[1] = <<s, g>> /\ z[2].kind = "M_CLIENT_DISCONNECT"
      BY <2>3, <3>2
    <3>13. \A t : z[1] # <<LS, t>>
      BY <1>6, <3>12
    <3>14. z[1][1] = s /\ z[1][2] = g
      BY <3>12
    <3>15. QED
      BY <1>5, <3>7, <3>9, <3>11, <3>12, <3>13, <3>14, KickPassed
  <2>7. QED
    BY <2>5, <2>6
<1>9. QED
  BY <1>7, <1>8

-----------------------------------------------------------------------------
(* The copies of the data of a user.                                       *)

(* What is stored of u while its data are copied.                          *)
LEMMA StoredMoving ==
  ASSUME NEW u, Stored(u), moving[u] # NoMove, moving'[u] = moving[u],
         dbOnline'[u] = dbOnline[u], current'[u] = current[u], abnormal'[u] = abnormal[u],
         Room(u)' = Room(u), \E t \in Shards : data'[t][u] = latest'[u],
         \A y \in JobFlights' : y \in CopyJobs(u) => data'[y[1]][u] = latest'[u],
         \A y \in Flights' : y \in Copies(u) => CopyOK(u, y)'
  PROVE  Stored(u)'
<1>1. Copies(u)' = Copies(u) /\ CopyJobs(u)' = CopyJobs(u)
  BY DEF Copies, CopyJobs
<1>2. QED
  BY <1>1 DEF Stored

(* WSMoveUserDataReq keeps Kept for every user.                            *)
LEMMA KeptWSMoveUserDataReq ==
  ASSUME Around, NEW s \in Shards, WSMoveUserDataReq(s), UNCHANGED <<dbVars, lsVars, fsVars, ssVars, latest>>,
         NEW v \in Users, Kept(v)
  PROVE  Kept(v)'
<1>1. PICK m : m = Head(net[<<LS, s>>])
  OBVIOUS
<1>2. PICK u : u = m.u
  OBVIOUS
<1>3. /\ <<LS, s>> \in Links /\ Pending(LS, s, "M_NT_MOVE_USER_DATA_REQ")
      /\ UNCHANGED <<wsAssoc, data>> /\ Receive(LS, s, Silent)
      /\ jobs' = Queued(s, "GetUserMoveData", u, m.s)
  BY <1>1, <1>2, LinksAre DEF WSMoveUserDataReq
<1>4. /\ <<<<LS, s>>, m>> \in Flights /\ <<<<LS, s>>, m>> \in Flying
      /\ m.kind = "M_NT_MOVE_USER_DATA_REQ" /\ m.u \in Users /\ m \in Message
  BY <1>1, <1>3, HeadIs
<1>5. PICK j : j = [job |-> "GetUserMoveData", u |-> u, to |-> m.s]
  OBVIOUS
<1>6. j \in Job /\ j.job = "GetUserMoveData" /\ j.u = u
  BY <1>2, <1>4, <1>5, MessageIs DEF Job
<1>7. JobsOf(v, {}, {<<s, j>>})
  <2>1. jobs \in [Shards -> Seq(Job)]
    BY DEF Around, TypeOK, WSTypeOK
  <2>2. \A K : JobsMove({}, {<<s, j>>}, K)
    BY <1>3, <1>5, <1>6, <2>1, QueuedMoves
  <2>3. QED
    BY <2>2 DEF JobsOf
<1>8. /\ LSStays(v) /\ changeReq'[v] = changeReq[v] /\ SocksStay(v) /\ LoginStays(v) /\ WSStays(v) /\ DataStays(v)
      /\ moving'[v] = moving[v] /\ dbOnline'[v] = dbOnline[v] /\ current'[v] = current[v]
      /\ abnormal'[v] = abnormal[v] /\ latest'[v] = latest[v]
  BY <1>3, WSApart DEF DataStays, WSStays
<1>9. SS \notin Shards /\ LS \notin Shards /\ LS # SS /\ SS \notin Fess /\ LS \notin Fess /\ s \notin Fess
  BY NodesDistinct
<1>10. PICK x : x = <<<<LS, s>>, m>>
  OBVIOUS
<1>11. NetOf(v, {x}, {}) /\ Ordered(Entry(v), Kicks(v))'
  BY <1>1, <1>3, <1>10, ReceivedSilent DEF Kept, Kicked, KicksFirst
<1>12. CASE u # v
  <2>1. \A y \in {} : y[2].u # v
    OBVIOUS
  <2>2. \A y \in {<<s, j>>} : y[2].u # v
    BY <1>6, <1>12
  <2>3. QED
    BY <1>7, <1>8, <1>11, <2>1, <2>2, Untouched DEF Around
<1>13. CASE u = v
  <2>1. x \in Copies(v) /\ x \in Flights
    BY <1>2, <1>4, <1>10, <1>13 DEF Copies, DataKinds
  <2>2. OneEnd(v) /\ OneCopy(v) /\ Stored(v)
    BY DEF Kept
  <2>3. OneEnd(v)' /\ NoNewEnd(v)
    <3>1. \A y \in {} : y \notin Reports(v, 0)
      OBVIOUS
    <3>2. \A y \in {<<s, j>>} : y \notin EndJobs(v)
      BY <1>6 DEF EndJobs
    <3>3. QED
      BY <1>7, <1>8, <1>11, <2>2, <3>1, <3>2, EndsFewer DEF SocksStay
  <2>4. moving[v] # NoMove
    BY <2>1, <2>2 DEF Stored
  <2>5. \A y \in JobFlights : y \notin CopyJobs(v)
    BY <2>1, <2>2 DEF OneCopy
  <2>6. \A y \in Flights' : y \notin Copies(v)
    <3>1. \E y \in {x} : y \in Copies(v)
      BY <2>1
    <3>2. QED
      BY <1>11, <2>2, <3>1 DEF OneCopy, NetOf, Moves
  <2>7. OneCopy(v)'
    <3>1. LoneJob(CopyJobs(v))'
      BY <1>7, <2>2, <2>5 DEF OneCopy, JobsOf, JobsMove
    <3>2. LoneIn(Copies(v))'
      <4>1. \A y \in {} : y \notin Copies(v)
        OBVIOUS
      <4>2. QED
        BY <1>11, <2>2, <4>1 DEF OneCopy, NetOf, Moves
    <3>3. Copies(v)' = Copies(v) /\ CopyJobs(v)' = CopyJobs(v)
      BY DEF Copies, CopyJobs
    <3>4. QED
      BY <2>6, <3>1, <3>2, <3>3 DEF OneCopy
  <2>8. data[s][v] = latest[v]
    <3>1. CopyOK(v, x)
      BY <2>1, <2>2 DEF Stored
    <3>2. x[1][2] = s /\ x[2].kind = "M_NT_MOVE_USER_DATA_REQ"
      BY <1>4, <1>10
    <3>3. QED
      BY <3>1, <3>2 DEF CopyOK
  <2>9. Stored(v)'
    <3>1. \E t \in Shards : data'[t][v] = latest'[v]
      BY <1>8, <2>8 DEF DataStays
    <3>2. ASSUME NEW y \in JobFlights', y \in CopyJobs(v) PROVE data'[y[1]][v] = latest'[v]
      <4>1. y \in {<<s, j>>}
        BY <1>7, <2>5, <3>2 DEF JobsOf, JobsMove
      <4>2. QED
        BY <1>8, <2>8, <4>1 DEF DataStays
    <3>3. Room(v)' = Room(v)
      BY <1>8 DEF SocksStay
    <3>4. \A y \in Flights' : y \in Copies(v) => CopyOK(v, y)'
      BY <2>6
    <3>5. QED
      BY <1>8, <2>2, <2>4, <3>1, <3>2, <3>3, <3>4, StoredMoving
  <2>10. \A y \in {} : y \notin Ahead(v) /\ y \notin Kicks(v)
    OBVIOUS
  <2>11. QED
    BY <1>8, <1>11, <2>3, <2>7, <2>9, <2>10, Aside
<1>14. QED
  BY <1>12, <1>13

(* The data have come to s.                                                *)
LEMMA KeptWSSendUserData ==
  ASSUME Around, NEW s \in Shards, NEW from \in Shards \ {s}, WSSendUserData(from, s),
         UNCHANGED <<dbVars, lsVars, fsVars, ssVars, latest>>,
         NEW v \in Users, Kept(v)
  PROVE  Kept(v)'
<1>1. PICK m : m = Head(net[<<from, s>>])
  OBVIOUS
<1>2. PICK u : u = m.u
  OBVIOUS
<1>3. PICK p : p = Msg("M_NT_MOVE_USER_DATA_END", u)
  OBVIOUS
<1>4. /\ <<from, s>> \in Links /\ Pending(from, s, "M_NT_SEND_USER_DATA")
      /\ UNCHANGED <<wsAssoc, jobs>> /\ Receive(from, s, To(LS, p))
      /\ data' = [data EXCEPT ![s][u] = m.v]
  BY <1>1, <1>2, <1>3, LinksAre DEF WSSendUserData
<1>5. /\ <<<<from, s>>, m>> \in Flights /\ <<<<from, s>>, m>> \in Flying
      /\ m.kind = "M_NT_SEND_USER_DATA" /\ m.u \in Users /\ m \in Message
  BY <1>1, <1>4, HeadIs
<1>6. p \in Message /\ p.u = u /\ p.kind = "M_NT_MOVE_USER_DATA_END"
  BY <1>2, <1>3, <1>5, MsgTyped, NullsTyped, WSNulls DEF Kinds, Answers, Msg
<1>7. /\ LSStays(v) /\ changeReq'[v] = changeReq[v] /\ SocksStay(v) /\ LoginStays(v) /\ WSStays(v)
      /\ moving'[v] = moving[v] /\ dbOnline'[v] = dbOnline[v] /\ current'[v] = current[v]
      /\ abnormal'[v] = abnormal[v] /\ latest'[v] = latest[v] /\ JobsOf(v, {}, {})
  BY <1>4, WSApart, JobsStill DEF WSStays, JobsOf
<1>8. SS \notin Shards /\ LS \notin Shards /\ LS # SS /\ SS \notin Fess /\ LS \notin Fess /\ s \notin Fess
  BY NodesDistinct
<1>9. data \in [Shards -> [Users -> Nat]]
  BY DEF Around, TypeOK, WSTypeOK
<1>10. PICK x : x = <<<<from, s>>, m>>
  OBVIOUS
<1>11. PICK z : z = <<<<s, LS>>, p>>
  OBVIOUS
<1>12. CASE u # v
  <2>1. DataStays(v)
    BY <1>4, <1>7, <1>9, <1>12 DEF DataStays
  <2>2. Still(v)
    BY <1>7, <2>1 DEF Still
  <2>3. QED
    BY <1>4, <1>6, <1>7, <1>12, <2>2, UnmovedTo
<1>13. CASE u = v
  <2>1. x \in Copies(v) /\ x \in Flights
    BY <1>2, <1>5, <1>10, <1>13 DEF Copies, DataKinds
  <2>2. z \notin Ahead(v) /\ z \notin Kicks(v) /\ z \notin Reports(v, 0)
    BY <1>6, <1>11 DEF Ahead, Asking, AskKinds, Reports, Entry, Kicks
  <2>3. NetOf(v, {x}, {z})
    BY <1>1, <1>4, <1>6, <1>10, <1>11, ReceivedTo
  <2>4. Ordered(Entry(v), Kicks(v)) => Ordered(Entry(v), Kicks(v))'
    BY <1>1, <1>4, <1>6, <1>11, <2>2, ReceivedTo
  <2>5. OneEnd(v) /\ OneCopy(v) /\ Stored(v) /\ Ordered(Entry(v), Kicks(v))'
    BY <2>4 DEF Kept, Kicked, KicksFirst
  <2>6. OneEnd(v)' /\ NoNewEnd(v)
    <3>1. \A y \in {z} : y \notin Reports(v, 0)
      BY <2>2
    <3>2. \A y \in {} : y \notin EndJobs(v)
      OBVIOUS
    <3>3. QED
      BY <1>7, <2>3, <2>5, <3>1, <3>2, EndsFewer DEF SocksStay
  <2>7. moving[v] # NoMove
    BY <2>1, <2>5 DEF Stored
  <2>8. \A y \in JobFlights : y \notin CopyJobs(v)
    BY <2>1, <2>5 DEF OneCopy
  <2>9. \A y \in JobFlights' : y \notin CopyJobs(v)
    BY <1>7, <2>8 DEF JobsOf, JobsMove
  <2>10. \A y \in Flights' : y \in Copies(v) => y = z
    <3>1. \E y \in {x} : y \in Copies(v)
      BY <2>1
    <3>2. QED
      BY <2>3, <2>5, <3>1 DEF OneCopy, NetOf, Moves
  <2>11. OneCopy(v)'
    <3>1. LoneJob(CopyJobs(v))'
      <4>1. \A y \in {} : y \notin CopyJobs(v)
        OBVIOUS
      <4>2. QED
        BY <1>7, <2>5, <4>1 DEF OneCopy, JobsOf, JobsMove
    <3>2. LoneIn(Copies(v))'
      <4>1. \E y \in {x} : y \in Copies(v)
        BY <2>1
      <4>2. QED
        BY <2>3, <2>5, <4>1 DEF OneCopy, NetOf, Moves
    <3>3. Copies(v)' = Copies(v) /\ CopyJobs(v)' = CopyJobs(v)
      BY DEF Copies, CopyJobs
    <3>4. QED
      BY <2>9, <3>1, <3>2, <3>3 DEF OneCopy
  <2>12. data'[s][v] = latest'[v]
    <3>1. CopyOK(v, x)
      BY <2>1, <2>5 DEF Stored
    <3>2. m.v = latest[v]
      BY <1>5, <1>10, <3>1 DEF CopyOK
    <3>3. QED
      BY <1>4, <1>7, <1>9, <1>13, <3>2
  <2>13. Stored(v)'
    <3>1. \E t \in Shards : data'[t][v] = latest'[v]
      BY <2>12
    <3>2. \A y \in JobFlights' : y \in CopyJobs(v) => data'[y[1]][v] = latest'[v]
      BY <2>9
    <3>3. Room(v)' = Room(v)
      BY <1>7 DEF SocksStay
    <3>4. z[1][1] = s /\ z[2].kind = "M_NT_MOVE_USER_DATA_END"
      BY <1>6, <1>11
    <3>5. CopyOK(v, z)'
      BY <2>12, <3>4 DEF CopyOK
    <3>6. \A y \in Flights' : y \in Copies(v) => CopyOK(v, y)'
      BY <2>10, <3>5 DEF CopyOK
    <3>7. QED
      BY <1>7, <2>5, <2>7, <3>1, <3>2, <3>3, <3>6, StoredMoving
  <2>14. \A y \in {z} : y \notin Ahead(v) /\ y \notin Kicks(v)
    BY <2>2
  <2>15. QED
    BY <1>7, <2>3, <2>5, <2>6, <2>11, <2>13, <2>14, Aside
<1>14. QED
  BY <1>12, <1>13

-----------------------------------------------------------------------------
(* The queries of a shard that end.                                        *)

(* A family is logged out, and the LS is told.                             *)
LEMMA LogoffReported ==
  ASSUME Around, NEW s \in Shards, NEW v \in Users, Kept(v),
         LSStays(v), WSStays(v), DataStays(v), SocksStay(v), LoginStays(v), changeReq'[v] = changeReq[v],
         NEW j \in Job, <<s, j>> \in JobFlights, j.job = "FamilyLogout", JobsOf(v, {<<s, j>>}, {}),
         Emit(s, To(LS, Msg("M_CLIENT_CONNECT_STATUS", j.u)))
  PROVE  Kept(v)'
<1>1. PICK u \in Users : u = j.u
  BY DEF Job
<1>2. PICK p : p = Msg("M_CLIENT_CONNECT_STATUS", u)
  OBVIOUS
<1>3. p \in Message /\ p.u = u /\ p.kind = "M_CLIENT_CONNECT_STATUS" /\ p.v = 0
  BY <1>2, MsgTyped, NullsTyped, WSNulls DEF Kinds, Answers, Msg
<1>4. SS \notin Shards /\ LS \notin Shards /\ LS # SS /\ SS \notin Fess /\ LS \notin Fess /\ s \notin Fess
  BY NodesDistinct
<1>5. PICK z : z = <<<<s, LS>>, p>>
  OBVIOUS
<1>6. z \notin Ahead(v) /\ z \notin Kicks(v) /\ z \notin Copies(v)
  BY <1>3, <1>5 DEF Ahead, Asking, AskKinds, Reports, Entry, Kicks, Copies, DataKinds
<1>7. NetOf(v, {}, {z}) /\ Ordered(Entry(v), Kicks(v))'
  BY <1>1, <1>2, <1>3, <1>5, <1>6, EmittedTo DEF Kept, Kicked, KicksFirst
<1>8. CASE u # v
  <2>1. \A y \in {z} : y[2].u # v
    BY <1>3, <1>5, <1>8
  <2>2. \A y \in {} : y[2].u # v
    OBVIOUS
  <2>3. QED
    BY <1>7, <2>1, <2>2, Untouched DEF Around
<1>9. CASE u = v
  <2>1. PICK x : x = <<s, j>>
    OBVIOUS
  <2>2. x \in EndJobs(v) /\ x \in JobFlights /\ x[1] = s
    BY <1>1, <1>9, <2>1 DEF EndJobs
  <2>3. OneEnd(v) /\ OneCopy(v) /\ Stored(v)
    BY DEF Kept
  <2>4. Gone(v) = {} /\ \A y \in Flights : y \notin Reports(v, 0)
    BY <2>2, <2>3 DEF OneEnd
  <2>5. \A y \in JobFlights' : y \notin EndJobs(v)
    <3>1. \E y \in {<<s, j>>} : y \in EndJobs(v)
      BY <2>1, <2>2
    <3>2. QED
      BY <2>3, <3>1 DEF OneEnd, JobsOf, JobsMove
  <2>6. \A y \in Flights' : y \in Reports(v, 0) => y = z
    BY <1>7, <2>4 DEF NetOf, Moves
  <2>7. Gone(v)' = {}
    BY <2>4 DEF SocksStay
  <2>8. OneEnd(v)'
    <3>1. LoneJob(EndJobs(v))'
      <4>1. \A y \in {} : y \notin EndJobs(v)
        OBVIOUS
      <4>2. QED
        BY <2>3, <4>1 DEF OneEnd, JobsOf, JobsMove
    <3>2. LoneIn(Reports(v, 0))'
      BY <1>7, <2>3, <2>4 DEF OneEnd, NetOf, Moves
    <3>3. IsLone(Gone(v))'
      BY <2>7 DEF IsLone
    <3>4. Reports(v, 0)' = Reports(v, 0) /\ EndJobs(v)' = EndJobs(v)
      BY DEF Reports, EndJobs
    <3>5. QED
      BY <2>5, <2>7, <3>1, <3>2, <3>3, <3>4 DEF OneEnd
  <2>9. NoNewEnd(v)
    <3>1. ASSUME NEW t \in Shards, EndsOn(v, t)' PROVE t = s
      <4>1. PICK y \in Flights' : y \in Reports(v, 0) /\ Source(y) = t
        BY <2>5, <2>7, <3>1 DEF EndsOn, EndJobs, Reports
      <4>2. y = z
        BY <2>6, <4>1
      <4>3. QED
        BY <1>4, <1>5, <4>1, <4>2 DEF Source
    <3>2. EndsOn(v, s)
      BY <2>2 DEF EndsOn
    <3>3. QED
      BY <3>1, <3>2 DEF NoNewEnd
  <2>10. /\ OneCopy(v)'
         /\ \A y \in Flights' : y \in Copies(v) => y \in Flights
         /\ \A y \in JobFlights' : y \in CopyJobs(v) => y \in JobFlights
    <3>1. \A y \in {z} : y \notin Copies(v)
      BY <1>6
    <3>2. \A y \in {} : y \notin CopyJobs(v)
      OBVIOUS
    <3>3. QED
      BY <1>7, <2>3, <3>1, <3>2, CopiesFewer
  <2>11. Stored(v)'
    BY <2>3, <2>10, UserTyped, StoredFewer, NullsDistinct DEF SocksStay, LSStays, LSKeeps
  <2>12. \A y \in {z} : y \notin Ahead(v) /\ y \notin Kicks(v)
    BY <1>6
  <2>13. QED
    BY <1>7, <2>8, <2>9, <2>10, <2>11, <2>12, Aside
<1>10. QED
  BY <1>8, <1>9

(* The data to copy have been read, and are sent.                          *)
LEMMA CopySent ==
  ASSUME Around, NEW s \in Shards, NEW v \in Users, Kept(v),
         LSStays(v), WSStays(v), DataStays(v), SocksStay(v), LoginStays(v), changeReq'[v] = changeReq[v],
         moving'[v] = moving[v], abnormal'[v] = abnormal[v],
         dbOnline'[v] = dbOnline[v], current'[v] = current[v],
         NEW j \in Job, <<s, j>> \in JobFlights, j.job = "GetUserMoveData", JobsOf(v, {<<s, j>>}, {}),
         Emit(s, To(j.to, [Msg("M_NT_SEND_USER_DATA", j.u) EXCEPT !.v = data[s][j.u]]))
  PROVE  Kept(v)'
<1>1. PICK u \in Users : u = j.u
  BY DEF Job
<1>2. PICK p : p = [Msg("M_NT_SEND_USER_DATA", u) EXCEPT !.v = data[s][u]]
  OBVIOUS
<1>3. p \in Message /\ p.u = u /\ p.kind = "M_NT_SEND_USER_DATA" /\ p.v = data[s][u]
  <2>1. data[s][u] \in Nat
    BY UserTyped
  <2>2. p \in Message
    BY <1>2, <2>1, MsgTyped, NullsTyped, WSNulls DEF Kinds, Answers
  <2>3. QED
    BY <1>2, <2>2 DEF Msg
<1>4. PICK z : z = <<<<s, j.to>>, p>>
  OBVIOUS
<1>5. z \notin Ahead(v) /\ z \notin Kicks(v) /\ z \notin Reports(v, 0)
  BY <1>3, <1>4 DEF Ahead, Asking, AskKinds, Reports, Entry, Kicks
<1>6. NetOf(v, {}, {z}) /\ Ordered(Entry(v), Kicks(v))'
  BY <1>1, <1>2, <1>3, <1>4, <1>5, EmittedTo DEF Kept, Kicked, KicksFirst
<1>7. CASE u # v
  <2>1. \A y \in {z} : y[2].u # v
    BY <1>3, <1>4, <1>7
  <2>2. \A y \in {} : y[2].u # v
    OBVIOUS
  <2>3. QED
    BY <1>6, <2>1, <2>2, Untouched DEF Around
<1>8. CASE u = v
  <2>1. PICK x : x = <<s, j>>
    OBVIOUS
  <2>2. x \in CopyJobs(v) /\ x \in JobFlights /\ x[1] = s
    BY <1>1, <1>8, <2>1 DEF CopyJobs
  <2>3. OneEnd(v) /\ OneCopy(v) /\ Stored(v)
    BY DEF Kept
  <2>4. OneEnd(v)' /\ NoNewEnd(v)
    <3>1. \A y \in {z} : y \notin Reports(v, 0)
      BY <1>5
    <3>2. \A y \in {} : y \notin EndJobs(v)
      OBVIOUS
    <3>3. QED
      BY <1>6, <2>3, <3>1, <3>2, EndsFewer DEF SocksStay
  <2>5. moving[v] # NoMove
    BY <2>2, <2>3 DEF Stored
  <2>6. \A y \in Flights : y \notin Copies(v)
    BY <2>2, <2>3 DEF OneCopy
  <2>7. \A y \in JobFlights' : y \notin CopyJobs(v)
    <3>1. \E y \in {<<s, j>>} : y \in CopyJobs(v)
      BY <2>1, <2>2
    <3>2. QED
      BY <2>3, <3>1 DEF OneCopy, JobsOf, JobsMove
  <2>8. \A y \in Flights' : y \in Copies(v) => y = z
    BY <1>6, <2>6 DEF NetOf, Moves
  <2>9. OneCopy(v)'
    <3>1. LoneJob(CopyJobs(v))'
      <4>1. \A y \in {} : y \notin CopyJobs(v)
        OBVIOUS
      <4>2. QED
        BY <2>3, <4>1 DEF OneCopy, JobsOf, JobsMove
    <3>2. LoneIn(Copies(v))'
      BY <1>6, <2>3, <2>6 DEF OneCopy, NetOf, Moves
    <3>3. Copies(v)' = Copies(v) /\ CopyJobs(v)' = CopyJobs(v)
      BY DEF Copies, CopyJobs
    <3>4. QED
      BY <2>7, <3>1, <3>2, <3>3 DEF OneCopy
  <2>10. data[s][v] = latest[v]
    BY <2>2, <2>3 DEF Stored
  <2>11. Stored(v)'
    <3>1. \E t \in Shards : data'[t][v] = latest'[v]
      BY <2>10 DEF DataStays
    <3>2. \A y \in JobFlights' : y \in CopyJobs(v) => data'[y[1]][v] = latest'[v]
      BY <2>7
    <3>3. Room(v)' = Room(v)
      BY DEF SocksStay
    <3>4. z[2].kind = "M_NT_SEND_USER_DATA" /\ z[2].v = latest'[v]
      BY <1>3, <1>4, <1>8, <2>10 DEF DataStays
    <3>5. CopyOK(v, z)'
      BY <3>4 DEF CopyOK
    <3>6. \A y \in Flights' : y \in Copies(v) => CopyOK(v, y)'
      BY <2>8, <3>5 DEF CopyOK
    <3>7. QED
      BY <2>3, <2>5, <3>1, <3>2, <3>3, <3>6, StoredMoving
  <2>12. \A y \in {z} : y \notin Ahead(v) /\ y \notin Kicks(v)
    BY <1>5
  <2>13. QED
    BY <1>6, <2>3, <2>4, <2>9, <2>11, <2>12, Aside
<1>9. QED
  BY <1>7, <1>8

(* Both: no query fails.                                                   *)
LEMMA KeptWSQueryDone ==
  ASSUME Around, NEW s \in Shards, WSQueryDone(s), UNCHANGED <<dbVars, lsVars, fsVars, ssVars, latest>>,
         NEW v \in Users, Kept(v)
  PROVE  Kept(v)'
<1>1. jobs \in [Shards -> Seq(Job)]
  BY DEF Around, TypeOK, WSTypeOK
<1>2. PICK i \in DOMAIN jobs[s], fails \in BOOLEAN :
        /\ Queries(fails)
        /\ jobs' = [jobs EXCEPT ![s] = SubSeq(@, 1, i - 1) \o SubSeq(@, i + 1, Len(@))]
        /\ Emit(s, IF fails THEN Silent ELSE JobOutbox(s, jobs[s][i]))
  BY DEF WSQueryDone
<1>3. PICK j : j = jobs[s][i]
  OBVIOUS
<1>4. Emit(s, JobOutbox(s, j))
  BY <1>2, <1>3, NoFailure
<1>5. j \in Job
  BY <1>1, <1>3, LenProperties, ElementOfSeq
<1>6. <<s, j>> \in JobFlights
  BY <1>3, JobFlies
<1>7. JobsOf(v, {<<s, j>>}, {})
  <2>1. \A K : JobsMove({<<s, j>>}, {}, K)
    BY <1>1, <1>2, <1>3, TakenMoves
  <2>2. QED
    BY <2>1 DEF JobsOf
<1>8. /\ LSStays(v) /\ changeReq'[v] = changeReq[v] /\ SocksStay(v) /\ LoginStays(v) /\ WSStays(v) /\ DataStays(v)
      /\ moving'[v] = moving[v] /\ dbOnline'[v] = dbOnline[v] /\ current'[v] = current[v]
      /\ abnormal'[v] = abnormal[v]
  <2>1. UNCHANGED <<wsAssoc, data>>
    BY DEF WSQueryDone
  <2>2. QED
    BY <2>1, WSApart DEF WSStays, DataStays
<1>9. j.job # "ForcedLogout"
  <2>1. PICK y : y = <<s, j>>
    OBVIOUS
  <2>2. y[2].job # "ForcedLogout"
    BY <1>6, <2>1 DEF Around, NoForce
  <2>3. QED
    BY <2>1, <2>2
<1>10. CASE j.job = "FamilyLogout"
  <2>1. Emit(s, To(LS, Msg("M_CLIENT_CONNECT_STATUS", j.u)))
    BY <1>4, <1>10 DEF JobOutbox
  <2>2. QED
    BY <1>5, <1>6, <1>7, <1>8, <1>10, <2>1, LogoffReported
<1>11. CASE j.job = "GetUserMoveData"
  <2>1. Emit(s, To(j.to, [Msg("M_NT_SEND_USER_DATA", j.u) EXCEPT !.v = data[s][j.u]]))
    BY <1>4, <1>11 DEF JobOutbox
  <2>2. QED
    BY <1>5, <1>6, <1>7, <1>8, <1>11, <2>1, CopySent
<1>12. QED
  BY <1>5, <1>9, <1>10, <1>11 DEF Job

-----------------------------------------------------------------------------
(* The front ends.                                                         *)

(* What the handlers of a front end leave alone.                           *)
LEMMA FSApart ==
  ASSUME UNCHANGED <<dbVars, lsVars, wsVars, ssVars, latest>>, NEW u
  PROVE  /\ LSStays(u) /\ WSStays(u) /\ LoginStays(u) /\ DataStays(u) /\ JobsOf(u, {}, {})
         /\ changeReq'[u] = changeReq[u] /\ current'[u] = current[u] /\ moving'[u] = moving[u]
         /\ infoCur'[u] = infoCur[u] /\ waiting'[u] = waiting[u] /\ tempCookie'[u] = tempCookie[u]
         /\ dbOnline'[u] = dbOnline[u] /\ abnormal'[u] = abnormal[u]
         /\ \A n \in Logins : sock'[u][n] = sock[u][n]
         /\ \A s \in Shards : wsAssoc'[s][u] = wsAssoc[s][u]
<1>1. LSStays(u) /\ changeReq'[u] = changeReq[u]
  BY LSQuiet
<1>2. WSStays(u) /\ DataStays(u) /\ JobsOf(u, {}, {})
  BY WSQuiet
<1>3. LoginStays(u)
  BY SSQuiet DEF ssVars
<1>4. QED
  BY <1>1, <1>2, <1>3 DEF lsVars, dbVars, ssVars, wsVars

(* The socket of a user on a front end, if it has one there, is validated. *)
LEMMA AssocIs ==
  ASSUME Around, NEW f \in Fess, NEW u \in Users, assoc[f][u] # 0
  PROVE  /\ assoc[f][u] \in Conns /\ <<f, assoc[f][u]>> \in Places
         /\ conn[f][assoc[f][u]].used /\ conn[f][assoc[f][u]].app /\ conn[f][assoc[f][u]].u = u
<1>1. Sockets(f)
  BY DEF Around
<1>2. QED
  BY <1>1 DEF Sockets, Names, Places

(* To close a socket that is closed changes nothing.                       *)
LEMMA ClosedStill ==
  ASSUME Around, NEW f \in Fess, NEW k, k \in Conns => ~conn[f][k].open
  PROVE  Closed(f, {k}) = conn[f] /\ [conn EXCEPT ![f] = Closed(f, {k})] = conn
<1>1. conn \in [Fess -> [Conns -> Conn]]
  BY DEF Around, TypeOK, FSTypeOK
<1>2. ASSUME NEW j \in Conns PROVE Closed(f, {k})[j] = conn[f][j]
  <2>1. CASE j = k
    <3>1. conn[f][j] \in Conn /\ conn[f][j].open = FALSE
      BY <1>1, <2>1 DEF Conn
    <3>2. [conn[f][j] EXCEPT !.open = FALSE] = conn[f][j]
      BY <3>1 DEF Conn
    <3>3. QED
      BY <2>1, <3>2 DEF Closed
  <2>2. CASE j # k
    BY <2>2 DEF Closed
  <2>3. QED
    BY <2>1, <2>2
<1>3. Closed(f, {k}) = conn[f]
  <2>1. Closed(f, {k}) = [j \in Conns |-> conn[f][j]]
    BY <1>2 DEF Closed
  <2>2. conn[f] = [j \in Conns |-> conn[f][j]]
    BY <1>1
  <2>3. QED
    BY <2>1, <2>2
<1>4. QED
  BY <1>1, <1>3

(* Who has no socket open on f has nothing to close there.                 *)
LEMMA NothingToClose ==
  ASSUME Around, NEW f \in Fess, NEW u \in Users,
         \A c \in Places : Sock(c).u = u /\ Sock(c).open /\ Sock(c).app => c[1] # f
  PROVE  assoc[f][u] \in Conns => ~conn[f][assoc[f][u]].open
<1>1. PICK k : k = assoc[f][u]
  OBVIOUS
<1>2. ASSUME k \in Conns, conn[f][k].open PROVE FALSE
  <2>1. k # 0
    BY <1>2 DEF Conns
  <2>2. <<f, k>> \in Places /\ conn[f][k].app /\ conn[f][k].u = u
    BY <1>1, <2>1, AssocIs
  <2>3. Sock(<<f, k>>) = conn[f][k]
    BY DEF Sock
  <2>4. QED
    BY <1>2, <2>2, <2>3
<1>3. QED
  BY <1>1, <1>2

(* FSChooseShard keeps Kept for every user.                                *)
LEMMA KeptFSChooseShard ==
  ASSUME Around, NEW f \in Fess, FSChooseShard(f), UNCHANGED <<dbVars, lsVars, wsVars, ssVars, latest>>,
         NEW v \in Users, \A a \in Users : Kept(a)
  PROVE  Kept(v)'
<1>1. PICK s \in Shards : s = ShardOf[f]
  BY PlacesOK
<1>2. PICK m : m = Head(net[<<s, f>>])
  OBVIOUS
<1>3. PICK u : u = m.u
  OBVIOUS
<1>4. PICK p : p = [m EXCEPT !.kind = "M_ENTER_SHARD_ANSWER", !.f = f, !.v = 0]
  OBVIOUS
<1>5. /\ <<s, f>> \in Links /\ Pending(s, f, "M_ENTER_SHARD_REQUEST") /\ Receive(s, f, To(s, p))
      /\ conn' = [conn EXCEPT ![f] = Closed(f, {assoc[f][u]})] /\ UNCHANGED offers
  BY <1>1, <1>2, <1>3, <1>4, LinksAre DEF FSChooseShard, DisconnectAccount
<1>6. /\ <<<<s, f>>, m>> \in Flights /\ <<<<s, f>>, m>> \in Flying
      /\ m.kind = "M_ENTER_SHARD_REQUEST" /\ m.u \in Users /\ m \in Message
  BY <1>2, <1>5, HeadIs
<1>7. SS \notin Shards /\ LS \notin Shards /\ LS # SS /\ SS \notin Fess /\ LS \notin Fess /\ s \notin Fess /\ f \notin Shards
  BY NodesDistinct
<1>8. PICK x : x = <<<<s, f>>, m>>
  OBVIOUS
<1>9. x \in Asking(u) /\ x \in Flights
  BY <1>3, <1>6, <1>8 DEF Asking, AskKinds
<1>10. u \in Users /\ Kept(u)
  BY <1>3, <1>6
<1>11. AskOK(u, x) /\ \A t \in Shards : First(u, t) => FirstTok(u, t, x)
  BY <1>9, <1>10, AskHead
<1>12. current[u] # s /\ Cand(u) = {} /\ Calls(u) /\ Content(u) = {}
       /\ (tempCookie[u] # NoShard => Blank(u))
  BY <1>6, <1>7, <1>8, <1>11 DEF AskOK
<1>13. conn' = conn
  <2>1. ASSUME NEW c \in Places, Sock(c).u = u, Sock(c).open, c[1] = f PROVE FALSE
    <3>1. Sock(c).entered
      BY <1>12, <2>1 DEF Cand
    <3>2. c \in Room(u)
      BY <2>1, <3>1 DEF Room
    <3>3. current[u] = ShardOf[f]
      BY <1>10, <2>1, <3>2 DEF Kept, Inside
    <3>4. QED
      BY <1>1, <1>12, <3>3
  <2>2. assoc[f][u] \in Conns => ~conn[f][assoc[f][u]].open
    BY <1>10, <2>1, NothingToClose
  <2>3. QED
    BY <1>5, <2>2, ClosedStill
<1>14. Still(v) /\ changeReq'[v] = changeReq[v]
  BY <1>5, <1>13, FSQuiet, StillFS
<1>15. p \in Message /\ p.u = m.u /\ p.kind = "M_ENTER_SHARD_ANSWER" /\ p.f = f /\ p.v = 0
  BY <1>4, <1>6, MessageIs, NullsDistinct DEF Message, Kinds, FesOrNone, Answers
<1>16. PICK z : z = <<<<f, s>>, p>>
  OBVIOUS
<1>17. /\ z[1] = <<f, s>> /\ z[1][1] = f /\ z[1][2] = s /\ z[2].kind = "M_ENTER_SHARD_ANSWER"
       /\ z[2].v = 0 /\ z[2].f = f /\ z[2].u = u
  BY <1>3, <1>15, <1>16
<1>18. m.u = v => /\ AskOK(v, z)
                  /\ \A t \in Shards : FesOf(t) # {} /\ First(v, t) => FirstTok(v, t, z)
  <2>1. ASSUME u = v PROVE AskOK(v, z)
    <3>1. z[1] # <<SS, LS>> /\ z[1] # <<LS, SS>>
      BY <1>7, <1>17
    <3>2. QED
      BY <1>1, <1>7, <1>12, <1>17, <2>1, <3>1 DEF AskOK
  <2>2. ASSUME u = v, NEW t \in Shards, First(v, t) PROVE FirstTok(v, t, z)
    <3>1. t = s
      <4>1. FirstTok(v, t, x)
        BY <1>11, <2>2
      <4>2. x[1] # <<LS, t>> /\ x[1][1] = s /\ x[2].kind = "M_ENTER_SHARD_REQUEST"
        BY <1>6, <1>7, <1>8
      <4>3. QED
        BY <1>9, <2>2, <4>1, <4>2 DEF FirstTok
    <3>2. z \notin Reports(v, 1) /\ z \notin Entry(v)
      BY <1>17 DEF Reports, Entry
    <3>3. QED
      BY <1>1, <1>7, <1>17, <3>1, <3>2 DEF FirstTok
  <2>3. QED
    BY <1>3, <2>1, <2>2
<1>19. "M_ENTER_SHARD_REQUEST" \in AskKinds /\ p.kind \in AskKinds
  BY <1>15 DEF AskKinds
<1>20. QED
  BY <1>2, <1>5, <1>14, <1>15, <1>16, <1>18, <1>19, RelayedAsk

(* A cookie that has waited too long.                                      *)
LEMMA KeptFSRefreshPending ==
  ASSUME Around, NEW f \in Fess, FSRefreshPending(f), UNCHANGED <<dbVars, lsVars, wsVars, ssVars, latest>>,
         NEW v \in Users, Kept(v)
  PROVE  Kept(v)'
<1>1. PICK p \in pending[f] : Emit(f, To(ShardOf[f], [Msg("M_LOGIN_SERVER_RPC", p.u) EXCEPT !.ck = p.ck]))
  BY DEF FSRefreshPending
<1>2. p.u \in Users /\ p.ck \in Cookie
  BY DEF Around, TypeOK, FSTypeOK
<1>3. PICK q : q = [Msg("M_LOGIN_SERVER_RPC", p.u) EXCEPT !.ck = p.ck]
  OBVIOUS
<1>4. q \in Message /\ q.kind = "M_LOGIN_SERVER_RPC"
  <2>1. q \in Message
    BY <1>2, <1>3, MsgTyped, NullsTyped, WSNulls DEF Kinds, Answers
  <2>2. QED
    BY <1>3, <2>1 DEF Msg
<1>5. PICK z : z = <<<<f, ShardOf[f]>>, q>>
  OBVIOUS
<1>6. NetOf(v, {}, {z}) /\ (Ordered(Entry(v), Kicks(v)) /\ z \notin Kicks(v) => Ordered(Entry(v), Kicks(v))')
  BY <1>1, <1>3, <1>4, <1>5, EmittedTo
<1>7. ~Concerns(v, z)
  BY <1>4, <1>5, ApartConcerns DEF Apart, AskKinds, DataKinds
<1>8. UNCHANGED <<conn, offers>>
  BY DEF FSRefreshPending
<1>9. Still(v) /\ changeReq'[v] = changeReq[v]
  BY <1>8, FSQuiet, StillFS
<1>10. \A y \in {z} : ~Concerns(v, y)
  BY <1>7
<1>11. z \notin Kicks(v)
  BY <1>7 DEF Concerns
<1>12. QED
  BY <1>6, <1>9, <1>10, <1>11, Unconcerned

-----------------------------------------------------------------------------
(* One socket changes.                                                     *)
OthersStay(d) == \A c \in Places : c # d => Sock(c)' = Sock(c)
(* The socket of a user that may play, or is to, is closed.                *)
HangsUp(u, d) ==
  /\ d \in Places /\ Sock(d).u = u /\ Sock(d).open /\ Sock(d).app
  /\ Sock(d)' = [Sock(d) EXCEPT !.open = FALSE]
  /\ OthersStay(d) /\ offers'[u] = offers[u]

(* A socket is a record, and one that is open is used.                     *)
LEMMA PlaceTyped ==
  ASSUME Around, NEW c \in Places
  PROVE  /\ Sock(c) \in Conn /\ c[1] \in Fess /\ c[2] \in Conns /\ c = <<c[1], c[2]>>
         /\ Sock(c).open => Sock(c).used
<1>1. conn \in [Fess -> [Conns -> Conn]]
  BY DEF Around, TypeOK, FSTypeOK
<1>2. c[1] \in Fess /\ c[2] \in Conns /\ c = <<c[1], c[2]>>
  BY DEF Places
<1>3. Sockets(c[1])
  BY <1>2 DEF Around
<1>4. QED
  BY <1>1, <1>2, <1>3 DEF Sock, Sockets, InOrder

(* A change of one socket of one front end.                                *)
LEMMA OneSocket ==
  ASSUME NEW d \in Places,
         \A g \in Fess, j \in Conns : g # d[1] \/ j # d[2] => conn'[g][j] = conn[g][j]
  PROVE  OthersStay(d)
<1>1. ASSUME NEW c \in Places, c # d PROVE conn'[c[1]][c[2]] = conn[c[1]][c[2]]
  <2>1. /\ c[1] \in Fess /\ c[2] \in Conns /\ c = <<c[1], c[2]>>
        /\ d = <<d[1], d[2]>>
    BY DEF Places
  <2>2. c[1] # d[1] \/ c[2] # d[2]
    BY <1>1, <2>1
  <2>3. QED
    BY <2>1, <2>2
<1>2. QED
  BY <1>1 DEF OthersStay, Sock

(* A socket that is not of v, before nor after, says nothing of v.         *)
LEMMA OtherSocks ==
  ASSUME NEW d \in Places, OthersStay(d), NEW v, offers'[v] = offers[v],
         Sock(d).u # v \/ (~Sock(d).open /\ ~Sock(d).used),
         Sock(d)'.u # v \/ (~Sock(d)'.open /\ ~Sock(d)'.used)
  PROVE  SocksStay(v) /\ Gone(v)' = Gone(v)
<1>1. ASSUME NEW c \in Places PROVE /\ c \in Room(v)' <=> c \in Room(v)
                                    /\ c \in Cand(v)' <=> c \in Cand(v)
                                    /\ c \in Fresh(v)' <=> c \in Fresh(v)
                                    /\ c \in Content(v)' <=> c \in Content(v)
                                    /\ c \in Odd(v)' <=> c \in Odd(v)
                                    /\ c \in Gone(v)' <=> c \in Gone(v)
  <2>1. CASE c = d
    BY <2>1 DEF Room, Cand, Fresh, Content, Odd, Gone
  <2>2. CASE c # d
    <3>1. Sock(c)' = Sock(c)
      BY <2>2 DEF OthersStay
    <3>2. QED
      BY <3>1 DEF Room, Cand, Fresh, Content, Odd, Gone
  <2>3. QED
    BY <2>1, <2>2
<1>2. /\ Room(v)' \subseteq Places /\ Cand(v)' \subseteq Places /\ Fresh(v)' \subseteq Places
      /\ Content(v)' \subseteq Places /\ Odd(v)' \subseteq Places /\ Gone(v)' \subseteq Places
      /\ Room(v) \subseteq Places /\ Cand(v) \subseteq Places /\ Fresh(v) \subseteq Places
      /\ Content(v) \subseteq Places /\ Odd(v) \subseteq Places /\ Gone(v) \subseteq Places
  BY DEF Room, Cand, Fresh, Content, Odd, Gone, Places
<1>3. /\ Room(v)' = Room(v) /\ Cand(v)' = Cand(v) /\ Fresh(v)' = Fresh(v)
      /\ Content(v)' = Content(v) /\ Odd(v)' = Odd(v) /\ Gone(v)' = Gone(v)
  BY <1>1, <1>2
<1>4. QED
  BY <1>3 DEF SocksStay

(* A socket that hangs up leaves every other one where it is.              *)
LEMMA HungUp ==
  ASSUME Around, NEW u, NEW d, HangsUp(u, d)
  PROVE  /\ Room(u)' = Room(u) \ {d} /\ Cand(u)' = Cand(u) \ {d} /\ Fresh(u)' = Fresh(u)
         /\ Content(u)' = Content(u) \ {d} /\ Odd(u)' = Odd(u) /\ Gone(u)' = Gone(u) \cup {d}
<1>1. d \in Places /\ Sock(d) \in Conn /\ Sock(d).open /\ Sock(d).used /\ Sock(d).app /\ Sock(d).u = u
  BY PlaceTyped DEF HangsUp
<1>2. /\ Sock(d)' = [Sock(d) EXCEPT !.open = FALSE]
  BY DEF HangsUp
<1>3. /\ Sock(d)'.u = u /\ ~Sock(d)'.open /\ Sock(d)'.used /\ Sock(d)'.app
  BY <1>1, <1>2 DEF Conn
<1>4. ASSUME NEW c \in Places
      PROVE  /\ c \in Room(u)' <=> c \in Room(u) \ {d}
             /\ c \in Cand(u)' <=> c \in Cand(u) \ {d}
             /\ c \in Fresh(u)' <=> c \in Fresh(u)
             /\ c \in Content(u)' <=> c \in Content(u) \ {d}
             /\ c \in Odd(u)' <=> c \in Odd(u)
             /\ c \in Gone(u)' <=> c \in Gone(u) \cup {d}
  <2>1. CASE c = d
    BY <1>1, <1>3, <2>1 DEF Room, Cand, Fresh, Content, Odd, Gone
  <2>2. CASE c # d
    <3>1. Sock(c)' = Sock(c)
      BY <2>2 DEF OthersStay, HangsUp
    <3>2. QED
      BY <2>2, <3>1 DEF Room, Cand, Fresh, Content, Odd, Gone
  <2>3. QED
    BY <2>1, <2>2
<1>5. /\ Room(u)' \subseteq Places /\ Cand(u)' \subseteq Places /\ Fresh(u)' \subseteq Places
      /\ Content(u)' \subseteq Places /\ Odd(u)' \subseteq Places /\ Gone(u)' \subseteq Places
      /\ Room(u) \subseteq Places /\ Cand(u) \subseteq Places /\ Fresh(u) \subseteq Places
      /\ Content(u) \subseteq Places /\ Odd(u) \subseteq Places /\ Gone(u) \subseteq Places
  BY DEF Room, Cand, Fresh, Content, Odd, Gone, Places
<1>6. QED
  BY <1>1, <1>4, <1>5

(* ... and is the only end there is.                                       *)
LEMMA HungUpEnds ==
  ASSUME Around, NEW u, OneEnd(u), NEW d, HangsUp(u, d), \A t \in Shards : ~EndsOn(u, t),
         NEW X, NetOf(u, X, {}), JobsOf(u, {}, {})
  PROVE  OneEnd(u)' /\ \A t \in Shards : EndsOn(u, t)' => t = ShardOf[d[1]]
<1>1. Gone(u) = {}
  <2>1. ASSUME NEW c \in Gone(u) PROVE FALSE
    <3>1. ShardOf[c[1]] \in Shards
      BY PlacesOK DEF Gone, Places
    <3>2. QED
      BY <2>1, <3>1 DEF EndsOn
  <2>2. QED
    BY <2>1
<1>2. \A x \in Flights : x \notin Reports(u, 0)
  <2>1. ASSUME NEW x \in Flights, x \in Reports(u, 0) PROVE FALSE
    <3>1. Source(x) \in Shards
      BY <2>1 DEF Reports, Around, NoForce
    <3>2. QED
      BY <2>1, <3>1 DEF EndsOn
  <2>2. QED
    BY <2>1
<1>3. \A x \in JobFlights : x \notin EndJobs(u)
  <2>1. ASSUME NEW x \in JobFlights, x \in EndJobs(u) PROVE FALSE
    <3>1. x[1] \in Shards
      BY <2>1 DEF EndJobs
    <3>2. QED
      BY <2>1, <3>1 DEF EndsOn
  <2>2. QED
    BY <2>1
<1>4. Gone(u)' = {d}
  BY <1>1, HungUp
<1>5. /\ \A x \in Flights' : x \notin Reports(u, 0)
      /\ LoneIn(Reports(u, 0))'
  <2>1. \A y \in {} : y \notin Reports(u, 0)
    OBVIOUS
  <2>2. QED
    BY <1>2, <2>1 DEF NetOf, Moves, OneEnd
<1>6. /\ \A x \in JobFlights' : x \notin EndJobs(u)
      /\ LoneJob(EndJobs(u))'
  <2>1. \A y \in {} : y \notin EndJobs(u)
    OBVIOUS
  <2>2. QED
    BY <1>3, <2>1 DEF JobsOf, JobsMove, OneEnd
<1>7. IsLone(Gone(u))'
  BY <1>4 DEF IsLone
<1>8. Reports(u, 0)' = Reports(u, 0) /\ EndJobs(u)' = EndJobs(u)
  BY DEF Reports, EndJobs
<1>9. OneEnd(u)'
  BY <1>4, <1>5, <1>6, <1>7, <1>8 DEF OneEnd
<1>10. ASSUME NEW t \in Shards, EndsOn(u, t)' PROVE t = ShardOf[d[1]]
  <2>1. \E c \in Gone(u)' : ShardOf[c[1]] = t
    BY <1>5, <1>6, <1>8, <1>10 DEF EndsOn
  <2>2. QED
    BY <1>4, <2>1
<1>11. QED
  BY <1>9, <1>10

(* A socket that is open and validated hangs up when it is closed.         *)
LEMMA CloseHangs ==
  ASSUME Around, NEW f \in Fess, NEW k \in Conns, NEW d, d = <<f, k>>,
         conn[f][k].open, conn[f][k].app, NEW u, u = conn[f][k].u,
         conn' = [conn EXCEPT ![f] = Closed(f, {k})], UNCHANGED offers
  PROVE  HangsUp(u, d) /\ \A v : v # u => SocksStay(v)
<1>1. PICK r : r = [conn[f][k] EXCEPT !.open = FALSE]
  OBVIOUS
<1>2. /\ conn'[f][k] = r
      /\ \A g \in Fess, j \in Conns : g # f \/ j # k => conn'[g][j] = conn[g][j]
  <2>1. conn \in [Fess -> [Conns -> Conn]]
    BY DEF Around, TypeOK, FSTypeOK
  <2>2. QED
    BY <1>1, <2>1 DEF Closed
<1>3. d \in Places /\ Sock(d)' = r /\ OthersStay(d)
  <2>1. d \in Places /\ d[1] = f /\ d[2] = k
    BY DEF Places
  <2>2. OthersStay(d)
    BY <1>2, <2>1, OneSocket
  <2>3. QED
    BY <1>2, <2>1, <2>2 DEF Sock
<1>4. Sock(d) = conn[f][k]
  BY DEF Sock
<1>5. HangsUp(u, d)
  BY <1>1, <1>3, <1>4 DEF HangsUp
<1>6. ASSUME NEW v, v # u PROVE SocksStay(v)
  <2>1. Sock(d) \in Conn
    BY <1>3, PlaceTyped
  <2>2. Sock(d)'.u = u
    BY <1>1, <1>3, <1>4, <2>1 DEF Conn
  <2>3. QED
    BY <1>3, <1>4, <1>6, <2>2, OtherSocks
<1>7. QED
  BY <1>5, <1>6

(* What the end of the login closes is a socket that was to play.          *)
LEMMA KickedOff ==
  ASSUME Around, NEW u \in Users, Kept(u), NEW f \in Fess, NEW s \in Shards, ShardOf[f] = s,
         First(u, s), Past(u, s, f), NEW d, HangsUp(u, d), d[1] = f,
         UNCHANGED <<dbVars, lsVars, wsVars, ssVars, latest>>,
         NEW X, NetOf(u, X, {}), Ordered(Entry(u), Kicks(u))'
  PROVE  Kept(u)'
<1>1. /\ OneEnd(u) /\ OneCopy(u) /\ Inside(u) /\ Outside(u) /\ Leaves(u)
      /\ TokensOK(u) /\ Young(u) /\ Kicked(u) /\ Stored(u)
  BY DEF Kept
<1>2. FirstHere(u, s) /\ PastHere(u, f)
  BY DEF First, Past
<1>3. d \in Cand(u) /\ d \in Places
  BY <1>2 DEF FirstHere, HangsUp, Room, Cand
<1>4. \A t \in Shards : ~EndsOn(u, t)
  BY <1>2, <1>3 DEF FirstHere
<1>5. /\ Room(u)' = Room(u) \ {d} /\ Cand(u)' = Cand(u) \ {d} /\ Fresh(u)' = Fresh(u)
      /\ Content(u)' = Content(u) \ {d} /\ Odd(u)' = Odd(u)
  BY HungUp
<1>6. Cand(u)' = {} /\ Room(u)' = {} /\ Fresh(u)' = {} /\ offers'[u] = {}
  BY <1>1, <1>2, <1>3, <1>5 DEF Outside, FreshOK, IsLone, FirstHere, PastHere, HangsUp
<1>7. /\ LSStays(u) /\ WSStays(u) /\ LoginStays(u) /\ DataStays(u) /\ JobsOf(u, {}, {})
      /\ changeReq'[u] = changeReq[u] /\ current'[u] = current[u] /\ moving'[u] = moving[u]
      /\ infoCur'[u] = infoCur[u] /\ waiting'[u] = waiting[u] /\ tempCookie'[u] = tempCookie[u]
      /\ \A n \in Logins : sock'[u][n] = sock[u][n]
      /\ \A t \in Shards : wsAssoc'[t][u] = wsAssoc[t][u]
  BY FSApart
<1>8. OneEnd(u)' /\ \A t \in Shards : EndsOn(u, t)' => t = s
  BY <1>1, <1>4, <1>7, HungUpEnds
<1>9. \A y \in {} : y \notin Ahead(u) /\ y \notin Copies(u) /\ y \notin Kicks(u)
  OBVIOUS
<1>10. /\ OneCopy(u)'
       /\ \A y \in Flights' : y \in Copies(u) => y \in Flights
       /\ \A y \in JobFlights' : y \in CopyJobs(u) => y \in JobFlights
  <2>1. \A y \in {} : y \notin CopyJobs(u)
    OBVIOUS
  <2>2. \A y \in {} : y \notin Copies(u)
    OBVIOUS
  <2>3. QED
    BY <1>1, <1>7, <2>1, <2>2, CopiesFewer
<1>11. Stored(u)'
  BY <1>1, <1>5, <1>7, <1>10, UserTyped, StoredFewer, NullsDistinct DEF LSStays, LSKeeps
<1>12. LoneIn(Ahead(u))' /\ \A y \in Flights' : y \in Ahead(u) => y \in Flights
  <2>1. Ahead(u)' = Ahead(u)
    BY DEF Ahead, Asking, Reports, Entry, Flying
  <2>2. LoneIn(Ahead(u))
    BY <1>1 DEF TokensOK
  <2>3. QED
    BY <1>9, <2>1, <2>2 DEF NetOf, Moves
<1>13. \A y \in Flights' : y \in Kicks(u) => y \in Flights
  BY <1>9 DEF NetOf, Moves
<1>14. Calls(u) => Calls(u)'
  BY <1>6, <1>7 DEF Calls, Waits, Fetches
<1>15. ASSUME NEW y \in Flights', y \in Ahead(u)
       PROVE  y \in Flights /\ y \notin Asking(u) /\ TokenOK(u, y) /\ (y \in Reports(u, 1) => Source(y) = s)
  <2>1. y \in Flights
    BY <1>12, <1>15
  <2>2. PastTok(u, s, f, y) /\ FirstTok(u, s, y)
    BY <2>1 DEF Past, First
  <2>3. QED
    BY <1>1, <2>1, <2>2 DEF PastTok, FirstTok, TokensOK
<1>16. Inside(u)'
  <2>1. Room(u)' = {} /\ Odd(u)' = {}
    BY <1>1, <1>5, <1>6 DEF Inside
  <2>2. QED
    BY <2>1 DEF Inside, IsLone
<1>17. Outside(u)'
  <2>1. OffersOK(u)' /\ FreshOK(u)'
    BY <1>6 DEF OffersOK, FreshOK, IsLone
  <2>2. WaitsOK(u)'
    BY <1>2, <1>7 DEF WaitsOK, FirstHere, Waits
  <2>3. FetchOK(u)'
    BY <1>1, <1>6, <1>7 DEF FetchOK, Outside, Fetches
  <2>4. QED
    BY <2>1, <2>2, <2>3 DEF Outside
<1>18. Leaves(u)'
  <2>1. ASSUME NEW y \in Flights' PROVE LeftTok(u, s, y)'
    <3>1. y \in Ahead(u) => LeftTok(u, s, y)
      BY <1>15 DEF LeftTok
    <3>2. LeftTok(u, s, y)
      BY <3>1 DEF LeftTok, Ahead
    <3>3. QED
      BY <3>2 DEF LeftTok, Asking, Reports, Source, Flying
  <2>2. current'[u] \in {s, NoShard}
    BY <1>2, <1>7 DEF FirstHere
  <2>3. QED
    BY <1>6, <1>8, <2>1, <2>2 DEF Leaves
<1>19. ASSUME NEW y \in Flights', y \in Ahead(u) PROVE TokenOK(u, y)'
  <2>1. TokenOK(u, y) /\ y \notin Asking(u)
    BY <1>15, <1>19
  <2>2. y \in Reports(u, 1) => ReportOK(u, y)'
    BY <1>6, <1>7, <1>14, <2>1 DEF TokenOK, ReportOK, Reporter, Source
  <2>3. y \in Entry(u) => EntryOK(u, y)'
    BY <1>6, <1>7, <1>14, <2>1 DEF TokenOK, EntryOK, EntryShard
  <2>4. Asking(u)' = Asking(u) /\ Reports(u, 1)' = Reports(u, 1) /\ Entry(u)' = Entry(u)
    BY DEF Asking, Reports, Entry, Flying
  <2>5. QED
    BY <2>1, <2>2, <2>3, <2>4 DEF TokenOK
<1>20. TokensOK(u)'
  <2>1. ASSUME NEW y \in Flights' PROVE TokenOK(u, y)'
    <3>1. CASE y \in Ahead(u)
      BY <1>19, <3>1
    <3>2. CASE y \notin Ahead(u)
      BY <3>2 DEF TokenOK, Ahead, Asking, Reports, Entry, Flying
    <3>3. QED
      BY <3>1, <3>2
  <2>2. QED
    BY <1>12, <2>1 DEF TokensOK
<1>21. \A n \in Logins : sock'[u][n] \notin {"refused", "unused", "listed"}
  BY <1>1, <1>2, <1>7 DEF Young, FirstHere
<1>22. Young(u)'
  BY <1>1, <1>6, <1>7, <1>21 DEF Young, Waits, Fetches
<1>23. NoNewDanger(u)
  BY <1>1, <1>7, <1>13, DangersFewer
<1>24. ASSUME NEW t \in Shards, First(u, t) PROVE First(u, t)'
  <2>1. FirstHere(u, t)'
    BY <1>6, <1>7, <1>24 DEF First, FirstHere, Waits, Fetches
  <2>2. ASSUME NEW y \in Flights' PROVE FirstTok(u, t, y)'
    <3>1. FirstTok(u, t, y)
      <4>1. CASE y \in Ahead(u)
        BY <1>12, <1>24, <4>1 DEF First
      <4>2. CASE y \notin Ahead(u)
        BY <4>2 DEF FirstTok, Ahead
      <4>3. QED
        BY <4>1, <4>2
    <3>2. QED
      BY <3>1 DEF FirstTok, Asking, Reports, Entry, Source, Flying
  <2>3. QED
    BY <2>1, <2>2 DEF First
<1>25. ASSUME NEW t, NEW g, Past(u, t, g) PROVE Past(u, t, g)'
  <2>1. Fresh(u)' \subseteq Fresh(u) /\ Cand(u)' \subseteq Cand(u) /\ offers'[u] \subseteq offers[u]
    BY <1>5, <1>6
  <2>2. QED
    BY <1>7, <1>12, <1>25, <2>1, PastStays
<1>26. DangersStay(u)
  BY <1>24, <1>25 DEF DangersStay
<1>27. KicksFirst(u)'
  <2>1. Entry(u)' = Entry(u) /\ Kicks(u)' = Kicks(u)
    BY DEF Entry, Kicks, Flying
  <2>2. \A x, y \in Flights' : x \in Entry(u) /\ x[1][2] \in Fess /\ y \in Kicks(u) => y[1] # <<LS, x[1][1]>>
    <3>1. \A x \in Flights' : x \in Entry(u) => x \in Flights
      BY <1>12 DEF Ahead
    <3>2. QED
      BY <1>1, <1>13, <3>1 DEF Kicked, KicksFirst
  <2>3. QED
    BY <2>1, <2>2 DEF KicksFirst
<1>28. Kicked(u)'
  BY <1>1, <1>7, <1>23, <1>26, <1>27, AroundTyped, KickedFewer
<1>29. QED
  BY <1>8, <1>10, <1>11, <1>16, <1>17, <1>18, <1>20, <1>22, <1>28 DEF Kept

(* The end of a login reaches the front end.                               *)
LEMMA KeptFSDisconnectClient ==
  ASSUME Around, NEW f \in Fess, FSDisconnectClient(f), UNCHANGED <<dbVars, lsVars, wsVars, ssVars, latest>>,
         NEW v \in Users, Kept(v)
  PROVE  Kept(v)'
<1>1. PICK s \in Shards : s = ShardOf[f]
  BY PlacesOK
<1>2. PICK m : m = Head(net[<<s, f>>])
  OBVIOUS
<1>3. PICK u : u = m.u
  OBVIOUS
<1>4. PICK k : k = assoc[f][u]
  OBVIOUS
<1>5. /\ <<s, f>> \in Links /\ Pending(s, f, "M_CLIENT_DISCONNECT") /\ Receive(s, f, Silent)
      /\ conn' = [conn EXCEPT ![f] = Closed(f, {k})] /\ UNCHANGED offers
  BY <1>1, <1>2, <1>3, <1>4, LinksAre DEF FSDisconnectClient, DisconnectAccount
<1>6. /\ <<<<s, f>>, m>> \in Flights /\ <<<<s, f>>, m>> \in Flying
      /\ m.kind = "M_CLIENT_DISCONNECT" /\ m.u \in Users /\ m \in Message
  BY <1>2, <1>5, HeadIs
<1>7. u \in Users
  BY <1>3, <1>6
<1>8. SocksStay(v) => Kept(v)'
  <2>1. ASSUME SocksStay(v) PROVE Still(v) /\ changeReq'[v] = changeReq[v]
    BY <2>1, StillFS
  <2>2. QED
    BY <1>5, <2>1, UnmovedSilent
<1>9. CASE k \in Conns => ~conn[f][k].open
  <2>1. conn' = conn
    BY <1>5, <1>9, ClosedStill
  <2>2. SocksStay(v)
    BY <1>5, <2>1, FSQuiet
  <2>3. QED
    BY <1>8, <2>2
<1>10. CASE k \in Conns /\ conn[f][k].open
  <2>1. PICK d : d = <<f, k>>
    OBVIOUS
  <2>2. k # 0
    BY <1>10 DEF Conns
  <2>3. conn[f][k].open /\ conn[f][k].app /\ u = conn[f][k].u /\ k \in Conns
    <3>1. conn[f][k].app /\ conn[f][k].u = u
      BY <1>4, <1>7, <2>2, AssocIs
    <3>2. QED
      BY <1>10, <3>1
  <2>4. HangsUp(u, d) /\ \A w : w # u => SocksStay(w)
    <3>1. conn' = [conn EXCEPT ![f] = Closed(f, {k})] /\ UNCHANGED offers
      BY <1>5
    <3>2. QED
      BY <2>1, <2>3, <3>1, CloseHangs
  <2>5. CASE u # v
    BY <1>8, <2>4, <2>5
  <2>6. CASE u = v
    <3>1. PICK y : y = <<<<s, f>>, m>>
      OBVIOUS
    <3>2. y \in Kicks(v) /\ y \in Flights /\ y[1][1] = s /\ y[1][2] = f
      BY <1>3, <1>6, <2>6, <3>1 DEF Kicks
    <3>3. First(v, s) /\ Past(v, s, f)
      BY <3>2 DEF Kept, Kicked, KicksOK
    <3>4. NetOf(v, {y}, {}) /\ Ordered(Entry(v), Kicks(v))'
      BY <1>2, <1>5, <3>1, ReceivedSilent DEF Kept, Kicked, KicksFirst
    <3>5. d[1] = f
      BY <2>1
    <3>6. QED
      BY <1>1, <2>4, <2>6, <3>3, <3>4, <3>5, KickedOff
  <2>7. QED
    BY <2>5, <2>6
<1>11. QED
  BY <1>9, <1>10

(* A user that plays leaves.                                               *)
LEMMA LeftRoom ==
  ASSUME Around, NEW u \in Users, Kept(u), NEW d, HangsUp(u, d), d \in Room(u),
         UNCHANGED <<net, dbVars, lsVars, wsVars, ssVars, latest>>
  PROVE  Kept(u)'
<1>1. /\ OneEnd(u) /\ OneCopy(u) /\ Inside(u) /\ Outside(u) /\ Leaves(u)
      /\ TokensOK(u) /\ Young(u) /\ Kicked(u) /\ Stored(u)
  BY DEF Kept
<1>2. PICK s \in Shards : s = ShardOf[d[1]]
  BY PlacesOK DEF Room, Places
<1>3. /\ current[u] = s /\ infoCur[u] = s /\ moving[u] = NoMove /\ tempCookie[u] = NoShard
      /\ \A t \in Shards : ~EndsOn(u, t)
  BY <1>1, <1>2 DEF Inside
<1>4. /\ Room(u)' = Room(u) \ {d} /\ Cand(u)' = Cand(u) \ {d} /\ Fresh(u)' = Fresh(u)
      /\ Content(u)' = Content(u) \ {d} /\ Odd(u)' = Odd(u) /\ offers'[u] = offers[u]
  BY HungUp DEF HangsUp
<1>5. Room(u)' = {} /\ Cand(u)' = Cand(u)
  <2>1. Room(u) \ {d} = {}
    BY <1>1 DEF Inside, IsLone
  <2>2. d \notin Cand(u)
    BY DEF Room, Cand
  <2>3. QED
    BY <1>4, <2>1, <2>2
<1>6. /\ LSStays(u) /\ WSStays(u) /\ LoginStays(u) /\ DataStays(u) /\ JobsOf(u, {}, {})
      /\ changeReq'[u] = changeReq[u] /\ current'[u] = current[u] /\ moving'[u] = moving[u]
      /\ infoCur'[u] = infoCur[u] /\ waiting'[u] = waiting[u] /\ tempCookie'[u] = tempCookie[u]
      /\ \A n \in Logins : sock'[u][n] = sock[u][n]
  BY FSApart
<1>7. NetOf(u, {}, {}) /\ Ordered(Entry(u), Kicks(u))'
  BY <1>1, NetStill DEF Kicked, KicksFirst
<1>8. OneEnd(u)' /\ \A t \in Shards : EndsOn(u, t)' => t = s
  BY <1>1, <1>2, <1>3, <1>6, <1>7, HungUpEnds
<1>9. \A y \in {} : y \notin Ahead(u) /\ y \notin Copies(u) /\ y \notin Kicks(u)
  OBVIOUS
<1>10. /\ OneCopy(u)'
       /\ \A y \in Flights' : y \in Copies(u) => y \in Flights
       /\ \A y \in JobFlights' : y \in CopyJobs(u) => y \in JobFlights
  <2>1. \A y \in {} : y \notin CopyJobs(u)
    OBVIOUS
  <2>2. \A y \in {} : y \notin Copies(u)
    OBVIOUS
  <2>3. QED
    BY <1>1, <1>6, <1>7, <2>1, <2>2, CopiesFewer
<1>11. Stored(u)'
  BY <1>1, <1>4, <1>6, <1>10, UserTyped, StoredFewer, NullsDistinct DEF LSStays, LSKeeps
<1>12. LoneIn(Ahead(u))' /\ \A y \in Flights' : y \in Ahead(u) => y \in Flights
  <2>1. Ahead(u)' = Ahead(u)
    BY DEF Ahead, Asking, Reports, Entry, Flying
  <2>2. LoneIn(Ahead(u))
    BY <1>1 DEF TokensOK
  <2>3. QED
    BY <1>7, <1>9, <2>1, <2>2 DEF NetOf, Moves
<1>13. \A y \in Flights' : y \in Kicks(u) => y \in Flights
  BY <1>7, <1>9 DEF NetOf, Moves
<1>14. Calls(u) => Calls(u)'
  BY <1>4, <1>6 DEF Calls, Waits, Fetches
<1>15. Inside(u)'
  <2>1. Room(u)' = {} /\ Odd(u)' = {}
    BY <1>1, <1>4, <1>5 DEF Inside
  <2>2. QED
    BY <2>1 DEF Inside, IsLone
<1>16. ~Fetches(u) /\ ~Fetches(u)'
  BY <1>3, <1>6 DEF Fetches, NoMove
<1>17. Outside(u)'
  <2>1. OffersOK(u)' /\ FreshOK(u)'
    BY <1>1, <1>4, <1>5, <1>6 DEF OffersOK, FreshOK, IsLone, Outside, Waits, Fetches
  <2>2. WaitsOK(u)'
    BY <1>1, <1>5, <1>6 DEF WaitsOK, Waits, Outside, Fetches
  <2>3. FetchOK(u)'
    BY <1>16 DEF FetchOK
  <2>4. QED
    BY <2>1, <2>2, <2>3 DEF Outside
<1>18. Leaves(u)'
  BY <1>3, <1>5, <1>6, <1>8, NullsDistinct DEF Leaves
<1>19. ~Blank(u)
  BY DEF Blank
<1>20. ASSUME NEW y \in Flights', y \in Ahead(u) PROVE TokenOK(u, y)'
  <2>1. TokenOK(u, y)
    BY <1>1, <1>12, <1>20 DEF TokensOK
  <2>2. y \in Asking(u) => AskOK(u, y)'
    BY <1>4, <1>5, <1>6, <1>14, <1>19, <2>1 DEF TokenOK, AskOK
  <2>3. y \in Reports(u, 1) => ReportOK(u, y)'
    BY <1>5, <1>6, <1>14, <2>1 DEF TokenOK, ReportOK, Reporter, Source
  <2>4. y \notin Entry(u)
    BY <2>1 DEF TokenOK, EntryOK
  <2>5. Asking(u)' = Asking(u) /\ Reports(u, 1)' = Reports(u, 1) /\ Entry(u)' = Entry(u)
    BY DEF Asking, Reports, Entry, Flying
  <2>6. QED
    BY <2>2, <2>3, <2>4, <2>5 DEF TokenOK
<1>21. TokensOK(u)'
  <2>1. ASSUME NEW y \in Flights' PROVE TokenOK(u, y)'
    <3>1. CASE y \in Ahead(u)
      BY <1>20, <3>1
    <3>2. CASE y \notin Ahead(u)
      BY <3>2 DEF TokenOK, Ahead, Asking, Reports, Entry, Flying
    <3>3. QED
      BY <3>1, <3>2
  <2>2. QED
    BY <1>12, <2>1 DEF TokensOK
<1>22. Young(u)'
  BY <1>1, <1>3, <1>6, <1>19 DEF Young
<1>23. Kicked(u)'
  <2>1. \A t \in Shards : FesOf(t) # {} => ~First(u, t)
    BY DEF First, FirstHere
  <2>2. KicksFirst(u)'
    <3>1. Entry(u)' = Entry(u) /\ Kicks(u)' = Kicks(u)
      BY DEF Entry, Kicks, Flying
    <3>2. \A x, y \in Flights' : x \in Entry(u) /\ x[1][2] \in Fess /\ y \in Kicks(u) => y[1] # <<LS, x[1][1]>>
      <4>1. \A x \in Flights' : x \in Entry(u) => x \in Flights
        BY <1>12 DEF Ahead
      <4>2. QED
        BY <1>1, <1>13, <4>1 DEF Kicked, KicksFirst
    <3>3. QED
      BY <1>7, <3>1, <3>2 DEF KicksFirst
  <2>3. QED
    BY <1>1, <1>6, <1>13, <2>1, <2>2, NoFirst
<1>24. QED
  BY <1>8, <1>10, <1>11, <1>15, <1>17, <1>18, <1>21, <1>22, <1>23 DEF Kept

(* ClientClose keeps Kept for every user.                                  *)
LEMMA KeptClientClose ==
  ASSUME Around, NEW f \in Fess, NEW k \in Conns, ClientClose(f, k),
         UNCHANGED <<dbVars, lsVars, wsVars, ssVars, latest>>,
         NEW v \in Users, \A a \in Users : Kept(a)
  PROVE  Kept(v)'
<1>1. /\ conn[f][k].open /\ conn[f][k].entered /\ conn' = [conn EXCEPT ![f] = Closed(f, {k})]
      /\ UNCHANGED offers /\ UNCHANGED net
  BY DEF ClientClose, Around, Settings, netVars
<1>2. PICK d : d = <<f, k>>
  OBVIOUS
<1>3. d \in Places /\ Sock(d) = conn[f][k]
  BY <1>2 DEF Places, Sock
<1>4. PICK u : u = conn[f][k].u
  OBVIOUS
<1>5. u \in Users
  BY <1>3, <1>4, PlaceTyped DEF Conn
<1>6. d \in Room(u)
  BY <1>1, <1>3, <1>4 DEF Room
<1>7. conn[f][k].app
  <2>1. Odd(u) = {}
    BY <1>5 DEF Kept, Inside
  <2>2. QED
    BY <1>1, <1>3, <1>4, <2>1 DEF Odd
<1>8. HangsUp(u, d) /\ \A w : w # u => SocksStay(w)
  BY <1>1, <1>2, <1>4, <1>7, CloseHangs
<1>9. CASE u = v
  BY <1>1, <1>5, <1>6, <1>8, <1>9, LeftRoom
<1>10. CASE u # v
  <2>1. Still(v) /\ changeReq'[v] = changeReq[v]
    BY <1>8, <1>10, StillFS
  <2>2. NetOf(v, {}, {}) /\ (Ordered(Entry(v), Kicks(v)) => Ordered(Entry(v), Kicks(v))')
    BY <1>1, NetStill
  <2>3. \A y \in {} : y[2].u # v
    OBVIOUS
  <2>4. QED
    BY <2>1, <2>2, <2>3, Unmoved
<1>11. QED
  BY <1>9, <1>10

(* A socket that is closed stays so.                                       *)
LEMMA ShutSocks ==
  ASSUME NEW d \in Places, OthersStay(d), ~Sock(d).open, ~Sock(d)'.open,
         \/ ~Sock(d)'.used
         \/ Sock(d)'.used = Sock(d).used /\ Sock(d)'.app = Sock(d).app /\ Sock(d)'.u = Sock(d).u,
         NEW v, offers'[v] = offers[v]
  PROVE  SocksStay(v)
<1>1. ASSUME NEW c \in Places PROVE /\ c \in Room(v)' <=> c \in Room(v)
                                    /\ c \in Cand(v)' <=> c \in Cand(v)
                                    /\ c \in Fresh(v)' <=> c \in Fresh(v)
                                    /\ c \in Content(v)' <=> c \in Content(v)
                                    /\ c \in Odd(v)' <=> c \in Odd(v)
                                    /\ c \in Gone(v)' => c \in Gone(v)
  <2>1. CASE c = d
    BY <2>1 DEF Room, Cand, Fresh, Content, Odd, Gone
  <2>2. CASE c # d
    <3>1. Sock(c)' = Sock(c)
      BY <2>2 DEF OthersStay
    <3>2. QED
      BY <3>1 DEF Room, Cand, Fresh, Content, Odd, Gone
  <2>3. QED
    BY <2>1, <2>2
<1>2. /\ Room(v)' \subseteq Places /\ Cand(v)' \subseteq Places /\ Fresh(v)' \subseteq Places
      /\ Content(v)' \subseteq Places /\ Odd(v)' \subseteq Places /\ Gone(v)' \subseteq Places
      /\ Room(v) \subseteq Places /\ Cand(v) \subseteq Places /\ Fresh(v) \subseteq Places
      /\ Content(v) \subseteq Places /\ Odd(v) \subseteq Places /\ Gone(v) \subseteq Places
  BY DEF Room, Cand, Fresh, Content, Odd, Gone, Places
<1>3. /\ Room(v)' = Room(v) /\ Cand(v)' = Cand(v) /\ Fresh(v)' = Fresh(v)
      /\ Content(v)' = Content(v) /\ Odd(v)' = Odd(v) /\ Gone(v)' \subseteq Gone(v)
  BY <1>1, <1>2
<1>4. QED
  BY <1>3 DEF SocksStay

(* The socket of a user is told that it may play.                          *)
Enters(u, d) ==
  /\ d \in Cand(u) /\ Sock(d).app /\ Sock(d)' = [Sock(d) EXCEPT !.entered = TRUE]
  /\ OthersStay(d) /\ offers'[u] = offers[u]
(* The sockets of a user that enters: one more in a room, one fewer to     *)
(* come.                                                                   *)
LEMMA EnteredSocks ==
  ASSUME Around, NEW u, NEW d, Enters(u, d)
  PROVE  /\ Room(u)' = Room(u) \cup {d} /\ Cand(u)' = Cand(u) \ {d} /\ Fresh(u)' = Fresh(u)
         /\ Odd(u)' = Odd(u) /\ Gone(u)' = Gone(u)
<1>1. d \in Places /\ Sock(d) \in Conn /\ Sock(d).open /\ Sock(d).app /\ Sock(d).u = u /\ ~Sock(d).entered
  BY PlaceTyped DEF Enters, Cand
<1>2. /\ Sock(d)' = [Sock(d) EXCEPT !.entered = TRUE]
  BY DEF Enters
<1>3. /\ Sock(d)'.u = u /\ Sock(d)'.open /\ Sock(d)'.app /\ Sock(d)'.entered
  BY <1>1, <1>2 DEF Conn
<1>4. ASSUME NEW c \in Places
      PROVE  /\ c \in Room(u)' <=> c \in Room(u) \cup {d}
             /\ c \in Cand(u)' <=> c \in Cand(u) \ {d}
             /\ c \in Fresh(u)' <=> c \in Fresh(u)
             /\ c \in Odd(u)' <=> c \in Odd(u)
             /\ c \in Gone(u)' <=> c \in Gone(u)
  <2>1. CASE c = d
    BY <1>1, <1>3, <2>1 DEF Room, Cand, Fresh, Odd, Gone
  <2>2. CASE c # d
    <3>1. Sock(c)' = Sock(c)
      BY <2>2 DEF OthersStay, Enters
    <3>2. QED
      BY <2>2, <3>1 DEF Room, Cand, Fresh, Odd, Gone
  <2>3. QED
    BY <2>1, <2>2
<1>5. /\ Room(u)' \subseteq Places /\ Cand(u)' \subseteq Places /\ Fresh(u)' \subseteq Places
      /\ Odd(u)' \subseteq Places /\ Gone(u)' \subseteq Places
      /\ Room(u) \subseteq Places /\ Cand(u) \subseteq Places /\ Fresh(u) \subseteq Places
      /\ Odd(u) \subseteq Places /\ Gone(u) \subseteq Places
  BY DEF Room, Cand, Fresh, Odd, Gone, Places
<1>6. QED
  BY <1>1, <1>4, <1>5

(* A user that is let in through its own entry is placed as Inside says.   *)
LEMMA EnteredRoom ==
  ASSUME Around, NEW u \in Users, Kept(u), NEW d, Enters(u, d), NEW s \in Shards, s = ShardOf[d[1]],
         NEW x \in Flights, x \in Entry(u), x[1] = <<s, d[1]>>,
         \A y \in Flights : y \in Kicks(u) => y[1] # x[1],
         UNCHANGED <<dbVars, lsVars, wsVars, ssVars, latest>>, NetOf(u, {x}, {})
  PROVE  Kept(u)'
<1>1. /\ OneEnd(u) /\ OneCopy(u) /\ Inside(u) /\ Outside(u) /\ Leaves(u)
      /\ TokensOK(u) /\ Young(u) /\ Kicked(u) /\ Stored(u)
  BY DEF Kept
<1>2. d \in Cand(u) /\ d \in Places /\ d[1] \in Fess /\ x \in Ahead(u)
  BY DEF Enters, Cand, Places, Ahead
<1>3. s \notin Fess /\ LS \notin Fess /\ s # LS /\ LS \notin Shards /\ x[1][1] = s /\ x[1][2] = d[1]
  BY NodesDistinct
<1>4. EntryOK(u, x)
  BY <1>1 DEF TokensOK, TokenOK
<1>5. EntryShard(x) = s
  BY <1>3 DEF EntryShard
<1>6. /\ Calls(u) /\ Room(u) = {} /\ tempCookie[u] = NoShard /\ moving[u] = NoMove
      /\ x[2].fsSid = d[1] /\ current[u] = s /\ infoCur[u] = s
      /\ \A t \in Shards : ~EndsOn(u, t)
  BY <1>2, <1>4, <1>5 DEF EntryOK
<1>7. /\ LSStays(u) /\ WSStays(u) /\ LoginStays(u) /\ DataStays(u) /\ JobsOf(u, {}, {})
      /\ changeReq'[u] = changeReq[u] /\ current'[u] = current[u] /\ moving'[u] = moving[u]
      /\ infoCur'[u] = infoCur[u] /\ waiting'[u] = waiting[u] /\ tempCookie'[u] = tempCookie[u]
      /\ dbOnline'[u] = dbOnline[u] /\ abnormal'[u] = abnormal[u]
      /\ \A n \in Logins : sock'[u][n] = sock[u][n]
  BY FSApart
<1>8. /\ Room(u)' = {d} /\ Cand(u)' = {} /\ Fresh(u)' = {} /\ Odd(u)' = {} /\ Gone(u)' = Gone(u)
      /\ offers'[u] = {}
  BY <1>1, <1>2, <1>6, EnteredSocks DEF Outside, FreshOK, IsLone, Calls, Enters, Inside
<1>9. /\ \A y \in {} : y \notin Reports(u, 0) /\ y \notin Copies(u) /\ y \notin Kicks(u) /\ y \notin Ahead(u)
      /\ \A y \in {} : y \notin EndJobs(u) /\ y \notin CopyJobs(u)
  OBVIOUS
<1>10. OneEnd(u)' /\ NoNewEnd(u)
  <2>1. \A y \in {} : y \notin Reports(u, 0)
    OBVIOUS
  <2>2. \A y \in {} : y \notin EndJobs(u)
    OBVIOUS
  <2>3. QED
    BY <1>1, <1>7, <1>8, <2>1, <2>2, EndsFewer
<1>11. \A t \in Shards : ~EndsOn(u, t)'
  BY <1>6, <1>10 DEF NoNewEnd
<1>12. /\ OneCopy(u)'
       /\ \A y \in Flights' : y \in Copies(u) => y \in Flights
       /\ \A y \in JobFlights' : y \in CopyJobs(u) => y \in JobFlights
  <2>1. \A y \in {} : y \notin CopyJobs(u)
    OBVIOUS
  <2>2. \A y \in {} : y \notin Copies(u)
    OBVIOUS
  <2>3. QED
    BY <1>1, <1>7, <2>1, <2>2, CopiesFewer
<1>13. Stored(u)'
  <2>1. HomeOfData(u)' = HomeOfData(u)
    BY <1>7 DEF LSStays, LSKeeps, LSHolds
  <2>2. infoCur[u] # NoShard /\ HomeOfData(u) \in Shards
    BY <1>6, NullsDistinct DEF HomeOfData
  <2>3. Copies(u)' = Copies(u) /\ CopyJobs(u)' = CopyJobs(u)
    BY DEF Copies, CopyJobs
  <2>4. data'[HomeOfData(u)][u] = latest'[u]
    BY <1>1, <1>6, <1>7, <2>2 DEF Stored, DataStays
  <2>5. (\A y \in Flights' : y \notin Copies(u)) /\ (\A y \in JobFlights' : y \notin CopyJobs(u))
    BY <1>1, <1>6, <1>12 DEF Stored
  <2>6. QED
    BY <1>1, <1>6, <1>7, <2>1, <2>2, <2>3, <2>4, <2>5 DEF Stored
<1>14. \A y \in Flights' : y \notin Ahead(u)
  <2>1. \E y \in {x} : y \in Ahead(u)
    BY <1>2
  <2>2. QED
    BY <1>1, <2>1 DEF NetOf, Moves, TokensOK
<1>15. LoneIn(Ahead(u))'
  <2>1. Ahead(u)' = Ahead(u)
    BY DEF Ahead, Asking, Reports, Entry, Flying
  <2>2. QED
    BY <1>1, <1>9, <2>1 DEF NetOf, Moves, TokensOK
<1>16. \A y \in Flights' : y \in Kicks(u) => y \in Flights
  BY <1>9 DEF NetOf, Moves
<1>17. Inside(u)'
  <2>1. ASSUME NEW c \in Room(u)'
        PROVE  /\ current'[u] = ShardOf[c[1]] /\ infoCur'[u] = ShardOf[c[1]]
               /\ moving'[u] = NoMove /\ tempCookie'[u] = NoShard
    BY <1>6, <1>7, <1>8, <2>1
  <2>2. IsLone(Room(u))'
    BY <1>8 DEF IsLone
  <2>3. QED
    BY <1>8, <1>11, <2>1, <2>2 DEF Inside
<1>18. ~Waits(u)' /\ ~Fetches(u)'
  BY <1>6, <1>7 DEF Calls, Waits, Fetches
<1>19. Outside(u)'
  BY <1>8, <1>18 DEF Outside, OffersOK, FreshOK, WaitsOK, FetchOK, IsLone
<1>20. Leaves(u)'
  BY <1>11 DEF Leaves
<1>21. TokensOK(u)'
  <2>1. ASSUME NEW y \in Flights' PROVE TokenOK(u, y)'
    BY <1>14 DEF TokenOK, Ahead, Asking, Reports, Entry, Flying
  <2>2. QED
    BY <1>15, <2>1 DEF TokensOK
<1>22. Young(u)'
  <2>1. \A n \in Logins : sock'[u][n] \notin {"refused", "unused", "listed"}
    BY <1>1, <1>2, <1>7, Chosen
  <2>2. QED
    BY <1>6, <1>7, <2>1 DEF Young
<1>23. ASSUME NEW y \in Flights, y \in Kicks(u), y[1][2] \in Fess PROVE FALSE
  <2>1. First(u, y[1][1]) /\ Past(u, y[1][1], y[1][2])
    BY <1>1, <1>23 DEF Kicked, KicksOK
  <2>2. PastTok(u, y[1][1], y[1][2], x)
    BY <2>1 DEF Past
  <2>3. y[1][2] = d[1]
    BY <1>6, <2>2 DEF PastTok
  <2>4. y[1] \in Links
    BY <1>23 DEF Kicks, Flying
  <2>5. y[1][1] = s
    BY <1>23, <2>3, <2>4, DownLinks
  <2>6. y[1] = <<y[1][1], y[1][2]>>
    BY <2>4 DEF Links
  <2>7. QED
    BY <1>23, <2>3, <2>5, <2>6
<1>24. ASSUME NEW t \in Shards, InDanger(u, t)' PROVE FALSE
  <2>1. PICK y \in Flights' : y \in Kicks(u)' /\ y[1] = <<LS, t>>
    BY <1>6, <1>7, <1>24, NullsDistinct DEF InDanger
  <2>2. y \in Kicks(u) /\ y \in Flights
    BY <1>16, <2>1 DEF Kicks, Flying
  <2>3. FesOf(t) # {}
    BY <1>24 DEF InDanger, FesOf
  <2>4. InDanger(u, t)
    BY <2>1, <2>2, <2>3 DEF InDanger
  <2>5. First(u, t)
    BY <1>1, <2>4 DEF Kicked, DangerOK
  <2>6. FirstTok(u, t, x)
    BY <2>5 DEF First
  <2>7. t \in {s, d[1]}
    BY <1>3, <2>6 DEF FirstTok
  <2>8. t = s
    BY <1>2, <2>7, NodesDistinct
  <2>9. y[1] # <<LS, s>>
    BY <1>1, <1>2, <1>3, <2>2 DEF Kicked, KicksFirst
  <2>10. QED
    BY <2>1, <2>8, <2>9
<1>25. Kicked(u)'
  <2>1. KicksFirst(u)'
    <3>1. \A y \in Flights' : y \notin Entry(u)
      BY <1>14 DEF Ahead
    <3>2. QED
      BY <3>1, NoEntryFirst
  <2>2. Kicks(u)' = Kicks(u)
    BY DEF Kicks, Flying
  <2>3. QED
    BY <1>16, <1>23, <1>24, <2>1, <2>2 DEF Kicked, DangerOK, KicksOK
<1>26. QED
  BY <1>10, <1>12, <1>13, <1>17, <1>19, <1>20, <1>21, <1>22, <1>25 DEF Kept

(* FSEnterShardOk keeps Kept for every user.                               *)
LEMMA KeptFSEnterShardOk ==
  ASSUME Around, NEW f \in Fess, FSEnterShardOk(f), UNCHANGED <<dbVars, lsVars, wsVars, ssVars, latest>>,
         NEW v \in Users, Kept(v)
  PROVE  Kept(v)'
<1>1. PICK s \in Shards : s = ShardOf[f]
  BY PlacesOK
<1>2. PICK m : m = Head(net[<<s, f>>])
  OBVIOUS
<1>3. PICK u : u = m.u
  OBVIOUS
<1>4. PICK k : k = assoc[f][u]
  OBVIOUS
<1>5. /\ <<s, f>> \in Links /\ Pending(s, f, "M_ENTER__SHARD") /\ Receive(s, f, Silent)
      /\ conn' = IF k = 0 THEN conn ELSE [conn EXCEPT ![f][k].entered = conn[f][k].open]
      /\ UNCHANGED offers
  BY <1>1, <1>2, <1>3, <1>4, LinksAre DEF FSEnterShardOk
<1>6. /\ <<<<s, f>>, m>> \in Flights /\ <<<<s, f>>, m>> \in Flying
      /\ m.kind = "M_ENTER__SHARD" /\ m.u \in Users /\ m \in Message
  BY <1>2, <1>5, HeadIs
<1>7. u \in Users
  BY <1>3, <1>6
<1>8. SocksStay(v) => Kept(v)'
  <2>1. ASSUME SocksStay(v) PROVE Still(v) /\ changeReq'[v] = changeReq[v]
    BY <2>1, StillFS
  <2>2. QED
    BY <1>5, <2>1, UnmovedSilent
<1>9. CASE k = 0
  <2>1. SocksStay(v)
    BY <1>5, <1>9, FSQuiet
  <2>2. QED
    BY <1>8, <2>1
<1>10. CASE k # 0
  <2>1. PICK d : d = <<f, k>>
    OBVIOUS
  <2>2. k \in Conns /\ conn[f][k].used /\ conn[f][k].app /\ conn[f][k].u = u
    BY <1>4, <1>7, <1>10, AssocIs
  <2>3. conn \in [Fess -> [Conns -> Conn]]
    BY DEF Around, TypeOK, FSTypeOK
  <2>4. d \in Places /\ d[1] = f /\ d[2] = k /\ Sock(d) = conn[f][k] /\ Sock(d) \in Conn
    BY <2>1, <2>2, <2>3 DEF Places, Sock
  <2>5. PICK r : r = [conn[f][k] EXCEPT !.entered = conn[f][k].open]
    OBVIOUS
  <2>6. /\ conn'[f][k] = r
        /\ \A g \in Fess, j \in Conns : g # f \/ j # k => conn'[g][j] = conn[g][j]
    BY <1>5, <1>10, <2>2, <2>3, <2>5
  <2>7. Sock(d)' = r
    BY <2>4, <2>6 DEF Sock
  <2>8. OthersStay(d)
    BY <2>4, <2>6, OneSocket
  <2>9. r.open = conn[f][k].open /\ r.used = conn[f][k].used /\ r.app = conn[f][k].app /\ r.u = u
    BY <2>2, <2>4, <2>5 DEF Conn
  <2>10. CASE ~conn[f][k].open
    <3>1. SocksStay(v)
      BY <1>5, <2>2, <2>4, <2>7, <2>8, <2>9, <2>10, ShutSocks
    <3>2. QED
      BY <1>8, <3>1
  <2>11. CASE u # v
    <3>1. SocksStay(v)
      BY <1>5, <2>2, <2>4, <2>7, <2>8, <2>9, <2>11, OtherSocks
    <3>2. QED
      BY <1>8, <3>1
  <2>12. CASE u = v /\ conn[f][k].open
    <3>1. PICK x : x = <<<<s, f>>, m>>
      OBVIOUS
    <3>2. x \in Entry(v) /\ x \in Flights /\ x[1] = <<s, f>> /\ x[1] = <<s, d[1]>>
      BY <1>3, <1>6, <2>4, <2>12, <3>1 DEF Entry
    <3>3. Room(v) = {}
      BY <3>2 DEF Kept, TokensOK, TokenOK, EntryOK
    <3>4. d \in Cand(v)
      BY <2>2, <2>4, <2>12, <3>3 DEF Room, Cand
    <3>5. r = [Sock(d) EXCEPT !.entered = TRUE]
      BY <2>4, <2>5, <2>12
    <3>6. Enters(v, d)
      BY <1>5, <2>2, <2>4, <2>7, <2>8, <3>4, <3>5 DEF Enters
    <3>7. \A y \in Flights : y \in Kicks(v) => y[1] # x[1]
      <4>1. PICK a : a = <<s, f>>
        OBVIOUS
      <4>2. <<a, net[a][1]>> \in Entry(v) /\ 1 \in DOMAIN net[a] /\ a \in Links
        <5>1. 1 \in DOMAIN net[<<s, f>>] /\ m = net[<<s, f>>][1]
          BY <1>2, <1>5, AroundTyped, HeadFlies
        <5>2. QED
          BY <1>5, <3>1, <3>2, <4>1, <5>1
      <4>3. Ordered(Entry(v), Kicks(v))
        BY DEF Kept, Kicked, KicksFirst
      <4>4. \A y \in Flights : y \in Kicks(v) => y[1] # a
        BY <4>2, <4>3, AroundTyped, HeadOrdered
      <4>5. QED
        BY <3>2, <4>1, <4>4
    <3>8. NetOf(v, {x}, {})
      BY <1>2, <1>5, <3>1, ReceivedSilent
    <3>9. s = ShardOf[d[1]]
      BY <1>1, <2>4
    <3>10. QED
      BY <3>2, <3>6, <3>7, <3>8, <3>9, EnteredRoom
  <2>13. QED
    BY <2>10, <2>11, <2>12
<1>11. QED
  BY <1>9, <1>10

(* A user that plays gets the answer to its request for another shard.     *)
LEMMA Answered ==
  ASSUME Around, NEW u \in Users, Kept(u), NEW x \in Flights, x \in Asking(u), Room(u) # {},
         Room(u)' = Room(u), Cand(u)' = Cand(u), Fresh(u)' = Fresh(u), Odd(u)' = Odd(u), Gone(u)' = Gone(u),
         \/ offers'[u] = offers[u]
         \/ \E o : offers'[u] = {o} /\ ShardOf[o.f] # current[u],
         UNCHANGED <<dbVars, lsVars, wsVars, ssVars, latest>>, NetOf(u, {x}, {})
  PROVE  Kept(u)'
<1>1. /\ OneEnd(u) /\ OneCopy(u) /\ Inside(u) /\ Outside(u) /\ Leaves(u)
      /\ TokensOK(u) /\ Young(u) /\ Kicked(u) /\ Stored(u)
  BY DEF Kept
<1>2. /\ Cand(u) = {} /\ Calls(u) /\ x \in Ahead(u)
  BY AskHead DEF AskOK
<1>3. PICK c \in Room(u) : TRUE
  OBVIOUS
<1>4. /\ tempCookie[u] = NoShard /\ \A t \in Shards : ~EndsOn(u, t)
  BY <1>1, <1>3 DEF Inside
<1>5. /\ LSStays(u) /\ WSStays(u) /\ LoginStays(u) /\ DataStays(u) /\ JobsOf(u, {}, {})
      /\ changeReq'[u] = changeReq[u] /\ current'[u] = current[u] /\ moving'[u] = moving[u]
      /\ infoCur'[u] = infoCur[u] /\ waiting'[u] = waiting[u] /\ tempCookie'[u] = tempCookie[u]
      /\ \A n \in Logins : sock'[u][n] = sock[u][n]
  BY FSApart
<1>6. OneEnd(u)' /\ NoNewEnd(u)
  <2>1. \A y \in {} : y \notin Reports(u, 0)
    OBVIOUS
  <2>2. \A y \in {} : y \notin EndJobs(u)
    OBVIOUS
  <2>3. QED
    BY <1>1, <1>5, <2>1, <2>2, EndsFewer
<1>7. \A t \in Shards : ~EndsOn(u, t)'
  BY <1>4, <1>6 DEF NoNewEnd
<1>8. /\ OneCopy(u)'
      /\ \A y \in Flights' : y \in Copies(u) => y \in Flights
      /\ \A y \in JobFlights' : y \in CopyJobs(u) => y \in JobFlights
  <2>1. \A y \in {} : y \notin CopyJobs(u)
    OBVIOUS
  <2>2. \A y \in {} : y \notin Copies(u)
    OBVIOUS
  <2>3. QED
    BY <1>1, <1>5, <2>1, <2>2, CopiesFewer
<1>9. Stored(u)'
  BY <1>1, <1>5, <1>8, UserTyped, StoredFewer, NullsDistinct DEF LSStays, LSKeeps
<1>10. \A y \in Flights' : y \notin Ahead(u)
  <2>1. \E y \in {x} : y \in Ahead(u)
    BY <1>2
  <2>2. QED
    BY <1>1, <2>1 DEF NetOf, Moves, TokensOK
<1>11. LoneIn(Ahead(u))'
  <2>1. Ahead(u)' = Ahead(u)
    BY DEF Ahead, Asking, Reports, Entry, Flying
  <2>2. \A y \in {} : y \notin Ahead(u)
    OBVIOUS
  <2>3. QED
    BY <1>1, <2>1, <2>2 DEF NetOf, Moves, TokensOK
<1>12. \A y \in Flights' : y \in Kicks(u) => y \in Flights
  <2>1. \A y \in {} : y \notin Kicks(u)
    OBVIOUS
  <2>2. QED
    BY <2>1 DEF NetOf, Moves
<1>13. Inside(u)'
  BY <1>1, <1>5, <1>6, InsideFewer DEF LSStays, LSKeeps
<1>14. ~Waits(u)' /\ ~Fetches(u)' /\ Cand(u)' = {} /\ Fresh(u)' = {}
  BY <1>2, <1>5 DEF Calls, Waits, Fetches
<1>15. Outside(u)'
  <2>1. OffersOK(u)'
    <3>1. \A o \in offers'[u] : ShardOf[o.f] # current'[u]
      BY <1>2, <1>5 DEF Calls
    <3>2. IsLone(offers[u])'
      BY <1>2 DEF Calls, IsLone
    <3>3. QED
      BY <1>14, <3>1, <3>2 DEF OffersOK
  <2>2. FreshOK(u)' /\ WaitsOK(u)' /\ FetchOK(u)'
    BY <1>14 DEF FreshOK, WaitsOK, FetchOK, IsLone
  <2>3. QED
    BY <2>1, <2>2 DEF Outside
<1>16. Leaves(u)'
  BY <1>7 DEF Leaves
<1>17. TokensOK(u)'
  <2>1. ASSUME NEW y \in Flights' PROVE TokenOK(u, y)'
    BY <1>10 DEF TokenOK, Ahead, Asking, Reports, Entry, Flying
  <2>2. QED
    BY <1>11, <2>1 DEF TokensOK
<1>18. Young(u)'
  <2>1. \A n \in Logins : sock'[u][n] \notin {"refused", "unused", "listed"}
    BY <1>1, <1>2, <1>5, Chosen
  <2>2. QED
    BY <1>4, <1>5, <2>1 DEF Young
<1>19. Kicked(u)'
  <2>1. \A t \in Shards : FesOf(t) # {} => ~First(u, t)
    BY DEF First, FirstHere
  <2>2. KicksFirst(u)'
    <3>1. \A y \in Flights' : y \notin Entry(u)
      BY <1>10 DEF Ahead
    <3>2. QED
      BY <3>1, NoEntryFirst
  <2>3. QED
    BY <1>1, <1>5, <1>12, <2>1, <2>2, NoFirst
<1>20. QED
  BY <1>6, <1>8, <1>9, <1>13, <1>15, <1>16, <1>17, <1>18, <1>19 DEF Kept

(* The sockets, but for what their clients have asked for.                 *)
LEMMA AskedApart ==
  ASSUME NEW v,
         \A c \in Places : /\ Sock(c)'.u = Sock(c).u /\ Sock(c)'.open = Sock(c).open
                           /\ Sock(c)'.used = Sock(c).used /\ Sock(c)'.app = Sock(c).app
                           /\ Sock(c)'.entered = Sock(c).entered
  PROVE  /\ Room(v)' = Room(v) /\ Cand(v)' = Cand(v) /\ Fresh(v)' = Fresh(v)
         /\ Odd(v)' = Odd(v) /\ Gone(v)' = Gone(v)
<1>1. Places' = Places
  BY DEF Places, Conns
<1>2. QED
  BY <1>1 DEF Room, Cand, Fresh, Odd, Gone

(* FSChangeShardAns keeps Kept for every user.                             *)
LEMMA KeptFSChangeShardAns ==
  ASSUME Around, NEW f \in Fess, FSChangeShardAns(f), UNCHANGED <<dbVars, lsVars, wsVars, ssVars, latest>>,
         NEW v \in Users, Kept(v)
  PROVE  Kept(v)'
<1>1. PICK s \in Shards : s = ShardOf[f]
  BY PlacesOK
<1>2. PICK m : m = Head(net[<<s, f>>])
  OBVIOUS
<1>3. PICK u : u = m.u
  OBVIOUS
<1>4. PICK K : K = {k \in Conns : conn[f][k].u = u /\ conn[f][k].open /\ conn[f][k].entered}
  OBVIOUS
<1>5. PICK o : o = [ck |-> m.ck, f |-> m.f]
  OBVIOUS
<1>6. /\ <<s, f>> \in Links /\ Pending(s, f, "M_SC_CHANGE_SHARD_ANS") /\ Receive(s, f, Silent)
      /\ conn' = [conn EXCEPT ![f] = [k \in Conns |-> IF k \in K THEN [@[k] EXCEPT !.asked = FALSE] ELSE @[k]]]
      /\ offers' = [offers EXCEPT ![u] = IF K # {} /\ m.v = 0 THEN @ \cup {o} ELSE @]
  BY <1>1, <1>2, <1>3, <1>4, <1>5, LinksAre DEF FSChangeShardAns
<1>7. /\ <<<<s, f>>, m>> \in Flights /\ <<<<s, f>>, m>> \in Flying
      /\ m.kind = "M_SC_CHANGE_SHARD_ANS" /\ m.u \in Users /\ m \in Message
  BY <1>2, <1>6, HeadIs
<1>8. conn \in [Fess -> [Conns -> Conn]] /\ offers \in [Users -> SUBSET Offer]
  BY DEF Around, TypeOK, FSTypeOK
<1>9. SocksStay(v) => Kept(v)'
  <2>1. ASSUME SocksStay(v) PROVE Still(v) /\ changeReq'[v] = changeReq[v]
    BY <2>1, StillFS
  <2>2. QED
    BY <1>6, <2>1, UnmovedSilent
<1>10. \A g \in Fess, k \in Conns :
         conn'[g][k] = IF g = f /\ k \in K THEN [conn[g][k] EXCEPT !.asked = FALSE] ELSE conn[g][k]
  BY <1>6, <1>8
<1>11. ASSUME NEW c \in Places
       PROVE  /\ Sock(c)'.u = Sock(c).u /\ Sock(c)'.open = Sock(c).open
              /\ Sock(c)'.used = Sock(c).used /\ Sock(c)'.app = Sock(c).app
              /\ Sock(c)'.entered = Sock(c).entered
              /\ Sock(c).u # u \/ K = {} => Sock(c)'.asked = Sock(c).asked
  <2>1. c[1] \in Fess /\ c[2] \in Conns
    BY DEF Places
  <2>2. PICK r \in Conn : r = conn[c[1]][c[2]]
    BY <1>8, <2>1
  <2>3. conn'[c[1]][c[2]] = IF c[1] = f /\ c[2] \in K THEN [r EXCEPT !.asked = FALSE] ELSE r
    BY <1>10, <2>1, <2>2
  <2>4. r.u # u \/ K = {} => ~(c[1] = f /\ c[2] \in K)
    BY <1>4, <2>2
  <2>5. PICK q : q = conn'[c[1]][c[2]]
    OBVIOUS
  <2>6. /\ q.u = r.u /\ q.open = r.open /\ q.used = r.used /\ q.app = r.app /\ q.entered = r.entered
        /\ r.u # u \/ K = {} => q.asked = r.asked
    BY <2>2, <2>3, <2>4, <2>5 DEF Conn
  <2>7. QED
    BY <2>2, <2>5, <2>6 DEF Sock
<1>12. /\ Room(v)' = Room(v) /\ Cand(v)' = Cand(v) /\ Fresh(v)' = Fresh(v)
       /\ Odd(v)' = Odd(v) /\ Gone(v)' = Gone(v)
  BY <1>11, AskedApart
<1>13. CASE u # v \/ K = {}
  <2>1. Content(v)' = Content(v)
    <3>1. ASSUME NEW c \in Places PROVE c \in Content(v)' <=> c \in Content(v)
      BY <1>11, <1>13 DEF Content
    <3>2. Content(v) \subseteq Places /\ Content(v)' \subseteq Places
      BY DEF Content, Places
    <3>3. QED
      BY <3>1, <3>2
  <2>2. offers'[v] = offers[v]
    BY <1>6, <1>8, <1>13
  <2>3. SocksStay(v)
    BY <1>12, <2>1, <2>2 DEF SocksStay
  <2>4. QED
    BY <1>9, <2>3
<1>14. CASE u = v /\ K # {}
  <2>1. PICK x : x = <<<<s, f>>, m>>
    OBVIOUS
  <2>2. x \in Asking(v) /\ x \in Flights
    BY <1>3, <1>7, <1>14, <2>1 DEF Asking, AskKinds
  <2>3. AskOK(v, x)
    BY <2>2, AskHead
  <2>4. Room(v) # {}
    <3>1. PICK k \in Conns : conn[f][k].u = u /\ conn[f][k].open /\ conn[f][k].entered
      BY <1>4, <1>14
    <3>2. <<f, k>> \in Places /\ Sock(<<f, k>>) = conn[f][k]
      BY DEF Places, Sock
    <3>3. QED
      BY <1>14, <3>1, <3>2 DEF Room
  <2>5. \/ offers'[v] = offers[v]
        \/ offers'[v] = {o} /\ ShardOf[o.f] # current[v]
    <3>1. m.v = 0 => ShardOf[m.f] # current[v]
      BY <1>7, <2>1, <2>3 DEF AskOK, Answers
    <3>2. offers[v] = {}
      BY <2>3 DEF AskOK, Calls
    <3>3. o.f = m.f
      BY <1>5
    <3>4. QED
      BY <1>6, <1>8, <1>14, <3>1, <3>2, <3>3
  <2>6. NetOf(v, {x}, {})
    BY <1>2, <1>6, <2>1, ReceivedSilent
  <2>7. QED
    BY <1>12, <2>2, <2>4, <2>5, <2>6, Answered
<1>15. QED
  BY <1>13, <1>14

-----------------------------------------------------------------------------
(* The cookies that clients show.                                          *)

(* A client that has connected and not shown its cookie is on its way in.  *)
LEMMA FreshIs ==
  ASSUME NEW u, Kept(u), NEW d, d \in Fresh(u)
  PROVE  /\ Cand(u) = {d} /\ Fresh(u) = {d} /\ d \in Places /\ ShardOf[d[1]] # current[u]
         /\ offers[u] = {} /\ ~Waits(u) /\ ~Fetches(u) /\ ~Blank(u)
         /\ \A y \in Flights : y \notin Ahead(u)
         /\ \A t, g : ~Past(u, t, g)
         /\ \A t \in Shards : First(u, t) => t = ShardOf[d[1]] /\ \A r \in Shards : ~EndsOn(u, r)
         /\ \A t \in Shards : EndsOn(u, t) => current[u] # NoShard
         /\ \A n \in Logins : sock[u][n] \notin {"refused", "unused", "listed"}
<1>1. /\ FreshOK(u) /\ Leaves(u) /\ TokensOK(u) /\ Young(u)
  BY DEF Kept, Outside
<1>2. d \in Cand(u) /\ d \in Places
  BY DEF Fresh, Cand
<1>3. Cand(u) = {d}
  BY <1>1, <1>2 DEF FreshOK, IsLone
<1>4. Fresh(u) = {d}
  BY <1>3 DEF Fresh, Cand
<1>5. ShardOf[d[1]] # current[u] /\ offers[u] = {} /\ ~Waits(u) /\ ~Fetches(u)
  BY <1>1 DEF FreshOK
<1>6. ~Blank(u)
  BY <1>2 DEF Blank
<1>7. ASSUME NEW y \in Flights, y \in Ahead(u) PROVE FALSE
  BY <1>1, <1>7 DEF TokensOK, TokenOK, AskOK, ReportOK, EntryOK, Calls, Ahead
<1>8. \A t, g : ~Past(u, t, g)
  BY DEF Past, PastHere
<1>9. ASSUME NEW t \in Shards, First(u, t) PROVE t = ShardOf[d[1]] /\ \A r \in Shards : ~EndsOn(u, r)
  BY <1>2, <1>9 DEF First, FirstHere
<1>10. \A t \in Shards : EndsOn(u, t) => current[u] # NoShard
  BY <1>1, <1>2 DEF Leaves
<1>11. \A n \in Logins : sock[u][n] \notin {"refused", "unused", "listed"}
  BY <1>1, <1>6 DEF Young
<1>12. QED
  BY <1>2, <1>3, <1>4, <1>5, <1>6, <1>7, <1>8, <1>9, <1>10, <1>11

(* The client that shows a cookie next is such a one, and has no other     *)
(* session on this front end.                                              *)
LEMMA Shown ==
  ASSUME Around, \A a \in Users : Kept(a), NEW f \in Fess, events[f] # << >>,
         NEW e, e = Head(events[f]), e.ev = "validation", NEW u, u = conn[f][e.k].u
  PROVE  /\ e.k \in Conns /\ u \in Users /\ <<f, e.k>> \in Fresh(u)
         /\ assoc[f][u] \in Conns => ~conn[f][assoc[f][u]].open
<1>1. events \in [Fess -> Seq(Event)] /\ conn \in [Fess -> [Conns -> Conn]]
  BY DEF Around, TypeOK, FSTypeOK
<1>2. PICK q \in Seq(Event) : q = events[f]
  BY <1>1
<1>3. q # << >> /\ 1 \in DOMAIN q /\ e = q[1] /\ e \in Event
  BY <1>2, LenProperties, ElementOfSeq
<1>4. PICK k \in Conns : k = e.k
  BY <1>3 DEF Event
<1>5. conn[f][k] \in Conn /\ u \in Users
  BY <1>1, <1>4 DEF Conn
<1>6. PICK d : d = <<f, k>>
  OBVIOUS
<1>7. d \in Places /\ d[1] = f /\ Sock(d) = conn[f][k]
  BY <1>6 DEF Places, Sock
<1>8. conn[f][k].open
  <2>1. OpenShown
    BY DEF Around
  <2>2. QED
    BY <1>2, <1>3, <1>4, <2>1 DEF OpenShown
<1>9. ~conn[f][k].app
  <2>1. Sockets(f)
    BY DEF Around
  <2>2. QED
    BY <1>2, <1>3, <1>4, <2>1 DEF Sockets, InOrder
<1>10. Kept(u)
  BY <1>5
<1>11. ~conn[f][k].entered
  BY <1>4, <1>7, <1>8, <1>9, <1>10 DEF Kept, Inside, Odd
<1>12. d \in Fresh(u)
  BY <1>4, <1>7, <1>8, <1>9, <1>11 DEF Fresh
<1>13. Cand(u) = {d} /\ ShardOf[f] # current[u]
  BY <1>7, <1>10, <1>12, FreshIs
<1>14. ASSUME NEW c \in Places, Sock(c).u = u, Sock(c).open, Sock(c).app, c[1] = f PROVE FALSE
  <2>1. c # d
    BY <1>7, <1>9, <1>14
  <2>2. c \in Room(u)
    BY <1>13, <1>14, <2>1 DEF Room, Cand
  <2>3. current[u] = ShardOf[f]
    BY <1>10, <1>14, <2>2 DEF Kept, Inside
  <2>4. QED
    BY <1>13, <2>3
<1>15. assoc[f][u] \in Conns => ~conn[f][assoc[f][u]].open
  BY <1>5, <1>14, NothingToClose
<1>16. QED
  BY <1>4, <1>5, <1>6, <1>12, <1>15

(* Its cookie was the one announced: its connection is reported.           *)
Validates(u, d) ==
  /\ d \in Fresh(u) /\ Sock(d)' = [Sock(d) EXCEPT !.app = TRUE]
  /\ OthersStay(d) /\ offers'[u] = offers[u]
(* It was not: the connection is closed.                                   *)
Drops(u, d) ==
  /\ d \in Fresh(u) /\ Sock(d)' = [Sock(d) EXCEPT !.open = FALSE]
  /\ OthersStay(d) /\ offers'[u] = offers[u]

(* The sockets of a user that shows its cookie, accepted or not.           *)
LEMMA ShownSocks ==
  ASSUME Around, NEW u, NEW d, Validates(u, d) \/ Drops(u, d)
  PROVE  /\ Room(u)' = Room(u) /\ Fresh(u)' = Fresh(u) \ {d} /\ Content(u)' = Content(u)
         /\ Odd(u)' = Odd(u) /\ Gone(u)' = Gone(u)
         /\ Validates(u, d) => Cand(u)' = Cand(u)
         /\ Drops(u, d) => Cand(u)' = Cand(u) \ {d}
<1>1. d \in Places /\ Sock(d) \in Conn /\ Sock(d).open /\ ~Sock(d).app /\ Sock(d).u = u /\ ~Sock(d).entered
  BY PlaceTyped DEF Validates, Drops, Fresh
<1>2. /\ Sock(d)'.u = u /\ ~Sock(d)'.entered
      /\ Validates(u, d) => Sock(d)'.app /\ Sock(d)'.open
      /\ Drops(u, d) => ~Sock(d)'.app /\ ~Sock(d)'.open
  BY <1>1 DEF Conn, Validates, Drops
<1>3. ASSUME NEW c \in Places
      PROVE  /\ c \in Room(u)' <=> c \in Room(u)
             /\ c \in Fresh(u)' <=> c \in Fresh(u) \ {d}
             /\ c \in Content(u)' <=> c \in Content(u)
             /\ c \in Odd(u)' <=> c \in Odd(u)
             /\ c \in Gone(u)' <=> c \in Gone(u)
             /\ Validates(u, d) => (c \in Cand(u)' <=> c \in Cand(u))
             /\ Drops(u, d) => (c \in Cand(u)' <=> c \in Cand(u) \ {d})
  <2>1. CASE c = d
    BY <1>1, <1>2, <2>1 DEF Room, Cand, Fresh, Odd, Gone, Content
  <2>2. CASE c # d
    <3>1. Sock(c)' = Sock(c)
      BY <2>2 DEF OthersStay, Validates, Drops
    <3>2. QED
      BY <2>2, <3>1 DEF Room, Cand, Fresh, Odd, Gone, Content
  <2>3. QED
    BY <2>1, <2>2
<1>4. /\ Room(u)' \subseteq Places /\ Cand(u)' \subseteq Places /\ Fresh(u)' \subseteq Places
      /\ Odd(u)' \subseteq Places /\ Gone(u)' \subseteq Places /\ Content(u)' \subseteq Places
      /\ Room(u) \subseteq Places /\ Cand(u) \subseteq Places /\ Fresh(u) \subseteq Places
      /\ Odd(u) \subseteq Places /\ Gone(u) \subseteq Places /\ Content(u) \subseteq Places
  BY DEF Room, Cand, Fresh, Odd, Gone, Content, Places
<1>5. QED
  BY <1>3, <1>4

(* A cookie shown on a socket is reported to the WS, or the socket is      *)
(* closed; either keeps Kept.                                              *)
LEMMA ShownKept ==
  ASSUME Around, NEW u \in Users, Kept(u), NEW d, Validates(u, d) \/ Drops(u, d),
         UNCHANGED <<dbVars, lsVars, wsVars, ssVars, latest>>,
         NEW Y, NetOf(u, {}, Y),
         \A y \in Y : \/ ~Concerns(u, y)
                      \/ /\ Validates(u, d) /\ y[1] = <<d[1], ShardOf[d[1]]>> /\ y[2].u = u
                         /\ y[2].kind = "M_CLIENT_CONNECT_STATUS" /\ y[2].v = 1
  PROVE  Kept(u)'
<1>1. /\ OneEnd(u) /\ OneCopy(u) /\ Inside(u) /\ Outside(u) /\ Leaves(u)
      /\ TokensOK(u) /\ Young(u) /\ Kicked(u) /\ Stored(u)
  BY DEF Kept
<1>2. d \in Fresh(u)
  BY DEF Validates, Drops
<1>3. /\ Cand(u) = {d} /\ Fresh(u) = {d} /\ d \in Places /\ ShardOf[d[1]] # current[u]
      /\ offers[u] = {} /\ ~Waits(u) /\ ~Fetches(u) /\ ~Blank(u)
      /\ \A y \in Flights : y \notin Ahead(u)
      /\ \A t, g : ~Past(u, t, g)
      /\ \A t \in Shards : First(u, t) => t = ShardOf[d[1]] /\ \A r \in Shards : ~EndsOn(u, r)
      /\ \A t \in Shards : EndsOn(u, t) => current[u] # NoShard
      /\ \A n \in Logins : sock[u][n] \notin {"refused", "unused", "listed"}
  BY <1>2, FreshIs
<1>4. PICK f \in Fess : f = d[1]
  BY <1>3 DEF Places
<1>5. PICK s \in Shards : s = ShardOf[f]
  BY PlacesOK
<1>6. /\ LSStays(u) /\ WSStays(u) /\ LoginStays(u) /\ DataStays(u) /\ JobsOf(u, {}, {})
      /\ changeReq'[u] = changeReq[u] /\ current'[u] = current[u] /\ moving'[u] = moving[u]
      /\ infoCur'[u] = infoCur[u] /\ waiting'[u] = waiting[u] /\ tempCookie'[u] = tempCookie[u]
      /\ dbOnline'[u] = dbOnline[u] /\ abnormal'[u] = abnormal[u]
      /\ \A n \in Logins : sock'[u][n] = sock[u][n]
      /\ \A t \in Shards : wsAssoc'[t][u] = wsAssoc[t][u]
  BY FSApart
<1>7. /\ Room(u)' = Room(u) /\ Fresh(u)' = {} /\ Content(u)' = Content(u)
      /\ Odd(u)' = Odd(u) /\ Gone(u)' = Gone(u) /\ Cand(u)' \subseteq {d} /\ offers'[u] = {}
      /\ Validates(u, d) => Cand(u)' = {d}
  <2>1. /\ Room(u)' = Room(u) /\ Fresh(u)' = Fresh(u) \ {d} /\ Content(u)' = Content(u)
        /\ Odd(u)' = Odd(u) /\ Gone(u)' = Gone(u)
        /\ Validates(u, d) => Cand(u)' = Cand(u)
        /\ Drops(u, d) => Cand(u)' = Cand(u) \ {d}
    BY ShownSocks
  <2>2. Validates(u, d) \/ Drops(u, d)
    OBVIOUS
  <2>3. offers'[u] = offers[u]
    BY <2>2 DEF Validates, Drops
  <2>4. QED
    BY <1>3, <2>1, <2>2, <2>3
<1>8. s \notin Fess /\ LS \notin Fess /\ s # LS /\ s # SS /\ LS \notin Shards
  BY NodesDistinct
<1>9. ASSUME NEW y \in Y
      PROVE  /\ y \notin Reports(u, 0) /\ y \notin Copies(u) /\ y \notin Kicks(u) /\ y \notin Entry(u)
             /\ y \notin Asking(u)
             /\ y \in Ahead(u) => Validates(u, d) /\ y[1] = <<f, s>>
  <2>1. CASE ~Concerns(u, y)
    BY <2>1 DEF Concerns, Ahead
  <2>2. CASE /\ Validates(u, d) /\ y[1] = <<d[1], ShardOf[d[1]]>> /\ y[2].u = u
             /\ y[2].kind = "M_CLIENT_CONNECT_STATUS" /\ y[2].v = 1
    <3>1. y \notin Reports(u, 0)
      BY <2>2 DEF Reports
    <3>2. y \notin Copies(u) /\ y \notin Kicks(u) /\ y \notin Entry(u) /\ y \notin Asking(u)
      BY <2>2 DEF Copies, DataKinds, Kicks, Entry, Asking, AskKinds
    <3>3. QED
      BY <1>4, <1>5, <2>2, <3>1, <3>2
  <2>3. QED
    BY <1>9, <2>1, <2>2
<1>10. OneEnd(u)' /\ NoNewEnd(u)
  <2>1. \A y \in {} : y \notin EndJobs(u)
    OBVIOUS
  <2>2. QED
    BY <1>1, <1>6, <1>7, <1>9, <2>1, EndsFewer
<1>11. /\ OneCopy(u)'
       /\ \A y \in Flights' : y \in Copies(u) => y \in Flights
       /\ \A y \in JobFlights' : y \in CopyJobs(u) => y \in JobFlights
  <2>1. \A y \in {} : y \notin CopyJobs(u)
    OBVIOUS
  <2>2. QED
    BY <1>1, <1>6, <1>9, <2>1, CopiesFewer
<1>12. Stored(u)'
  BY <1>1, <1>6, <1>7, <1>11, UserTyped, StoredFewer, NullsDistinct DEF LSStays, LSKeeps
<1>13. ASSUME NEW y \in Flights', y \in Ahead(u)
       PROVE  Validates(u, d) /\ y[1] = <<f, s>> /\ y \notin Asking(u) /\ y \notin Entry(u)
  <2>1. y \in Y
    BY <1>3, <1>13 DEF NetOf, Moves
  <2>2. QED
    BY <1>9, <1>13, <2>1
<1>14. LoneIn(Ahead(u))'
  <2>1. Ahead(u)' = Ahead(u)
    BY DEF Ahead, Asking, Reports, Entry, Flying
  <2>2. QED
    BY <1>1, <1>3, <2>1 DEF NetOf, Moves, TokensOK
<1>15. \A y \in Flights' : y \in Kicks(u) => y \in Flights
  BY <1>9 DEF NetOf, Moves
<1>16. Inside(u)'
  BY <1>1, <1>6, <1>7, <1>10, InsideFewer DEF LSStays, LSKeeps
<1>17. ~Waits(u)' /\ ~Fetches(u)'
  BY <1>3, <1>6 DEF Waits, Fetches
<1>18. Outside(u)'
  BY <1>7, <1>17 DEF Outside, OffersOK, FreshOK, WaitsOK, FetchOK, IsLone
<1>19. Leaves(u)'
  <2>1. \A t \in Shards : EndsOn(u, t)' => EndsOn(u, t) /\ current'[u] # NoShard
    BY <1>3, <1>6, <1>10 DEF NoNewEnd
  <2>2. QED
    BY <1>1, <1>6, <1>7, <2>1 DEF Leaves
<1>20. Calls(u)'
  BY <1>7, <1>17 DEF Calls
<1>21. TokensOK(u)'
  <2>1. ASSUME NEW y \in Flights' PROVE TokenOK(u, y)'
    <3>1. CASE y \notin Ahead(u)
      BY <3>1 DEF TokenOK, Ahead, Asking, Reports, Entry, Flying
    <3>2. CASE y \in Ahead(u)
      <4>1. y[1][1] = f /\ y[1][2] = s /\ Cand(u)' = {d}
        BY <1>7, <1>13, <3>2
      <4>2. Reporter(y)' = f /\ Source(y)' = s
        BY <1>8, <4>1 DEF Reporter, Source
      <4>3. \A c \in Cand(u)' : c[1] = f
        BY <1>4, <4>1
      <4>4. ReportOK(u, y)'
        BY <1>3, <1>4, <1>5, <1>6, <1>20, <4>1, <4>2, <4>3 DEF ReportOK
      <4>5. y \notin Asking(u)' /\ y \notin Entry(u)'
        BY <1>13, <3>2 DEF Asking, Entry, Flying
      <4>6. QED
        BY <4>4, <4>5 DEF TokenOK
    <3>3. QED
      BY <3>1, <3>2
  <2>2. QED
    BY <1>14, <2>1 DEF TokensOK
<1>22. Young(u)'
  <2>1. \A n \in Logins : sock'[u][n] \notin {"refused", "unused", "listed"}
    BY <1>3, <1>6
  <2>2. QED
    BY <1>1, <1>6, <1>7, <1>17, <2>1 DEF Young
<1>23. NoNewDanger(u)
  BY <1>1, <1>6, <1>15, DangersFewer
<1>24. ASSUME NEW t \in Shards, First(u, t) PROVE First(u, t)'
  <2>1. t = s /\ \A r \in Shards : ~EndsOn(u, r)'
    BY <1>3, <1>4, <1>5, <1>10, <1>24 DEF NoNewEnd
  <2>2. FirstHere(u, t)'
    <3>1. /\ Room(u)' = {} /\ ~Waits(u)' /\ current'[u] \in {t, NoShard} /\ changeReq'[u] = Nowhere
          /\ \A n \in Logins : sock'[u][n] \notin {"unused", "listed"}
      BY <1>6, <1>7, <1>17, <1>24 DEF First, FirstHere
    <3>2. \A c \in Cand(u)' : ShardOf[c[1]] = t
      BY <1>4, <1>5, <1>7, <2>1
    <3>3. QED
      BY <1>7, <1>17, <2>1, <3>1, <3>2 DEF FirstHere
  <2>3. ASSUME NEW y \in Flights' PROVE FirstTok(u, t, y)'
    <3>1. CASE y \notin Ahead(u)
      BY <3>1 DEF FirstTok, Ahead, Asking, Reports, Entry, Flying
    <3>2. CASE y \in Ahead(u)
      <4>1. y[1] = <<f, s>> /\ y \notin Asking(u)' /\ y \notin Entry(u)'
        BY <1>13, <3>2 DEF Asking, Entry, Flying
      <4>2. Source(y)' = s
        BY <1>8, <4>1 DEF Source
      <4>3. QED
        BY <2>1, <4>1, <4>2 DEF FirstTok
    <3>3. QED
      BY <3>1, <3>2
  <2>4. QED
    BY <2>2, <2>3 DEF First
<1>25. DangersStay(u)
  BY <1>3, <1>24 DEF DangersStay
<1>26. KicksFirst(u)'
  <2>1. \A y \in Flights' : y \notin Entry(u)
    BY <1>13 DEF Ahead
  <2>2. QED
    BY <2>1, NoEntryFirst
<1>27. Kicked(u)'
  BY <1>1, <1>6, <1>23, <1>25, <1>26, AroundTyped, KickedFewer
<1>28. QED
  BY <1>10, <1>11, <1>12, <1>16, <1>18, <1>19, <1>21, <1>22, <1>27 DEF Kept

(* A client shows the cookie that was announced for it.                    *)
LEMMA KeptFSShardValidation ==
  ASSUME Around, NEW f \in Fess, FSShardValidation(f), UNCHANGED <<dbVars, lsVars, wsVars, ssVars, latest>>,
         NEW v \in Users, \A a \in Users : Kept(a)
  PROVE  Kept(v)'
<1>1. PICK e : e = Head(events[f])
  OBVIOUS
<1>2. PICK k : k = e.k
  OBVIOUS
<1>3. PICK u : u = conn[f][k].u
  OBVIOUS
<1>4. PICK q : q = [Msg("M_CLIENT_CONNECT_STATUS", u) EXCEPT !.v = 1, !.ck = e.ck]
  OBVIOUS
<1>5. /\ events[f] # << >> /\ e.ev = "validation" /\ [u |-> u, ck |-> e.ck] \in pending[f]
      /\ conn' = [conn EXCEPT ![f] = [Closed(f, {assoc[f][u]}) EXCEPT ![k].app = TRUE]]
      /\ Emit(f, To(ShardOf[f], q)) /\ UNCHANGED offers
  BY <1>1, <1>2, <1>3, <1>4 DEF FSShardValidation
<1>6. k \in Conns /\ u \in Users /\ <<f, k>> \in Fresh(u) /\ (assoc[f][u] \in Conns => ~conn[f][assoc[f][u]].open)
  <2>1. u = conn[f][e.k].u
    BY <1>2, <1>3
  <2>2. QED
    BY <1>1, <1>2, <1>5, <2>1, Shown
<1>7. Closed(f, {assoc[f][u]}) = conn[f]
  BY <1>6, ClosedStill
<1>8. PICK d : d = <<f, k>>
  OBVIOUS
<1>9. d \in Fresh(u) /\ d \in Places /\ d[1] = f
  BY <1>6, <1>8 DEF Places
<1>10. conn \in [Fess -> [Conns -> Conn]] /\ e.ck \in Cookie
  <2>1. FSTypeOK
    BY DEF Around, TypeOK
  <2>2. QED
    BY <1>5, <2>1 DEF FSTypeOK
<1>11. conn' = [conn EXCEPT ![f] = [conn[f] EXCEPT ![k].app = TRUE]]
  BY <1>5, <1>7
<1>12. conn'[f][k] = [conn[f][k] EXCEPT !.app = TRUE]
  BY <1>6, <1>10, <1>11
<1>13. \A g \in Fess, j \in Conns : g # d[1] \/ j # d[2] => conn'[g][j] = conn[g][j]
  BY <1>8, <1>10, <1>11
<1>14. Validates(u, d) /\ OthersStay(d)
  <2>1. OthersStay(d)
    BY <1>9, <1>13, OneSocket
  <2>2. Sock(d) = conn[f][k] /\ Sock(d)' = conn'[f][k]
    BY <1>8 DEF Sock
  <2>3. QED
    BY <1>5, <1>9, <1>12, <2>1, <2>2 DEF Validates
<1>15. q \in Message /\ q.kind = "M_CLIENT_CONNECT_STATUS" /\ q.u = u /\ q.v = 1
  <2>1. q \in Message
    BY <1>4, <1>6, <1>10, MsgTyped, NullsTyped, WSNulls DEF Kinds, Answers
  <2>2. QED
    BY <1>4, <2>1 DEF Msg
<1>16. PICK z : z = <<<<f, ShardOf[f]>>, q>>
  OBVIOUS
<1>17. z[1] = <<d[1], ShardOf[d[1]]>> /\ z[2].kind = "M_CLIENT_CONNECT_STATUS" /\ z[2].u = u /\ z[2].v = 1
  BY <1>9, <1>15, <1>16
<1>18. z \notin Kicks(v)
  BY <1>17 DEF Kicks
<1>19. NetOf(v, {}, {z}) /\ (Ordered(Entry(v), Kicks(v)) => Ordered(Entry(v), Kicks(v))')
  BY <1>5, <1>15, <1>16, <1>18, EmittedTo
<1>20. CASE u = v
  <2>1. \A y \in {z} : \/ ~Concerns(v, y)
                       \/ /\ Validates(v, d) /\ y[1] = <<d[1], ShardOf[d[1]]>> /\ y[2].u = v
                          /\ y[2].kind = "M_CLIENT_CONNECT_STATUS" /\ y[2].v = 1
    BY <1>14, <1>17, <1>20
  <2>2. Kept(v)
    OBVIOUS
  <2>3. Validates(v, d) \/ Drops(v, d)
    BY <1>14, <1>20
  <2>4. QED
    BY <1>19, <2>1, <2>2, <2>3, ShownKept
<1>21. CASE u # v
  <2>1. Sock(d).u = u /\ Sock(d)'.u = u
    BY <1>3, <1>6, <1>8, <1>10, <1>12 DEF Sock, Conn
  <2>2. SocksStay(v)
    BY <1>5, <1>9, <1>14, <1>21, <2>1, OtherSocks
  <2>3. Still(v) /\ changeReq'[v] = changeReq[v]
    BY <2>2, StillFS
  <2>4. \A y \in {z} : y[2].u # v
    BY <1>17, <1>21
  <2>5. QED
    BY <1>19, <2>3, <2>4, Unmoved
<1>22. QED
  BY <1>20, <1>21

(* A client shows another cookie.                                          *)
LEMMA KeptFSInvalidCookie ==
  ASSUME Around, NEW f \in Fess, FSInvalidCookie(f), UNCHANGED <<dbVars, lsVars, wsVars, ssVars, latest>>,
         NEW v \in Users, \A a \in Users : Kept(a)
  PROVE  Kept(v)'
<1>1. PICK e : e = Head(events[f])
  OBVIOUS
<1>2. PICK k : k = e.k
  OBVIOUS
<1>3. PICK u : u = conn[f][k].u
  OBVIOUS
<1>4. PICK j : j = assoc[f][u]
  OBVIOUS
<1>5. /\ events[f] # << >> /\ e.ev = "validation"
      /\ conn' = [conn EXCEPT ![f] = Closed(f, {j, k})]
      /\ UNCHANGED net /\ UNCHANGED offers
  BY <1>1, <1>2, <1>3, <1>4 DEF FSInvalidCookie, netVars
<1>6. k \in Conns /\ u \in Users /\ <<f, k>> \in Fresh(u) /\ (j \in Conns => ~conn[f][j].open)
  <2>1. u = conn[f][e.k].u
    BY <1>2, <1>3
  <2>2. QED
    BY <1>1, <1>2, <1>4, <1>5, <2>1, Shown
<1>8. PICK d : d = <<f, k>>
  OBVIOUS
<1>9. d \in Fresh(u) /\ d \in Places /\ d[1] = f
  BY <1>6, <1>8 DEF Places
<1>10. conn \in [Fess -> [Conns -> Conn]]
  BY DEF Around, TypeOK, FSTypeOK
<1>11. j \in Conns => [conn[f][j] EXCEPT !.open = FALSE] = conn[f][j]
  <2>1. ASSUME j \in Conns PROVE conn[f][j] \in Conn /\ conn[f][j].open = FALSE
    BY <1>6, <1>10, <2>1 DEF Conn
  <2>2. ASSUME j \in Conns PROVE [conn[f][j] EXCEPT !.open = FALSE] = conn[f][j]
    BY <2>1, <2>2 DEF Conn
  <2>3. QED
    BY <2>2
<1>12. conn'[f][k] = [conn[f][k] EXCEPT !.open = FALSE]
  BY <1>5, <1>6, <1>10 DEF Closed
<1>13. \A g \in Fess, i \in Conns : g # d[1] \/ i # d[2] => conn'[g][i] = conn[g][i]
  <2>1. ASSUME NEW i \in Conns, i # k PROVE conn'[f][i] = conn[f][i]
    <3>1. conn'[f][i] = IF i \in {j, k} THEN [conn[f][i] EXCEPT !.open = FALSE] ELSE conn[f][i]
      BY <1>5, <1>10, <2>1 DEF Closed
    <3>2. CASE i = j
      BY <1>11, <2>1, <3>1, <3>2
    <3>3. CASE i # j
      BY <2>1, <3>1, <3>3
    <3>4. QED
      BY <3>2, <3>3
  <2>2. QED
    BY <1>5, <1>8, <1>10, <2>1
<1>14. Drops(u, d) /\ OthersStay(d)
  <2>1. OthersStay(d)
    BY <1>9, <1>13, OneSocket
  <2>2. Sock(d) = conn[f][k] /\ Sock(d)' = conn'[f][k]
    BY <1>8 DEF Sock
  <2>3. QED
    BY <1>5, <1>9, <1>12, <2>1, <2>2 DEF Drops
<1>19. NetOf(v, {}, {}) /\ (Ordered(Entry(v), Kicks(v)) => Ordered(Entry(v), Kicks(v))')
  BY <1>5, NetStill
<1>20. CASE u = v
  <2>1. \A y \in {} : \/ ~Concerns(v, y)
                      \/ /\ Validates(v, d) /\ y[1] = <<d[1], ShardOf[d[1]]>> /\ y[2].u = v
                         /\ y[2].kind = "M_CLIENT_CONNECT_STATUS" /\ y[2].v = 1
    OBVIOUS
  <2>2. Kept(v)
    OBVIOUS
  <2>3. Validates(v, d) \/ Drops(v, d)
    BY <1>14, <1>20
  <2>4. QED
    BY <1>19, <2>1, <2>2, <2>3, ShownKept
<1>21. CASE u # v
  <2>1. Sock(d).u = u /\ Sock(d)'.u = u
    BY <1>3, <1>6, <1>8, <1>10, <1>12 DEF Sock, Conn
  <2>2. SocksStay(v)
    BY <1>5, <1>9, <1>14, <1>21, <2>1, OtherSocks
  <2>3. Still(v) /\ changeReq'[v] = changeReq[v]
    BY <2>2, StillFS
  <2>4. \A y \in {} : y[2].u # v
    OBVIOUS
  <2>5. QED
    BY <1>19, <2>3, <2>4, Unmoved
<1>22. QED
  BY <1>20, <1>21

(* The end of a session that its front end reports.                        *)
LEMMA EndReported ==
  ASSUME Around, NEW v \in Users, Kept(v), NEW d, d \in Gone(v), Gone(v)' \subseteq Gone(v) \ {d}, SocksStay(v),
         UNCHANGED <<dbVars, lsVars, wsVars, ssVars, latest>>,
         NEW z, z[1] = <<d[1], ShardOf[d[1]]>>, z[2].kind = "M_CLIENT_CONNECT_STATUS", z[2].v = 0,
         NetOf(v, {}, {z}), Ordered(Entry(v), Kicks(v)) /\ z \notin Kicks(v) => Ordered(Entry(v), Kicks(v))'
  PROVE  Kept(v)'
<1>1. PICK s \in Shards : s = ShardOf[d[1]]
  BY PlacesOK DEF Gone, Places
<1>2. SS \notin Shards /\ LS \notin Shards /\ LS # SS /\ SS \notin Fess /\ LS \notin Fess /\ s \notin Fess
  BY NodesDistinct
<1>3. z \notin Ahead(v) /\ z \notin Kicks(v) /\ z \notin Copies(v)
  BY DEF Ahead, Asking, AskKinds, Reports, Entry, Kicks, Copies, DataKinds
<1>4. OneEnd(v) /\ OneCopy(v) /\ Stored(v) /\ Ordered(Entry(v), Kicks(v))
  BY DEF Kept, Kicked, KicksFirst
<1>5. /\ \A y \in Flights : y \notin Reports(v, 0)
      /\ \A y \in JobFlights : y \notin EndJobs(v)
      /\ Gone(v)' = {}
  BY <1>4 DEF OneEnd, IsLone
<1>6. /\ LSStays(v) /\ WSStays(v) /\ LoginStays(v) /\ DataStays(v) /\ JobsOf(v, {}, {})
      /\ changeReq'[v] = changeReq[v]
  BY FSApart
<1>7. \A y \in JobFlights' : y \notin EndJobs(v)
  <2>1. \A y \in {} : y \notin EndJobs(v)
    OBVIOUS
  <2>2. QED
    BY <1>5, <1>6, <2>1 DEF JobsOf, JobsMove
<1>8. \A y \in Flights' : y \in Reports(v, 0) => y = z
  BY <1>5 DEF NetOf, Moves
<1>9. OneEnd(v)'
  <2>1. LoneJob(EndJobs(v))'
    <3>1. \A y \in {} : y \notin EndJobs(v)
      OBVIOUS
    <3>2. QED
      BY <1>4, <1>6, <3>1 DEF OneEnd, JobsOf, JobsMove
  <2>2. LoneIn(Reports(v, 0))'
    BY <1>4, <1>5 DEF OneEnd, NetOf, Moves
  <2>3. IsLone(Gone(v))'
    BY <1>5 DEF IsLone
  <2>4. Reports(v, 0)' = Reports(v, 0) /\ EndJobs(v)' = EndJobs(v)
    BY DEF Reports, EndJobs
  <2>5. QED
    BY <1>5, <1>7, <2>1, <2>2, <2>3, <2>4 DEF OneEnd
<1>10. NoNewEnd(v)
  <2>1. ASSUME NEW t \in Shards, EndsOn(v, t)' PROVE t = s
    <3>1. PICK y \in Flights' : y \in Reports(v, 0) /\ Source(y) = t
      BY <1>5, <1>7, <2>1 DEF EndsOn, EndJobs, Reports
    <3>2. y = z
      BY <1>8, <3>1
    <3>3. QED
      BY <1>1, <1>2, <3>1, <3>2 DEF Source
  <2>2. EndsOn(v, s)
    BY <1>1 DEF EndsOn
  <2>3. QED
    BY <2>1, <2>2 DEF NoNewEnd
<1>11. /\ OneCopy(v)'
       /\ \A y \in Flights' : y \in Copies(v) => y \in Flights
       /\ \A y \in JobFlights' : y \in CopyJobs(v) => y \in JobFlights
  <2>1. \A y \in {z} : y \notin Copies(v)
    BY <1>3
  <2>2. \A y \in {} : y \notin CopyJobs(v)
    OBVIOUS
  <2>3. QED
    BY <1>4, <1>6, <2>1, <2>2, CopiesFewer
<1>12. Stored(v)'
  BY <1>4, <1>6, <1>11, UserTyped, StoredFewer, NullsDistinct DEF SocksStay, LSStays, LSKeeps
<1>13. \A y \in {z} : y \notin Ahead(v) /\ y \notin Kicks(v)
  BY <1>3
<1>14. Ordered(Entry(v), Kicks(v))'
  BY <1>3, <1>4
<1>15. QED
  BY <1>6, <1>9, <1>10, <1>11, <1>12, <1>13, <1>14, Aside

(* A front end handles the end of a connection.                            *)
LEMMA KeptFSDisconnected ==
  ASSUME Around, NEW f \in Fess, FSDisconnected(f), UNCHANGED <<dbVars, lsVars, wsVars, ssVars, latest>>,
         NEW v \in Users, Kept(v)
  PROVE  Kept(v)'
<1>1. PICK e : e = Head(events[f])
  OBVIOUS
<1>2. PICK k : k = e.k
  OBVIOUS
<1>3. PICK u : u = conn[f][k].u
  OBVIOUS
<1>4. PICK p : p = Msg("M_CLIENT_CONNECT_STATUS", u)
  OBVIOUS
<1>5. /\ events[f] # << >> /\ e.ev = "disconnection" /\ conn' = [conn EXCEPT ![f][k] = FreeConn]
      /\ UNCHANGED offers
      /\ conn[f][k].app => Emit(f, To(ShardOf[f], p))
      /\ ~conn[f][k].app => UNCHANGED net
  BY <1>1, <1>2, <1>3, <1>4 DEF FSDisconnected, Reported
<1>6. conn \in [Fess -> [Conns -> Conn]] /\ events \in [Fess -> Seq(Event)]
  BY DEF Around, TypeOK, FSTypeOK
<1>7. k \in Conns /\ conn[f][k].used /\ ~conn[f][k].open
  <2>1. PICK q \in Seq(Event) : q = events[f]
    BY <1>6
  <2>2. q # << >> /\ 1 \in DOMAIN q /\ e = q[1] /\ e \in Event
    BY <1>1, <1>5, <2>1, LenProperties, ElementOfSeq
  <2>3. InOrder(q, conn[f])
    BY <2>1 DEF Around, Sockets
  <2>4. QED
    BY <1>2, <1>5, <2>2, <2>3 DEF InOrder, Event
<1>8. u \in Users
  BY <1>3, <1>6, <1>7 DEF Conn
<1>9. PICK d : d = <<f, k>>
  OBVIOUS
<1>10. d \in Places /\ d[1] = f /\ d[2] = k /\ Sock(d) = conn[f][k] /\ Sock(d)' = conn'[f][k]
  BY <1>7, <1>9 DEF Places, Sock
<1>11. conn'[f][k] = FreeConn /\ ~FreeConn.open /\ ~FreeConn.used
  BY <1>5, <1>6, <1>7 DEF FreeConn
<1>12. OthersStay(d)
  <2>1. \A g \in Fess, j \in Conns : g # d[1] \/ j # d[2] => conn'[g][j] = conn[g][j]
    BY <1>5, <1>6, <1>10
  <2>2. QED
    BY <1>10, <2>1, OneSocket
<1>13. SocksStay(v)
  BY <1>5, <1>7, <1>10, <1>11, <1>12, ShutSocks
<1>14. Still(v) /\ changeReq'[v] = changeReq[v]
  BY <1>13, StillFS
<1>15. CASE ~conn[f][k].app
  <2>1. NetOf(v, {}, {}) /\ (Ordered(Entry(v), Kicks(v)) => Ordered(Entry(v), Kicks(v))')
    BY <1>5, <1>15, NetStill
  <2>2. \A y \in {} : y[2].u # v
    OBVIOUS
  <2>3. QED
    BY <1>14, <2>1, <2>2, Unmoved
<1>16. CASE conn[f][k].app
  <2>1. p \in Message /\ p.u = u /\ p.kind = "M_CLIENT_CONNECT_STATUS" /\ p.v = 0
    BY <1>4, <1>8, MsgTyped, NullsTyped, WSNulls DEF Kinds, Answers, Msg
  <2>2. PICK z : z = <<<<f, ShardOf[f]>>, p>>
    OBVIOUS
  <2>3. z[1] = <<d[1], ShardOf[d[1]]>> /\ z[2].kind = "M_CLIENT_CONNECT_STATUS" /\ z[2].v = 0 /\ z[2].u = u
    BY <1>10, <2>1, <2>2
  <2>4. NetOf(v, {}, {z}) /\ (Ordered(Entry(v), Kicks(v)) /\ z \notin Kicks(v) => Ordered(Entry(v), Kicks(v))')
    BY <1>5, <1>16, <2>1, <2>2, EmittedTo
  <2>5. z \notin Kicks(v)
    BY <2>3 DEF Kicks
  <2>6. CASE u # v
    <3>1. \A y \in {z} : y[2].u # v
      BY <2>3, <2>6
    <3>2. QED
      BY <1>14, <2>4, <2>5, <3>1, Unmoved
  <2>7. CASE u = v
    <3>1. d \in Gone(v)
      BY <1>3, <1>7, <1>10, <1>16, <2>7 DEF Gone
    <3>2. d \notin Gone(v)'
      BY <1>10, <1>11 DEF Gone
    <3>3. Gone(v)' \subseteq Gone(v) \ {d}
      BY <1>13, <3>2 DEF SocksStay
    <3>4. QED
      BY <1>13, <2>3, <2>4, <3>1, <3>3, EndReported
  <2>8. QED
    BY <2>6, <2>7
<1>17. QED
  BY <1>15, <1>16

-----------------------------------------------------------------------------
(* A client connects where it has been sent to.                            *)

(* u has the address of the front end where d is, and d is free.           *)
Connects(u, d) ==
  /\ \E o \in offers[u] : o.f = d[1] /\ offers'[u] = offers[u] \ {o}
  /\ d \in Places /\ ~Sock(d).used /\ OthersStay(d)
  /\ Sock(d)'.u = u /\ Sock(d)'.open /\ ~Sock(d)'.entered /\ ~Sock(d)'.app

(* An offer is all that leads its user to a shard.                         *)
LEMMA OfferIs ==
  ASSUME Around, NEW u, Kept(u), NEW d, Connects(u, d)
  PROVE  /\ offers'[u] = {} /\ Cand(u) = {} /\ ShardOf[d[1]] # current[u]
         /\ ~Waits(u) /\ ~Fetches(u) /\ (\A t \in Shards : EndsOn(u, t) => current[u] # NoShard)
         /\ \A y \in Flights : y \notin Ahead(u)
         /\ \A t, g : ~Past(u, t, g)
         /\ \A t \in Shards : First(u, t) => t = ShardOf[d[1]] /\ \A r \in Shards : ~EndsOn(u, r)
         /\ \A n \in Logins : sock[u][n] \notin {"refused", "unused", "listed"}
<1>1. PICK o \in offers[u] : o.f = d[1] /\ offers'[u] = offers[u] \ {o}
  BY DEF Connects
<1>2. /\ OffersOK(u) /\ Leaves(u) /\ TokensOK(u) /\ Young(u)
  BY DEF Kept, Outside
<1>3. offers'[u] = {} /\ Cand(u) = {} /\ ShardOf[d[1]] # current[u] /\ ~Waits(u) /\ ~Fetches(u)
  BY <1>1, <1>2 DEF OffersOK, IsLone
<1>4. ASSUME NEW t \in Shards, EndsOn(u, t) PROVE current[u] = t /\ current[u] # NoShard
  BY <1>1, <1>2, <1>4 DEF Leaves
<1>5. ASSUME NEW y \in Flights, y \in Ahead(u) PROVE FALSE
  BY <1>1, <1>2, <1>5 DEF TokensOK, TokenOK, AskOK, ReportOK, EntryOK, Calls, Ahead
<1>6. \A t, g : ~Past(u, t, g)
  BY <1>1 DEF Past, PastHere
<1>7. ASSUME NEW t \in Shards, First(u, t) PROVE t = ShardOf[d[1]] /\ \A r \in Shards : ~EndsOn(u, r)
  <2>1. t = ShardOf[d[1]] /\ current[u] \in {t, NoShard}
    BY <1>1, <1>7 DEF First, FirstHere
  <2>2. QED
    BY <1>3, <1>4, <2>1
<1>8. \A n \in Logins : sock[u][n] \notin {"refused", "unused", "listed"}
  BY <1>1, <1>2 DEF Young, Idle, Calls
<1>9. QED
  BY <1>3, <1>4, <1>5, <1>6, <1>7, <1>8

(* Its socket is new among those of the user.                              *)
LEMMA ConnectedSocks ==
  ASSUME Around, NEW u, NEW d, Connects(u, d)
  PROVE  /\ Room(u)' = Room(u) /\ Fresh(u)' = Fresh(u) \cup {d} /\ Content(u)' = Content(u)
         /\ Odd(u)' = Odd(u) /\ Gone(u)' = Gone(u) /\ Cand(u)' = Cand(u) \cup {d}
<1>1. d \in Places /\ ~Sock(d).open /\ ~Sock(d).used
  BY PlaceTyped DEF Connects
<1>2. Sock(d)'.u = u /\ ~Sock(d)'.entered /\ ~Sock(d)'.app /\ Sock(d)'.open
  BY DEF Connects
<1>3. ASSUME NEW c \in Places
      PROVE  /\ c \in Room(u)' <=> c \in Room(u)
             /\ c \in Fresh(u)' <=> c \in Fresh(u) \cup {d}
             /\ c \in Content(u)' <=> c \in Content(u)
             /\ c \in Odd(u)' <=> c \in Odd(u)
             /\ c \in Gone(u)' <=> c \in Gone(u)
             /\ c \in Cand(u)' <=> c \in Cand(u) \cup {d}
  <2>1. CASE c = d
    BY <1>1, <1>2, <2>1 DEF Room, Cand, Fresh, Odd, Gone, Content
  <2>2. CASE c # d
    <3>1. Sock(c)' = Sock(c)
      BY <2>2 DEF OthersStay, Connects
    <3>2. QED
      BY <2>2, <3>1 DEF Room, Cand, Fresh, Odd, Gone, Content
  <2>3. QED
    BY <2>1, <2>2
<1>4. /\ Room(u)' \subseteq Places /\ Cand(u)' \subseteq Places /\ Fresh(u)' \subseteq Places
      /\ Odd(u)' \subseteq Places /\ Gone(u)' \subseteq Places /\ Content(u)' \subseteq Places
      /\ Room(u) \subseteq Places /\ Cand(u) \subseteq Places /\ Fresh(u) \subseteq Places
      /\ Odd(u) \subseteq Places /\ Gone(u) \subseteq Places /\ Content(u) \subseteq Places
  BY DEF Room, Cand, Fresh, Odd, Gone, Content, Places
<1>5. QED
  BY <1>1, <1>3, <1>4

(* A client that connects to the address it was offered has a fresh socket *)
(* in the place of the offer.                                              *)
LEMMA ConnectedKept ==
  ASSUME Around, NEW u \in Users, Kept(u), NEW d, Connects(u, d),
         UNCHANGED <<net, dbVars, lsVars, wsVars, ssVars, latest>>
  PROVE  Kept(u)'
<1>1. /\ OneEnd(u) /\ OneCopy(u) /\ Inside(u) /\ Outside(u) /\ Leaves(u)
      /\ TokensOK(u) /\ Young(u) /\ Kicked(u) /\ Stored(u)
  BY DEF Kept
<1>2. d \in Places
  BY DEF Connects
<1>3. /\ offers'[u] = {} /\ Cand(u) = {} /\ ShardOf[d[1]] # current[u]
      /\ ~Waits(u) /\ ~Fetches(u) /\ (\A t \in Shards : EndsOn(u, t) => current[u] # NoShard)
      /\ \A y \in Flights : y \notin Ahead(u)
      /\ \A t, g : ~Past(u, t, g)
      /\ \A t \in Shards : First(u, t) => t = ShardOf[d[1]] /\ \A r \in Shards : ~EndsOn(u, r)
      /\ \A n \in Logins : sock[u][n] \notin {"refused", "unused", "listed"}
  BY OfferIs
<1>4. PICK f \in Fess : f = d[1]
  BY <1>2 DEF Places
<1>5. PICK s \in Shards : s = ShardOf[f]
  BY PlacesOK
<1>6. /\ LSStays(u) /\ WSStays(u) /\ LoginStays(u) /\ DataStays(u) /\ JobsOf(u, {}, {})
      /\ changeReq'[u] = changeReq[u] /\ current'[u] = current[u] /\ moving'[u] = moving[u]
      /\ infoCur'[u] = infoCur[u] /\ waiting'[u] = waiting[u] /\ tempCookie'[u] = tempCookie[u]
      /\ \A n \in Logins : sock'[u][n] = sock[u][n]
  BY FSApart
<1>7. /\ Room(u)' = Room(u) /\ Fresh(u)' \subseteq {d} /\ Content(u)' = Content(u)
      /\ Odd(u)' = Odd(u) /\ Gone(u)' = Gone(u) /\ Cand(u)' = {d}
  <2>1. Fresh(u) \subseteq Cand(u)
    BY DEF Fresh, Cand
  <2>2. QED
    BY <1>3, <2>1, ConnectedSocks
<1>8. NetOf(u, {}, {})
  BY NetStill
<1>9. \A y \in {} : y \notin EndJobs(u) /\ y \notin CopyJobs(u) /\ y \notin Reports(u, 0) /\ y \notin Copies(u)
  OBVIOUS
<1>10. OneEnd(u)' /\ NoNewEnd(u)
  BY <1>1, <1>6, <1>7, <1>8, <1>9, EndsFewer
<1>11. /\ OneCopy(u)'
       /\ \A y \in Flights' : y \in Copies(u) => y \in Flights
       /\ \A y \in JobFlights' : y \in CopyJobs(u) => y \in JobFlights
  BY <1>1, <1>6, <1>8, <1>9, CopiesFewer
<1>12. Stored(u)'
  BY <1>1, <1>6, <1>7, <1>11, UserTyped, StoredFewer, NullsDistinct DEF LSStays, LSKeeps
<1>13. \A y \in Flights' : y \in Flights
  BY DEF Flights
<1>14. \A y \in Flights' : y \notin Ahead(u)
  BY <1>3, <1>13
<1>15. LoneIn(Ahead(u))'
  <2>1. Ahead(u)' = Ahead(u)
    BY DEF Ahead, Asking, Reports, Entry, Flying
  <2>2. QED
    BY <1>1, <2>1 DEF LoneIn, TokensOK
<1>16. Inside(u)'
  BY <1>1, <1>6, <1>7, <1>10, InsideFewer DEF LSStays, LSKeeps
<1>17. ~Waits(u)' /\ ~Fetches(u)'
  BY <1>3, <1>6 DEF Waits, Fetches
<1>18. Outside(u)'
  BY <1>3, <1>6, <1>7, <1>17 DEF Outside, OffersOK, FreshOK, WaitsOK, FetchOK, IsLone
<1>19. Leaves(u)'
  <2>1. \A t \in Shards : EndsOn(u, t)' => EndsOn(u, t) /\ current'[u] # NoShard
    BY <1>3, <1>6, <1>10 DEF NoNewEnd
  <2>2. QED
    BY <1>1, <1>6, <1>7, <2>1 DEF Leaves
<1>20. TokensOK(u)'
  BY <1>14, <1>15 DEF TokensOK, TokenOK, Ahead, Asking, Reports, Entry, Flying
<1>21. Young(u)'
  <2>1. \A n \in Logins : sock'[u][n] \notin {"refused", "unused", "listed"}
    BY <1>3, <1>6
  <2>2. QED
    BY <1>1, <1>6, <1>7, <1>17, <2>1 DEF Young
<1>22. NoNewDanger(u)
  BY <1>1, <1>6, <1>13, DangersFewer
<1>23. ASSUME NEW t \in Shards, First(u, t) PROVE First(u, t)'
  <2>1. t = s /\ \A r \in Shards : ~EndsOn(u, r)'
    BY <1>3, <1>4, <1>5, <1>10, <1>23 DEF NoNewEnd
  <2>2. FirstHere(u, t)'
    <3>1. /\ Room(u)' = {} /\ ~Waits(u)' /\ current'[u] \in {t, NoShard} /\ changeReq'[u] = Nowhere
          /\ \A n \in Logins : sock'[u][n] \notin {"unused", "listed"}
      BY <1>6, <1>7, <1>17, <1>23 DEF First, FirstHere
    <3>2. \A c \in Cand(u)' : ShardOf[c[1]] = t
      BY <1>4, <1>5, <1>7, <2>1
    <3>3. QED
      BY <1>3, <1>17, <2>1, <3>1, <3>2 DEF FirstHere
  <2>3. ASSUME NEW y \in Flights' PROVE FirstTok(u, t, y)'
    BY <1>14, <2>3 DEF FirstTok, Ahead, Asking, Reports, Entry, Flying
  <2>4. QED
    BY <2>2, <2>3 DEF First
<1>24. DangersStay(u)
  BY <1>3, <1>23 DEF DangersStay
<1>25. KicksFirst(u)'
  <2>1. \A y \in Flights' : y \notin Entry(u)
    BY <1>14 DEF Ahead
  <2>2. QED
    BY <2>1, NoEntryFirst
<1>26. Kicked(u)'
  BY <1>1, <1>6, <1>22, <1>24, <1>25, AroundTyped, KickedFewer
<1>27. QED
  BY <1>10, <1>11, <1>12, <1>16, <1>18, <1>19, <1>20, <1>21, <1>26 DEF Kept

(* ClientConnect keeps Kept for every user.                                *)
LEMMA KeptClientConnect ==
  ASSUME Around, NEW u \in Users, ClientConnect(u), UNCHANGED <<dbVars, lsVars, wsVars, ssVars, latest>>,
         NEW v \in Users, Kept(v)
  PROVE  Kept(v)'
<1>1. PICK o \in offers[u], k \in Conns :
        /\ ~conn[o.f][k].used
        /\ offers' = [offers EXCEPT ![u] = @ \ {o}]
        /\ conn' = [conn EXCEPT ![o.f][k] = [FreeConn EXCEPT !.u = u, !.used = TRUE, !.open = TRUE]]
  BY DEF ClientConnect
<1>2. UNCHANGED net
  BY DEF ClientConnect, netVars
<1>3. conn \in [Fess -> [Conns -> Conn]] /\ offers \in [Users -> SUBSET Offer]
  BY DEF Around, TypeOK, FSTypeOK
<1>4. PICK f \in Fess : f = o.f
  BY <1>3 DEF Offer
<1>5. PICK d : d = <<f, k>>
  OBVIOUS
<1>6. d \in Places /\ d[1] = f /\ d[2] = k /\ Sock(d) = conn[f][k] /\ Sock(d)' = conn'[f][k]
  BY <1>5 DEF Places, Sock
<1>7. /\ Sock(d)'.u = u /\ Sock(d)'.open /\ ~Sock(d)'.entered /\ ~Sock(d)'.app
      /\ ~Sock(d).used /\ ~Sock(d).open
  <2>1. conn'[f][k] = [FreeConn EXCEPT !.u = u, !.used = TRUE, !.open = TRUE]
    BY <1>1, <1>3, <1>4
  <2>2. ~Sock(d).used
    BY <1>1, <1>4, <1>6
  <2>3. ~Sock(d).open
    BY <1>6, <2>2, PlaceTyped
  <2>4. QED
    BY <1>6, <2>1, <2>2, <2>3 DEF FreeConn
<1>8. OthersStay(d)
  <2>1. \A g \in Fess, j \in Conns : g # d[1] \/ j # d[2] => conn'[g][j] = conn[g][j]
    BY <1>1, <1>3, <1>4, <1>6
  <2>2. QED
    BY <1>6, <2>1, OneSocket
<1>9. CASE u = v
  <2>1. o \in offers[v] /\ o.f = d[1] /\ offers'[v] = offers[v] \ {o}
    BY <1>1, <1>3, <1>4, <1>6, <1>9
  <2>2. Connects(v, d)
    BY <1>6, <1>7, <1>8, <1>9, <2>1 DEF Connects
  <2>3. QED
    BY <1>2, <2>2, ConnectedKept
<1>10. CASE u # v
  <2>1. offers'[v] = offers[v]
    BY <1>1, <1>3, <1>10
  <2>2. SocksStay(v)
    BY <1>6, <1>7, <1>8, <1>10, <2>1, OtherSocks
  <2>3. Still(v) /\ changeReq'[v] = changeReq[v]
    BY <2>2, StillFS
  <2>4. \A y \in {} : y[2].u # v
    OBVIOUS
  <2>5. NetOf(v, {}, {}) /\ (Ordered(Entry(v), Kicks(v)) => Ordered(Entry(v), Kicks(v))')
    BY <1>2, NetStill
  <2>6. QED
    BY <2>3, <2>4, <2>5, Unmoved
<1>11. QED
  BY <1>9, <1>10

-----------------------------------------------------------------------------
(* A user that plays asks for another shard.                               *)
Requests(u, d) ==
  /\ d \in Content(u) /\ Cand(u) = {} /\ offers[u] = {} /\ offers'[u] = {}
  /\ Sock(d)' = [Sock(d) EXCEPT !.asked = TRUE] /\ OthersStay(d)

(* The sockets of a user that asks for another shard: it asked.            *)
LEMMA RequestedSocks ==
  ASSUME Around, NEW d \in Places, Sock(d)' = [Sock(d) EXCEPT !.asked = TRUE], OthersStay(d), NEW v
  PROVE  /\ Room(v)' = Room(v) /\ Cand(v)' = Cand(v) /\ Fresh(v)' = Fresh(v)
         /\ Odd(v)' = Odd(v) /\ Gone(v)' = Gone(v) /\ Content(v)' = Content(v) \ {d}
<1>1. Sock(d) \in Conn
  BY PlaceTyped
<1>2. /\ Sock(d)'.u = Sock(d).u /\ Sock(d)'.open = Sock(d).open /\ Sock(d)'.used = Sock(d).used
      /\ Sock(d)'.app = Sock(d).app /\ Sock(d)'.entered = Sock(d).entered /\ Sock(d)'.asked
  BY <1>1 DEF Conn
<1>3. ASSUME NEW c \in Places
      PROVE  /\ Sock(c)'.u = Sock(c).u /\ Sock(c)'.open = Sock(c).open
             /\ Sock(c)'.used = Sock(c).used /\ Sock(c)'.app = Sock(c).app
             /\ Sock(c)'.entered = Sock(c).entered
             /\ c # d => Sock(c)'.asked = Sock(c).asked
  BY <1>2 DEF OthersStay
<1>4. /\ Room(v)' = Room(v) /\ Cand(v)' = Cand(v) /\ Fresh(v)' = Fresh(v)
      /\ Odd(v)' = Odd(v) /\ Gone(v)' = Gone(v)
  BY <1>3, AskedApart
<1>5. ASSUME NEW c \in Places PROVE c \in Content(v)' <=> c \in Content(v) \ {d}
  <2>1. CASE c = d
    BY <1>2, <2>1 DEF Content
  <2>2. CASE c # d
    BY <1>3, <2>2 DEF Content
  <2>3. QED
    BY <2>1, <2>2
<1>6. Content(v)' \subseteq Places /\ Content(v) \subseteq Places
  BY DEF Content, Places
<1>7. QED
  BY <1>4, <1>5, <1>6

(* The request for another shard is then all that is ahead of the user.    *)
LEMMA RequestedKept ==
  ASSUME Around, NEW u \in Users, Kept(u), NEW d, Requests(u, d),
         UNCHANGED <<dbVars, lsVars, wsVars, ssVars, latest>>,
         NEW z, z[1] = <<d[1], ShardOf[d[1]]>>, z[2].kind = "M_CS_CHANGE_SHARD_REQ", z[2].s \in Shards,
         NetOf(u, {}, {z})
  PROVE  Kept(u)'
<1>1. /\ OneEnd(u) /\ OneCopy(u) /\ Inside(u) /\ Outside(u) /\ Leaves(u)
      /\ TokensOK(u) /\ Young(u) /\ Kicked(u) /\ Stored(u)
  BY DEF Kept
<1>2. d \in Places /\ d \in Room(u)
  BY DEF Requests, Content, Room
<1>3. PICK f \in Fess : f = d[1]
  BY <1>2 DEF Places
<1>4. PICK s \in Shards : s = ShardOf[f]
  BY PlacesOK
<1>5. /\ current[u] = s /\ moving[u] = NoMove /\ tempCookie[u] = NoShard /\ Room(u) = {d}
      /\ \A t \in Shards : ~EndsOn(u, t)
  BY <1>1, <1>2, <1>3, <1>4 DEF Inside, IsLone
<1>6. Cand(u) = {} /\ Fresh(u) = {} /\ Content(u) # {} /\ Content(u) \subseteq {d} /\ offers[u] = {} /\ offers'[u] = {}
  <2>1. Content(u) \subseteq Room(u) /\ Fresh(u) \subseteq Cand(u)
    BY DEF Content, Room, Fresh, Cand
  <2>2. QED
    BY <1>5, <2>1 DEF Requests
<1>7. ~Waits(u) /\ ~Fetches(u)
  BY <1>1, <1>2, <1>5, <1>6 DEF Outside, WaitsOK, Fetches, NoMove
<1>8. ASSUME NEW y \in Flights, y \in Ahead(u) PROVE FALSE
  BY <1>1, <1>2, <1>6, <1>8 DEF TokensOK, TokenOK, AskOK, ReportOK, EntryOK, Ahead
<1>9. /\ LSStays(u) /\ WSStays(u) /\ LoginStays(u) /\ DataStays(u) /\ JobsOf(u, {}, {})
      /\ changeReq'[u] = changeReq[u] /\ current'[u] = current[u] /\ moving'[u] = moving[u]
      /\ infoCur'[u] = infoCur[u] /\ waiting'[u] = waiting[u] /\ tempCookie'[u] = tempCookie[u]
      /\ \A n \in Logins : sock'[u][n] = sock[u][n]
  BY FSApart
<1>10. /\ Room(u)' = {d} /\ Fresh(u)' = {} /\ Content(u)' = {}
       /\ Odd(u)' = Odd(u) /\ Gone(u)' = Gone(u) /\ Cand(u)' = {}
  <2>1. Sock(d)' = [Sock(d) EXCEPT !.asked = TRUE] /\ OthersStay(d)
    BY DEF Requests
  <2>2. QED
    BY <1>2, <1>5, <1>6, <2>1, RequestedSocks
<1>11. z \notin Reports(u, 0) /\ z \notin Copies(u) /\ z \notin Kicks(u) /\ z \notin Reports(u, 1) /\ z \notin Entry(u)
  BY DEF Reports, Copies, DataKinds, Kicks, Entry
<1>12. \A y \in {} : y \notin EndJobs(u) /\ y \notin CopyJobs(u)
  OBVIOUS
<1>13. OneEnd(u)' /\ NoNewEnd(u)
  <2>1. \A y \in {z} : y \notin Reports(u, 0)
    BY <1>11
  <2>2. QED
    BY <1>1, <1>9, <1>10, <1>12, <2>1, EndsFewer
<1>14. /\ OneCopy(u)'
       /\ \A y \in Flights' : y \in Copies(u) => y \in Flights
       /\ \A y \in JobFlights' : y \in CopyJobs(u) => y \in JobFlights
  <2>1. \A y \in {z} : y \notin Copies(u)
    BY <1>11
  <2>2. QED
    BY <1>1, <1>9, <1>12, <2>1, CopiesFewer
<1>15. Stored(u)'
  BY <1>1, <1>5, <1>9, <1>10, <1>14, UserTyped, StoredFewer, NullsDistinct DEF LSStays, LSKeeps
<1>16. \A y \in Flights' : y \in Kicks(u) => y \in Flights
  BY <1>11 DEF NetOf, Moves
<1>17. \A y \in Flights' : y \in Ahead(u) => y = z
  BY <1>8 DEF NetOf, Moves
<1>18. LoneIn(Ahead(u))'
  <2>1. Ahead(u)' = Ahead(u)
    BY DEF Ahead, Asking, Reports, Entry, Flying
  <2>2. QED
    BY <1>1, <1>8, <2>1 DEF NetOf, Moves, TokensOK
<1>19. Inside(u)'
  BY <1>1, <1>5, <1>9, <1>10, <1>13, InsideFewer DEF LSStays, LSKeeps
<1>20. ~Waits(u)' /\ ~Fetches(u)' /\ Calls(u)'
  BY <1>6, <1>7, <1>9, <1>10 DEF Waits, Fetches, Calls
<1>21. Outside(u)'
  BY <1>6, <1>10, <1>20 DEF Outside, OffersOK, FreshOK, WaitsOK, FetchOK, IsLone
<1>22. \A t \in Shards : ~EndsOn(u, t)'
  BY <1>5, <1>13 DEF NoNewEnd
<1>23. Leaves(u)'
  BY <1>22 DEF Leaves
<1>24. s \notin Fess /\ LS \notin Fess /\ s # LS /\ s # SS /\ LS \notin Shards /\ SS \notin Fess
  BY NodesDistinct
<1>25. TokensOK(u)'
  <2>1. z[1][1] = f /\ z[1][2] = s /\ z[1] # <<SS, LS>> /\ z[1] # <<LS, SS>>
    BY <1>3, <1>4, <1>24
  <2>2. AskOK(u, z)'
    BY <1>3, <1>4, <1>5, <1>9, <1>10, <1>20, <1>24, <2>1 DEF AskOK, Answers
  <2>3. z \notin Reports(u, 1)' /\ z \notin Entry(u)'
    BY <1>11 DEF Reports, Entry, Flying
  <2>4. TokenOK(u, z)'
    BY <2>2, <2>3 DEF TokenOK
  <2>5. ASSUME NEW y \in Flights' PROVE TokenOK(u, y)'
    <3>1. CASE y \in Ahead(u)
      BY <1>17, <2>4, <2>5, <3>1
    <3>2. CASE y \notin Ahead(u)
      BY <3>2 DEF TokenOK, Ahead, Asking, Reports, Entry, Flying
    <3>3. QED
      BY <3>1, <3>2
  <2>6. QED
    BY <1>18, <2>5 DEF TokensOK
<1>26. Young(u)'
  <2>1. \A n \in Logins : sock'[u][n] \notin {"refused", "unused", "listed"}
    BY <1>1, <1>2, <1>9 DEF Young, Blank
  <2>2. tempCookie'[u] = NoShard
    BY <1>5, <1>9
  <2>3. QED
    BY <2>1, <2>2 DEF Young
<1>27. KicksFirst(u)'
  <2>1. \A y \in Flights' : y \notin Entry(u)
    BY <1>11, <1>17 DEF Ahead
  <2>2. QED
    BY <2>1, NoEntryFirst
<1>28. Kicked(u)'
  <2>1. \A t \in Shards : ~First(u, t)
    BY <1>2 DEF First, FirstHere
  <2>2. QED
    BY <1>1, <1>9, <1>16, <1>27, <2>1, NoFirst
<1>29. QED
  BY <1>13, <1>14, <1>15, <1>19, <1>21, <1>23, <1>25, <1>26, <1>28 DEF Kept

(* FSChangeShardReq keeps Kept for every user.                             *)
LEMMA KeptFSChangeShardReq ==
  ASSUME Around, NEW f \in Fess, NEW k \in Conns, FSChangeShardReq(f, k),
         UNCHANGED <<dbVars, lsVars, wsVars, ssVars, latest>>, NEW v \in Users, Kept(v)
  PROVE  Kept(v)'
<1>1. PICK u : u = conn[f][k].u
  OBVIOUS
<1>2. ClientsWait = TRUE
  BY DEF Around, Settings
<1>3. /\ conn[f][k].open /\ conn[f][k].entered /\ ~Leaving(u)
      /\ conn' = [conn EXCEPT ![f][k].asked = TRUE] /\ UNCHANGED offers
  BY <1>1, <1>2 DEF FSChangeShardReq
<1>4. PICK t \in Shards : Emit(f, To(ShardOf[f], [Msg("M_CS_CHANGE_SHARD_REQ", u) EXCEPT !.s = t]))
  BY <1>1 DEF FSChangeShardReq
<1>5. PICK p : p = [Msg("M_CS_CHANGE_SHARD_REQ", u) EXCEPT !.s = t]
  OBVIOUS
<1>6. conn \in [Fess -> [Conns -> Conn]] /\ offers \in [Users -> SUBSET Offer]
  BY DEF Around, TypeOK, FSTypeOK
<1>7. u \in Users
  BY <1>1, <1>6 DEF Conn
<1>8. p \in Message /\ p.u = u /\ p.kind = "M_CS_CHANGE_SHARD_REQ" /\ p.s = t
  <2>1. p \in Message
    BY <1>5, <1>7, MsgTyped, NullsTyped, WSNulls DEF Kinds, Answers, ShardOrNone
  <2>2. QED
    BY <1>5, <2>1 DEF Msg
<1>9. PICK z : z = <<<<f, ShardOf[f]>>, p>>
  OBVIOUS
<1>10. PICK d : d = <<f, k>>
  OBVIOUS
<1>11. d \in Places /\ d[1] = f /\ d[2] = k /\ Sock(d) = conn[f][k] /\ Sock(d)' = conn'[f][k]
  BY <1>10 DEF Places, Sock
<1>12. z[1] = <<d[1], ShardOf[d[1]]>> /\ z[2].kind = "M_CS_CHANGE_SHARD_REQ" /\ z[2].u = u /\ z[2].s \in Shards
  BY <1>8, <1>9, <1>11
<1>13. z \notin Kicks(v)
  BY <1>12 DEF Kicks
<1>14. NetOf(v, {}, {z}) /\ (Ordered(Entry(v), Kicks(v)) => Ordered(Entry(v), Kicks(v))')
  BY <1>4, <1>5, <1>8, <1>9, <1>13, EmittedTo
<1>15. Sock(d)' = [Sock(d) EXCEPT !.asked = TRUE]
  BY <1>3, <1>6, <1>11
<1>16. OthersStay(d)
  <2>1. \A g \in Fess, j \in Conns : g # d[1] \/ j # d[2] => conn'[g][j] = conn[g][j]
    BY <1>3, <1>6, <1>11
  <2>2. QED
    BY <1>11, <2>1, OneSocket
<1>17. CASE u = v
  <2>1. offers[v] = {} /\ \A g \in Fess, j \in Conns :
          conn[g][j].u = v /\ conn[g][j].open => conn[g][j].entered /\ ~conn[g][j].asked
    BY <1>3, <1>17 DEF Leaving
  <2>2. Cand(v) = {} /\ d \in Content(v)
    BY <1>1, <1>3, <1>11, <1>17, <2>1 DEF Cand, Content, Places, Sock
  <2>3. offers'[v] = {}
    BY <1>3, <2>1
  <2>4. Requests(v, d)
    BY <1>15, <1>16, <2>1, <2>2, <2>3 DEF Requests
  <2>5. QED
    BY <1>12, <1>14, <2>4, RequestedKept
<1>18. CASE u # v
  <2>1. Sock(d).u = u /\ Sock(d)'.u = u
    BY <1>1, <1>6, <1>11, <1>15 DEF Conn
  <2>2. SocksStay(v)
    BY <1>3, <1>11, <1>16, <1>18, <2>1, OtherSocks
  <2>3. Still(v) /\ changeReq'[v] = changeReq[v]
    BY <2>2, StillFS
  <2>4. \A y \in {z} : y[2].u # v
    BY <1>12, <1>18
  <2>5. QED
    BY <1>14, <2>3, <2>4, Unmoved
<1>19. QED
  BY <1>17, <1>18

-----------------------------------------------------------------------------
(* The login service of the clients.                                       *)

(* Nothing the other services know of u changes.                           *)
LEMMA SSApart ==
  ASSUME UNCHANGED <<dbVars, lsVars, wsVars, conn, latest>>, NEW u
  PROVE  /\ LSStays(u) /\ WSStays(u) /\ DataStays(u) /\ JobsOf(u, {}, {})
         /\ changeReq'[u] = changeReq[u] /\ current'[u] = current[u] /\ moving'[u] = moving[u]
         /\ infoCur'[u] = infoCur[u] /\ waiting'[u] = waiting[u] /\ tempCookie'[u] = tempCookie[u]
         /\ Room(u)' = Room(u) /\ Cand(u)' = Cand(u) /\ Fresh(u)' = Fresh(u)
         /\ Content(u)' = Content(u) /\ Odd(u)' = Odd(u) /\ Gone(u)' = Gone(u)
         /\ \A s \in Shards : wsAssoc'[s][u] = wsAssoc[s][u]
<1>1. LSStays(u) /\ changeReq'[u] = changeReq[u]
  BY LSQuiet
<1>2. WSStays(u) /\ DataStays(u) /\ JobsOf(u, {}, {})
  BY WSQuiet
<1>3. /\ current'[u] = current[u] /\ moving'[u] = moving[u]
      /\ infoCur'[u] = infoCur[u] /\ waiting'[u] = waiting[u] /\ tempCookie'[u] = tempCookie[u]
      /\ \A s \in Shards : wsAssoc'[s][u] = wsAssoc[s][u]
  BY DEF lsVars, wsVars
<1>4. /\ Room(u)' = Room(u) /\ Cand(u)' = Cand(u) /\ Fresh(u)' = Fresh(u)
      /\ Content(u)' = Content(u) /\ Odd(u)' = Odd(u) /\ Gone(u)' = Gone(u)
  BY DEF Room, Cand, Fresh, Content, Odd, Gone, Sock
<1>5. QED
  BY <1>1, <1>2, <1>3, <1>4

(* A login that has led nowhere asks for something: z.                     *)
LEMMA Starts ==
  ASSUME Around, NEW u \in Users, Kept(u), Blank(u), Idle(u),
         \E n \in Logins : sock[u][n] \in {"unused", "listed"},
         \A n \in Logins : sock'[u][n] \notin {"refused", "unused", "listed"},
         UNCHANGED <<dbVars, lsVars, wsVars, fsVars, latest>>,
         NEW z, z[1] = <<SS, LS>>, z[2].kind \in {"M_SC_SHARDS", "M_ENTER_SHARD_REQUEST"}, z[2].u = u,
         z[2].kind = "M_ENTER_SHARD_REQUEST" => z[2].s \in Shards,
         NetOf(u, {}, {z})
  PROVE  Kept(u)'
<1>1. /\ OneEnd(u) /\ OneCopy(u) /\ Inside(u) /\ Outside(u) /\ Leaves(u)
      /\ TokensOK(u) /\ Young(u) /\ Kicked(u) /\ Stored(u)
  BY DEF Kept
<1>2. /\ LSStays(u) /\ WSStays(u) /\ DataStays(u) /\ JobsOf(u, {}, {})
      /\ changeReq'[u] = changeReq[u] /\ current'[u] = current[u] /\ moving'[u] = moving[u]
      /\ infoCur'[u] = infoCur[u] /\ waiting'[u] = waiting[u] /\ tempCookie'[u] = tempCookie[u]
      /\ Room(u)' = Room(u) /\ Cand(u)' = Cand(u) /\ Fresh(u)' = Fresh(u)
      /\ Content(u)' = Content(u) /\ Odd(u)' = Odd(u) /\ Gone(u)' = Gone(u) /\ offers'[u] = offers[u]
  <2>1. UNCHANGED conn /\ UNCHANGED offers
    BY DEF fsVars
  <2>2. QED
    BY <2>1, SSApart
<1>3. z \notin Reports(u, 0) /\ z \notin Copies(u) /\ z \notin Kicks(u) /\ z \notin Reports(u, 1) /\ z \notin Entry(u)
  BY DEF Reports, Copies, DataKinds, Kicks, Entry
<1>4. \A y \in {} : y \notin EndJobs(u) /\ y \notin CopyJobs(u)
  OBVIOUS
<1>5. OneEnd(u)' /\ NoNewEnd(u)
  <2>1. \A y \in {z} : y \notin Reports(u, 0)
    BY <1>3
  <2>2. QED
    BY <1>1, <1>2, <1>4, <2>1, EndsFewer
<1>6. /\ OneCopy(u)'
      /\ \A y \in Flights' : y \in Copies(u) => y \in Flights
      /\ \A y \in JobFlights' : y \in CopyJobs(u) => y \in JobFlights
  <2>1. \A y \in {z} : y \notin Copies(u)
    BY <1>3
  <2>2. QED
    BY <1>1, <1>2, <1>4, <2>1, CopiesFewer
<1>7. Stored(u)'
  BY <1>1, <1>2, <1>6, UserTyped, StoredFewer, NullsDistinct DEF LSStays, LSKeeps
<1>8. \A y \in Flights' : y \in Kicks(u) => y \in Flights
  BY <1>3 DEF NetOf, Moves
<1>9. \A y \in Flights' : y \in Ahead(u) => y = z
  BY DEF NetOf, Moves, Idle
<1>10. LoneIn(Ahead(u))'
  <2>1. Ahead(u)' = Ahead(u)
    BY DEF Ahead, Asking, Reports, Entry, Flying
  <2>2. QED
    BY <1>1, <2>1 DEF NetOf, Moves, TokensOK, Idle
<1>11. Inside(u)'
  BY <1>1, <1>2, <1>5, InsideFewer DEF LSStays, LSKeeps
<1>12. Outside(u)'
  BY <1>1, <1>2, <1>5, OutsideFewer DEF LSStays
<1>13. \A t \in Shards : ~EndsOn(u, t)'
  BY <1>5 DEF NoNewEnd, Blank
<1>14. Leaves(u)'
  BY <1>13 DEF Leaves
<1>15. Blank(u)'
  BY <1>2, <1>5, BlankStays DEF LSStays
<1>16. Calls(u)'
  BY <1>2, CallsStays DEF Idle, LSStays
<1>17. LS # SS /\ LS \notin Fess
  BY NodesDistinct
<1>18. TokensOK(u)'
  <2>1. Cand(u)' = {} /\ Room(u)' = {} /\ Content(u)' = {}
    BY <1>2 DEF Blank, Content, Room
  <2>2. AskOK(u, z)'
    BY <1>15, <1>16, <1>17, <2>1 DEF AskOK, Answers
  <2>3. z \notin Reports(u, 1)' /\ z \notin Entry(u)'
    BY <1>3 DEF Reports, Entry, Flying
  <2>4. TokenOK(u, z)'
    BY <2>2, <2>3 DEF TokenOK
  <2>5. ASSUME NEW y \in Flights' PROVE TokenOK(u, y)'
    <3>1. CASE y \in Ahead(u)
      BY <1>9, <2>4, <2>5, <3>1
    <3>2. CASE y \notin Ahead(u)
      BY <3>2 DEF TokenOK, Ahead, Asking, Reports, Entry, Flying
    <3>3. QED
      BY <3>1, <3>2
  <2>6. QED
    BY <1>10, <2>5 DEF TokensOK
<1>19. Young(u)'
  BY <1>1, <1>2 DEF Young, Waits, Fetches
<1>20. KicksFirst(u)'
  <2>1. \A y \in Flights' : y \notin Entry(u)
    BY <1>3, <1>9 DEF Ahead
  <2>2. QED
    BY <2>1, NoEntryFirst
<1>21. Kicked(u)'
  <2>1. \A t \in Shards : ~First(u, t)
    BY DEF First, FirstHere
  <2>2. QED
    BY <1>1, <1>2, <1>8, <1>20, <2>1, NoFirst
<1>22. QED
  BY <1>5, <1>6, <1>7, <1>11, <1>12, <1>14, <1>18, <1>19, <1>21 DEF Kept

(* There is one login.                                                     *)
LEMMA OneLogin ==
  ASSUME Around
  PROVE  Logins = {1} /\ sock \in [Users -> [Logins -> SockState]] /\ onlineStatus \in [Users -> BOOLEAN]
<1>1. 1..1 = {1}
  OBVIOUS
<1>2. MaxLogins = 1
  BY DEF Around, Settings
<1>3. SSTypeOK
  BY DEF Around, TypeOK
<1>4. QED
  BY <1>1, <1>2, <1>3 DEF Logins, SSTypeOK

(* SSUserAuth keeps Kept for every user.                                   *)
LEMMA KeptSSUserAuth ==
  ASSUME Around, NEW u \in Users, SSUserAuth(u), UNCHANGED <<dbVars, lsVars, wsVars, fsVars, latest>>,
         NEW v \in Users, Kept(v)
  PROVE  Kept(v)'
<1>1. PICK n \in Logins : sock[u][n] = "unused" /\ sock' = [sock EXCEPT ![u][n] = "accepted"]
  BY DEF SSUserAuth, NextLogin
<1>2. PICK p : p = Msg("M_SC_SHARDS", u)
  OBVIOUS
<1>3. Emit(SS, To(LS, p)) /\ onlineStatus' = [onlineStatus EXCEPT ![u] = TRUE]
  BY <1>2 DEF SSUserAuth, ToLS
<1>4. p \in Message /\ p.u = u /\ p.kind = "M_SC_SHARDS"
  BY <1>2, MsgTyped, NullsTyped, WSNulls DEF Kinds, Answers, Msg
<1>5. PICK z : z = <<<<SS, LS>>, p>>
  OBVIOUS
<1>6. z[1] = <<SS, LS>> /\ z[2].kind = "M_SC_SHARDS" /\ z[2].u = u
  BY <1>4, <1>5
<1>7. z \notin Kicks(v)
  BY <1>6 DEF Kicks
<1>8. NetOf(v, {}, {z}) /\ (Ordered(Entry(v), Kicks(v)) => Ordered(Entry(v), Kicks(v))')
  BY <1>3, <1>4, <1>5, <1>7, EmittedTo
<1>9. Logins = {1} /\ sock \in [Users -> [Logins -> SockState]] /\ onlineStatus \in [Users -> BOOLEAN]
  BY OneLogin
<1>10. CASE u = v
  <2>1. Blank(v) /\ Idle(v)
    BY <1>1, <1>10 DEF Kept, Young
  <2>2. \A i \in Logins : sock'[v][i] = "accepted"
    BY <1>1, <1>9, <1>10
  <2>3. \E i \in Logins : sock[v][i] \in {"unused", "listed"}
    BY <1>1, <1>10
  <2>4. QED
    BY <1>6, <1>8, <1>10, <2>1, <2>2, <2>3, Starts
<1>11. CASE u # v
  <2>1. LoginStays(v)
    BY <1>1, <1>3, <1>9, <1>11 DEF LoginStays
  <2>2. Still(v) /\ changeReq'[v] = changeReq[v]
    BY <2>1, StillSS
  <2>3. \A y \in {z} : y[2].u # v
    BY <1>6, <1>11
  <2>4. QED
    BY <1>8, <2>2, <2>3, Unmoved
<1>12. QED
  BY <1>10, <1>11

(* SSUserChooseShard keeps Kept for every user.                            *)
LEMMA KeptSSUserChooseShard ==
  ASSUME Around, NEW u \in Users, NEW n \in Logins, SSUserChooseShard(u, n),
         UNCHANGED <<dbVars, lsVars, wsVars, fsVars, latest>>, NEW v \in Users, Kept(v)
  PROVE  Kept(v)'
<1>0. ClientsWait = TRUE
  BY DEF Around, Settings
<1>1. sock[u][n] = "listed" /\ sock' = [sock EXCEPT ![u][n] = "chosen"] /\ UNCHANGED onlineStatus
  BY <1>0 DEF SSUserChooseShard
<1>2. PICK s \in Shards : Emit(SS, To(LS, [Msg("M_ENTER_SHARD_REQUEST", u) EXCEPT !.s = s, !.v = n]))
  BY DEF SSUserChooseShard
<1>3. PICK p : p = [Msg("M_ENTER_SHARD_REQUEST", u) EXCEPT !.s = s, !.v = n]
  OBVIOUS
<1>4. p \in Message /\ p.u = u /\ p.kind = "M_ENTER_SHARD_REQUEST" /\ p.s = s
  <2>1. n \in Nat
    BY DEF Logins
  <2>2. p \in Message
    BY <1>3, <2>1, MsgTyped, NullsTyped, WSNulls DEF Kinds, Answers, ShardOrNone
  <2>3. QED
    BY <1>3, <2>2 DEF Msg
<1>5. PICK z : z = <<<<SS, LS>>, p>>
  OBVIOUS
<1>6. z[1] = <<SS, LS>> /\ z[2].kind = "M_ENTER_SHARD_REQUEST" /\ z[2].u = u /\ z[2].s \in Shards
  BY <1>4, <1>5
<1>7. z \notin Kicks(v)
  BY <1>6 DEF Kicks
<1>8. NetOf(v, {}, {z}) /\ (Ordered(Entry(v), Kicks(v)) => Ordered(Entry(v), Kicks(v))')
  BY <1>2, <1>3, <1>4, <1>5, <1>7, EmittedTo
<1>9. Logins = {1} /\ sock \in [Users -> [Logins -> SockState]] /\ onlineStatus \in [Users -> BOOLEAN]
  BY OneLogin
<1>10. CASE u = v
  <2>1. Blank(v) /\ Idle(v)
    BY <1>1, <1>10 DEF Kept, Young
  <2>2. \A i \in Logins : sock'[v][i] = "chosen"
    BY <1>1, <1>9, <1>10
  <2>3. \E i \in Logins : sock[v][i] \in {"unused", "listed"}
    BY <1>1, <1>10
  <2>4. QED
    BY <1>6, <1>8, <1>10, <2>1, <2>2, <2>3, Starts
<1>11. CASE u # v
  <2>1. LoginStays(v)
    BY <1>1, <1>9, <1>11 DEF LoginStays
  <2>2. Still(v) /\ changeReq'[v] = changeReq[v]
    BY <2>1, StillSS
  <2>3. \A y \in {z} : y[2].u # v
    BY <1>6, <1>11
  <2>4. QED
    BY <1>8, <2>2, <2>3, Unmoved
<1>12. QED
  BY <1>10, <1>11

(* What is told to the login of a user that is nowhere comes alone.        *)
LEMMA ToldAlone ==
  ASSUME Around, NEW u \in Users, Kept(u), NEW x \in Flights, x \in Asking(u), x[1] = <<LS, SS>>,
         UNCHANGED <<dbVars, lsVars, wsVars, conn, latest>>, NetOf(u, {x}, {})
  PROVE  /\ Blank(u) /\ Blank(u)' /\ Calls(u) /\ AskOK(u, x)
         /\ OneEnd(u)' /\ NoNewEnd(u) /\ OneCopy(u)' /\ Stored(u)' /\ Inside(u)' /\ Leaves(u)' /\ TokensOK(u)'
         /\ \A y \in Flights' : y \notin Ahead(u)
         /\ \A y \in Flights' : y \in Kicks(u) => y \in Flights
         /\ KicksFirst(u)' /\ \A t, f : ~Past(u, t, f)
         /\ \A n \in Logins : sock[u][n] \notin {"refused", "unused", "listed"}
         /\ \A t \in Shards : First(u, t) =>
              x[2].kind = "M_ENTER_SHARD_ANSWER" /\ x[2].v = 0 /\ ShardOf[x[2].f] = t
<1>1. /\ OneEnd(u) /\ OneCopy(u) /\ Inside(u) /\ Leaves(u)
      /\ TokensOK(u) /\ Young(u) /\ Stored(u)
  BY DEF Kept
<1>2. /\ LSStays(u) /\ WSStays(u) /\ DataStays(u) /\ JobsOf(u, {}, {})
      /\ changeReq'[u] = changeReq[u] /\ current'[u] = current[u] /\ moving'[u] = moving[u]
      /\ infoCur'[u] = infoCur[u] /\ waiting'[u] = waiting[u] /\ tempCookie'[u] = tempCookie[u]
      /\ Room(u)' = Room(u) /\ Cand(u)' = Cand(u) /\ Fresh(u)' = Fresh(u)
      /\ Content(u)' = Content(u) /\ Odd(u)' = Odd(u) /\ Gone(u)' = Gone(u)
  BY SSApart
<1>3. /\ AskOK(u, x) /\ x \in Ahead(u)
      /\ \A s \in Shards : First(u, s) => FirstTok(u, s, x)
  BY AskHead
<1>4. Blank(u) /\ Calls(u)
  BY <1>3 DEF AskOK
<1>5. \A y \in {} : y \notin EndJobs(u) /\ y \notin CopyJobs(u) /\ y \notin Reports(u, 0) /\ y \notin Copies(u) /\ y \notin Kicks(u)
  OBVIOUS
<1>6. OneEnd(u)' /\ NoNewEnd(u)
  BY <1>1, <1>2, <1>5, EndsFewer
<1>7. /\ OneCopy(u)'
      /\ \A y \in Flights' : y \in Copies(u) => y \in Flights
      /\ \A y \in JobFlights' : y \in CopyJobs(u) => y \in JobFlights
  BY <1>1, <1>2, <1>5, CopiesFewer
<1>8. Stored(u)'
  BY <1>1, <1>2, <1>7, UserTyped, StoredFewer, NullsDistinct DEF LSStays, LSKeeps
<1>9. \A y \in Flights' : y \in Kicks(u) => y \in Flights
  BY <1>5 DEF NetOf, Moves
<1>10. \A y \in Flights' : y \notin Ahead(u)
  <2>1. \E y \in {x} : y \in Ahead(u)
    BY <1>3
  <2>2. QED
    BY <1>1, <2>1 DEF NetOf, Moves, TokensOK
<1>11. LoneIn(Ahead(u))'
  <2>1. Ahead(u)' = Ahead(u)
    BY DEF Ahead, Asking, Reports, Entry, Flying
  <2>2. \E y \in {x} : y \in Ahead(u)
    BY <1>3
  <2>3. QED
    BY <1>1, <2>1, <2>2 DEF NetOf, Moves, TokensOK
<1>12. Inside(u)'
  BY <1>1, <1>2, <1>6, InsideFewer DEF LSStays, LSKeeps
<1>13. Blank(u)'
  BY <1>2, <1>4, <1>6, BlankStays DEF LSStays
<1>14. Leaves(u)'
  BY <1>13 DEF Leaves, Blank
<1>15. TokensOK(u)'
  BY <1>10, <1>11 DEF TokensOK, TokenOK, Ahead, Asking, Reports, Entry, Flying
<1>16. KicksFirst(u)'
  <2>1. \A y \in Flights' : y \notin Entry(u)
    BY <1>10 DEF Ahead
  <2>2. QED
    BY <2>1, NoEntryFirst
<1>17. \A t, f : ~Past(u, t, f)
  BY DEF Past, PastTok
<1>18. \A n \in Logins : sock[u][n] \notin {"refused", "unused", "listed"}
  BY <1>1, <1>3, Chosen
<1>19. SS \notin Shards /\ LS \notin Shards /\ LS # SS /\ SS \notin Fess
  BY NodesDistinct
<1>20. \A t \in Shards : First(u, t) =>
         x[2].kind = "M_ENTER_SHARD_ANSWER" /\ x[2].v = 0 /\ ShardOf[x[2].f] = t
  BY <1>3, <1>19 DEF FirstTok
<1>21. QED
  BY <1>3, <1>4, <1>6, <1>7, <1>8, <1>9, <1>10, <1>12, <1>13, <1>14, <1>15, <1>16, <1>17, <1>18, <1>20

(* It may choose a shard again.                                            *)
LEMMA Relisted ==
  ASSUME Around, NEW u \in Users, Kept(u), NEW x \in Flights, x \in Asking(u), x[1] = <<LS, SS>>,
         \A t \in Shards : ~First(u, t), \A n \in Logins : sock'[u][n] \in {sock[u][n], "listed"},
         UNCHANGED <<dbVars, lsVars, wsVars, conn, offers, latest>>, NetOf(u, {x}, {})
  PROVE  Kept(u)'
<1>1. Outside(u) /\ Young(u) /\ Kicked(u)
  BY DEF Kept
<1>2. /\ LSStays(u) /\ current'[u] = current[u] /\ moving'[u] = moving[u]
      /\ waiting'[u] = waiting[u] /\ tempCookie'[u] = tempCookie[u]
      /\ Room(u)' = Room(u) /\ Cand(u)' = Cand(u) /\ Fresh(u)' = Fresh(u) /\ offers'[u] = offers[u]
  BY SSApart
<1>3. /\ Blank(u) /\ Blank(u)' /\ Calls(u)
      /\ OneEnd(u)' /\ NoNewEnd(u) /\ OneCopy(u)' /\ Stored(u)' /\ Inside(u)' /\ Leaves(u)' /\ TokensOK(u)'
      /\ \A y \in Flights' : y \notin Ahead(u)
      /\ \A y \in Flights' : y \in Kicks(u) => y \in Flights
      /\ KicksFirst(u)'
      /\ \A n \in Logins : sock[u][n] \notin {"refused", "unused", "listed"}
  BY ToldAlone
<1>4. Outside(u)'
  BY <1>1, <1>2, <1>3, OutsideFewer DEF LSStays
<1>5. Calls(u)'
  BY <1>2, <1>3, CallsStays DEF LSStays
<1>6. Idle(u)'
  <2>1. Ahead(u)' = Ahead(u)
    BY DEF Ahead, Asking, Reports, Entry, Flying
  <2>2. QED
    BY <1>3, <1>5, <2>1 DEF Idle
<1>7. Young(u)'
  <2>1. \A n \in Logins : sock'[u][n] \notin {"refused", "unused"}
    BY <1>3
  <2>2. tempCookie'[u] # NoShard => /\ current'[u] = NoShard /\ Room(u)' = {}
                                    /\ ~Waits(u)' /\ ~Fetches(u)'
    BY <1>1, <1>2 DEF Young, Waits, Fetches
  <2>3. QED
    BY <1>3, <1>6, <2>1, <2>2 DEF Young
<1>8. Kicked(u)'
  BY <1>1, <1>2, <1>3, NoFirst
<1>9. QED
  BY <1>3, <1>4, <1>7, <1>8 DEF Kept

(* It is given an address.                                                 *)
LEMMA AddressGiven ==
  ASSUME Around, NEW u \in Users, Kept(u), NEW x \in Flights, x \in Asking(u), x[1] = <<LS, SS>>,
         x[2].kind = "M_ENTER_SHARD_ANSWER", x[2].v = 0,
         NEW o, offers'[u] = offers[u] \cup {o}, o.f = x[2].f,
         \A n \in Logins : sock'[u][n] = sock[u][n],
         UNCHANGED <<dbVars, lsVars, wsVars, conn, latest>>, NetOf(u, {x}, {})
  PROVE  Kept(u)'
<1>1. Outside(u) /\ Young(u) /\ Kicked(u)
  BY DEF Kept
<1>2. /\ LSStays(u) /\ WSStays(u) /\ current'[u] = current[u] /\ moving'[u] = moving[u]
      /\ waiting'[u] = waiting[u] /\ tempCookie'[u] = tempCookie[u] /\ changeReq'[u] = changeReq[u]
      /\ Room(u)' = Room(u) /\ Cand(u)' = Cand(u) /\ Fresh(u)' = Fresh(u)
  BY SSApart
<1>3. /\ Blank(u) /\ Blank(u)' /\ Calls(u) /\ AskOK(u, x)
      /\ OneEnd(u)' /\ NoNewEnd(u) /\ OneCopy(u)' /\ Stored(u)' /\ Inside(u)' /\ Leaves(u)' /\ TokensOK(u)'
      /\ \A y \in Flights' : y \notin Ahead(u)
      /\ \A y \in Flights' : y \in Kicks(u) => y \in Flights
      /\ KicksFirst(u)' /\ \A t, f : ~Past(u, t, f)
      /\ \A n \in Logins : sock[u][n] \notin {"refused", "unused", "listed"}
      /\ \A t \in Shards : First(u, t) => ShardOf[x[2].f] = t
  BY ToldAlone
<1>4. offers'[u] = {o}
  BY <1>3 DEF Calls
<1>5. Fresh(u) = {} /\ Cand(u) = {} /\ ~Waits(u)' /\ ~Fetches(u)'
  BY <1>2, <1>3 DEF Calls, Blank, Waits, Fetches
<1>6. Outside(u)'
  <2>1. ShardOf[o.f] # current'[u]
    BY <1>2, <1>3 DEF AskOK, Answers
  <2>2. QED
    BY <1>2, <1>4, <1>5, <2>1 DEF Outside, OffersOK, FreshOK, WaitsOK, FetchOK, IsLone
<1>7. Young(u)'
  <2>1. \A n \in Logins : sock'[u][n] \notin {"refused", "unused", "listed"}
    BY <1>3
  <2>2. tempCookie'[u] # NoShard => current'[u] = NoShard /\ Room(u)' = {}
    BY <1>1, <1>2 DEF Young
  <2>3. QED
    BY <1>5, <2>1, <2>2 DEF Young
<1>8. ASSUME NEW t \in Shards, First(u, t) PROVE First(u, t)'
  <2>1. FirstHere(u, t)'
    <3>1. /\ Room(u)' = {} /\ current'[u] \in {t, NoShard} /\ changeReq'[u] = Nowhere
          /\ \A n \in Logins : sock'[u][n] \notin {"unused", "listed"}
      BY <1>2, <1>8 DEF First, FirstHere
    <3>2. Cand(u)' = {}
      BY <1>2, <1>5
    <3>3. \A p \in offers'[u] : ShardOf[p.f] = t
      BY <1>3, <1>4, <1>8
    <3>4. QED
      BY <1>5, <3>1, <3>2, <3>3 DEF FirstHere
  <2>2. ASSUME NEW y \in Flights' PROVE FirstTok(u, t, y)'
    BY <1>3, <2>2 DEF FirstTok, Ahead, Asking, Reports, Entry, Flying
  <2>3. QED
    BY <2>1, <2>2 DEF First
<1>9. DangersStay(u)
  BY <1>3, <1>8 DEF DangersStay
<1>10. NoNewDanger(u)
  BY <1>1, <1>2, <1>3, DangersFewer
<1>11. Kicked(u)'
  BY <1>1, <1>2, <1>3, <1>9, <1>10, AroundTyped, KickedFewer
<1>12. QED
  BY <1>3, <1>6, <1>7, <1>11 DEF Kept

(* The connection of a login, marked or not.                               *)
LEMMA MarkedIs ==
  ASSUME Around, NEW u \in Users, NEW st, sock' = Marked(u, st) \/ sock' = sock, NEW v \in Users
  PROVE  \A n \in Logins : sock'[v][n] = sock[v][n] \/ (v = u /\ sock'[v][n] = st)
<1>1. sock \in [Users -> [Logins -> SockState]]
  BY OneLogin
<1>2. CASE sock' = [sock EXCEPT ![u][player[u].con] = st]
  BY <1>1, <1>2
<1>3. CASE sock' = sock
  BY <1>3
<1>4. QED
  BY <1>2, <1>3 DEF Marked

(* A login that is refused is listed again, or no login changes.           *)
LEMMA RefusedIs ==
  ASSUME NEW u, sock' = Refused(u)
  PROVE  sock' = Marked(u, "listed") \/ sock' = sock
BY DEF Refused

(* What its login is told about u lists it again, or changes nothing.      *)
LEMMA KeptTold ==
  ASSUME Around, NEW kind, FromLS(kind), kind \in AskKinds,
         kind # "M_ENTER_SHARD_ANSWER" \/ HeadFromLS.v # 0,
         UNCHANGED <<dbVars, lsVars, wsVars, conn, offers, onlineStatus, latest>>,
         sock' = Marked(HeadFromLS.u, "listed") \/ sock' = sock,
         NEW v \in Users, Kept(v)
  PROVE  Kept(v)'
<1>1. PICK m : m = HeadFromLS
  OBVIOUS
<1>2. <<LS, SS>> \in Links /\ Pending(LS, SS, kind) /\ Receive(LS, SS, Silent) /\ m = Head(net[<<LS, SS>>])
  BY <1>1, LinksAre DEF FromLS, HeadFromLS
<1>3. /\ <<<<LS, SS>>, m>> \in Flights /\ <<<<LS, SS>>, m>> \in Flying
      /\ m.kind = kind /\ m.u \in Users /\ m \in Message
  BY <1>2, HeadIs
<1>4. PICK u \in Users : u = m.u
  BY <1>3
<1>5. PICK x : x = <<<<LS, SS>>, m>>
  OBVIOUS
<1>6. NetOf(v, {x}, {}) /\ (Ordered(Entry(v), Kicks(v)) => Ordered(Entry(v), Kicks(v))')
  BY <1>2, <1>5, ReceivedSilent
<1>7. \A n \in Logins : sock'[v][n] = sock[v][n] \/ (v = u /\ sock'[v][n] = "listed")
  BY <1>1, <1>4, MarkedIs
<1>8. CASE u = v
  <2>1. x \in Flights /\ x \in Asking(v) /\ x[1] = <<LS, SS>> /\ x[2] = m
    BY <1>3, <1>4, <1>5, <1>8 DEF Asking
  <2>2. \A t \in Shards : ~First(v, t)
    <3>1. \A t \in Shards : First(v, t) => FirstTok(v, t, x)
      BY <2>1, AskHead
    <3>2. LS # SS /\ SS \notin Shards /\ SS \notin Fess /\ LS \notin Shards
      BY NodesDistinct
    <3>3. x[2].kind = kind /\ (kind = "M_ENTER_SHARD_ANSWER" => x[2].v # 0)
      BY <1>1, <1>3, <2>1
    <3>4. QED
      BY <2>1, <3>1, <3>2, <3>3 DEF FirstTok
  <2>3. \A n \in Logins : sock'[v][n] \in {sock[v][n], "listed"}
    BY <1>7
  <2>4. QED
    BY <1>6, <2>1, <2>2, <2>3, Relisted
<1>9. CASE u # v
  <2>1. LoginStays(v)
    BY <1>7, <1>9 DEF LoginStays
  <2>2. Still(v) /\ changeReq'[v] = changeReq[v]
    <3>1. LSStays(v) /\ WSStays(v) /\ DataStays(v) /\ JobsOf(v, {}, {}) /\ changeReq'[v] = changeReq[v]
      BY SSApart
    <3>2. SocksStay(v)
      <4>1. UNCHANGED <<conn, offers>>
        OBVIOUS
      <4>2. QED
        BY <4>1, FSQuiet
    <3>3. QED
      BY <2>1, <3>1, <3>2 DEF Still
  <2>4. QED
    BY <1>2, <2>2, UnmovedSilent
<1>10. QED
  BY <1>8, <1>9

(* SSDisplayShardList keeps Kept for every user.                           *)
LEMMA KeptSSDisplayShardList ==
  ASSUME Around, SSDisplayShardList, UNCHANGED <<dbVars, lsVars, wsVars, fsVars, latest>>,
         NEW v \in Users, Kept(v)
  PROVE  Kept(v)'
<1>1. FromLS("M_SC_SHARDS") /\ sock' = Marked(HeadFromLS.u, "listed") /\ UNCHANGED onlineStatus
  BY DEF SSDisplayShardList
<1>2. UNCHANGED conn /\ UNCHANGED offers
  BY DEF fsVars
<1>3. QED
  BY <1>1, <1>2, KeptTold DEF AskKinds

(* SSFailed keeps Kept for every user.                                     *)
LEMMA KeptSSFailed ==
  ASSUME Around, SSFailed, UNCHANGED <<dbVars, lsVars, wsVars, fsVars, latest>>,
         NEW v \in Users, Kept(v)
  PROVE  Kept(v)'
<1>1. FromLS("M_SC_FAIL") /\ sock' = Refused(HeadFromLS.u) /\ UNCHANGED onlineStatus
  BY DEF SSFailed
<1>2. UNCHANGED conn /\ UNCHANGED offers
  BY DEF fsVars
<1>3. sock' = Marked(HeadFromLS.u, "listed") \/ sock' = sock
  BY <1>1, RefusedIs
<1>4. QED
  BY <1>1, <1>2, <1>3, KeptTold DEF AskKinds

(* SSShardAnswer keeps Kept for every user.                                *)
LEMMA KeptSSShardAnswer ==
  ASSUME Around, SSShardAnswer, NEW v \in Users, Kept(v)
  PROVE  Kept(v)'
<1>1. PICK m : m = HeadFromLS
  OBVIOUS
<1>2. /\ FromLS("M_ENTER_SHARD_ANSWER") /\ UNCHANGED <<dbVars, lsVars, wsVars, conn, onlineStatus, latest>>
      /\ UNCHANGED <<pending, assoc, events, cookieTimeouts>>
      /\ offers' = [offers EXCEPT ![m.u] =
              IF player[m.u].con = m.ck.sock /\ m.v = 0
              THEN @ \cup {[ck |-> m.ck, f |-> m.f]} ELSE @]
      /\ sock' = IF player[m.u].con = m.ck.sock /\ m.v # 0
                    THEN Refused(m.u) ELSE sock
  BY <1>1 DEF SSShardAnswer
<1>3. <<LS, SS>> \in Links /\ Pending(LS, SS, "M_ENTER_SHARD_ANSWER") /\ Receive(LS, SS, Silent)
      /\ m = Head(net[<<LS, SS>>])
  BY <1>1, <1>2, LinksAre DEF FromLS, HeadFromLS
<1>4. /\ <<<<LS, SS>>, m>> \in Flights /\ <<<<LS, SS>>, m>> \in Flying
      /\ m.kind = "M_ENTER_SHARD_ANSWER" /\ m.u \in Users /\ m \in Message
  BY <1>3, HeadIs
<1>5. offers \in [Users -> SUBSET Offer]
  BY DEF Around, TypeOK, FSTypeOK
<1>6. CASE m.v # 0
  <2>1. UNCHANGED offers
    BY <1>2, <1>4, <1>5, <1>6
  <2>2. sock' = Marked(m.u, "listed") \/ sock' = sock
    BY <1>2, RefusedIs
  <2>3. QED
    BY <1>1, <1>2, <1>6, <2>1, <2>2, KeptTold DEF AskKinds
<1>7. CASE m.v = 0
  <2>1. UNCHANGED sock
    BY <1>2, <1>7
  <2>2. CASE m.u = v /\ player[m.u].con = m.ck.sock
    <3>1. PICK o : o = [ck |-> m.ck, f |-> m.f]
      OBVIOUS
    <3>2. offers'[v] = offers[v] \cup {o} /\ o.f = m.f
      BY <1>2, <1>5, <1>7, <2>2, <3>1
    <3>3. PICK x : x = <<<<LS, SS>>, m>>
      OBVIOUS
    <3>4. /\ x \in Flights /\ x \in Asking(v) /\ x[1] = <<LS, SS>> /\ x[2].kind = "M_ENTER_SHARD_ANSWER"
          /\ x[2].v = 0 /\ o.f = x[2].f
      BY <1>4, <1>7, <2>2, <3>2, <3>3 DEF Asking, AskKinds
    <3>5. NetOf(v, {x}, {})
      BY <1>3, <3>3, ReceivedSilent
    <3>6. \A n \in Logins : sock'[v][n] = sock[v][n]
      BY <2>1
    <3>7. QED
      BY <1>2, <3>2, <3>4, <3>5, <3>6, AddressGiven
  <2>3. CASE ~(m.u = v /\ player[m.u].con = m.ck.sock)
    <3>1. offers'[v] = offers[v]
      <4>1. CASE m.u # v
        BY <1>2, <1>4, <1>5, <4>1
      <4>2. CASE player[m.u].con # m.ck.sock
        BY <1>2, <1>4, <1>5, <4>2
      <4>3. QED
        BY <2>3, <4>1, <4>2
    <3>2. Still(v) /\ changeReq'[v] = changeReq[v]
      <4>1. /\ LSStays(v) /\ WSStays(v) /\ DataStays(v) /\ JobsOf(v, {}, {}) /\ changeReq'[v] = changeReq[v]
            /\ Room(v)' = Room(v) /\ Cand(v)' = Cand(v) /\ Fresh(v)' = Fresh(v)
            /\ Content(v)' = Content(v) /\ Odd(v)' = Odd(v) /\ Gone(v)' = Gone(v)
        BY <1>2, SSApart
      <4>2. SocksStay(v)
        BY <3>1, <4>1 DEF SocksStay
      <4>3. LoginStays(v)
        <5>1. UNCHANGED <<sock, onlineStatus>>
          BY <1>2, <2>1
        <5>2. QED
          BY <5>1, SSQuiet
      <4>4. QED
        BY <4>1, <4>2, <4>3 DEF Still
    <3>3. QED
      BY <1>3, <3>2, UnmovedSilent
  <2>4. QED
    BY <2>2, <2>3
<1>8. QED
  BY <1>6, <1>7

(* A kick that starts where no entry goes.                                 *)
LEMMA KickStarted ==
  ASSUME Around, NEW me, NEW n, NEW p \in Message, Emit(me, To(n, p)), NEW u, Ordered(Entry(u), Kicks(u)),
         \A z \in Flights' : z \in Entry(u) => z[1] # <<me, n>>
  PROVE  Ordered(Entry(u), Kicks(u))'
<1>1. PICK outs : outs = To(n, p)
  OBVIOUS
<1>2. outs \in Outbox
  BY <1>1, ToTyped
<1> DEFINE A == Entry(u)
           B == Kicks(u)
<1>3. \A y \in Sent(me, outs) : y \in B => \A z \in Flights' : z \in A => z[1] # y[1]
  <2>1. \A y \in Sent(me, outs) : y = <<<<me, n>>, p>>
    BY <1>1, SentOne
  <2>2. QED
    BY <2>1
<1>4. A' = A /\ B' = B
  BY DEF Entry, Kicks, Flying
<1>5. Ordered(A, B)
  OBVIOUS
<1>6. Emit(me, outs)
  BY <1>1
<1> DEFINE d == [l \in Links |-> 0]
<1>7. d \in [Links -> {0, 1}] /\ Passes(d, me, outs)
  <2> DEFINE e == d
  <2>1. e = [l \in Links |-> 0]
    OBVIOUS
  <2> HIDE DEF d, e
  <2>2. e \in [Links -> {0, 1}] /\ Passes(e, me, outs)
    BY <1>2, <1>6, <2>1, AroundTyped, EmitPasses
  <2>3. QED
    BY <2>2 DEF e
<1> HIDE DEF A, B, d
<1>8. QED
  BY <1>2, <1>3, <1>4, <1>5, <1>7, AroundTyped, OrderedBy DEF A, B

(* A login that ends.                                                      *)
LEMMA KeptSSUserDisconnection ==
  ASSUME Around, NEW u \in Users, NEW n \in Logins, SSUserDisconnection(u, n),
         UNCHANGED <<dbVars, lsVars, wsVars, fsVars, latest>>, NEW v \in Users, Kept(v)
  PROVE  Kept(v)'
<1>1. PICK p : p = Msg("M_CLIENT_DISCONNECT", u)
  OBVIOUS
<1>2. /\ sock' = [sock EXCEPT ![u][n] = "closed"]
      /\ \/ onlineStatus' = [onlineStatus EXCEPT ![u] = FALSE] /\ Emit(SS, To(LS, p))
         \/ UNCHANGED onlineStatus /\ UNCHANGED net
  BY <1>1 DEF SSUserDisconnection, ToLS
<1>3. sock \in [Users -> [Logins -> SockState]] /\ onlineStatus \in [Users -> BOOLEAN]
  BY OneLogin
<1>4. Still(v) /\ changeReq'[v] = changeReq[v]
  <2>1. \A i \in Logins : sock'[v][i] = sock[v][i] \/ sock'[v][i] = "closed"
    BY <1>2, <1>3
  <2>2. onlineStatus'[v] => onlineStatus[v]
    BY <1>2, <1>3
  <2>3. LoginStays(v)
    BY <2>1, <2>2 DEF LoginStays
  <2>4. QED
    BY <2>3, StillSS
<1>5. CASE UNCHANGED net
  <2>1. NetOf(v, {}, {}) /\ (Ordered(Entry(v), Kicks(v)) => Ordered(Entry(v), Kicks(v))')
    BY <1>5, NetStill
  <2>2. \A y \in {} : y[2].u # v
    OBVIOUS
  <2>3. QED
    BY <1>4, <2>1, <2>2, Unmoved
<1>6. CASE Emit(SS, To(LS, p))
  <2>1. p \in Message /\ p.u = u /\ p.kind = "M_CLIENT_DISCONNECT"
    BY <1>1, MsgTyped, NullsTyped, WSNulls DEF Kinds, Answers, Msg
  <2>2. PICK z : z = <<<<SS, LS>>, p>>
    OBVIOUS
  <2>3. z[1] = <<SS, LS>> /\ z[2].kind = "M_CLIENT_DISCONNECT"
    BY <2>1, <2>2
  <2>4. NetOf(v, {}, {z})
    BY <1>6, <2>1, <2>2, EmittedTo
  <2>5. SS \notin Shards /\ LS \notin Shards /\ LS # SS /\ SS \notin Fess /\ LS \notin Fess
    BY NodesDistinct
  <2>6. \A y \in Flights' : y \in Entry(v) => y[1] # <<SS, LS>>
    <3>1. ASSUME NEW y \in Flights', y \in Entry(v), y[1] = <<SS, LS>> PROVE FALSE
      <4>1. y \in Flights
        <5>1. z \notin Entry(v)
          BY <2>3 DEF Entry
        <5>2. y \in Ahead(v) /\ z # y
          BY <3>1, <5>1 DEF Ahead
        <5>3. QED
          BY <2>4, <3>1, <5>2 DEF NetOf, Moves
      <4>2. EntryOK(v, y)
        BY <3>1, <4>1 DEF Kept, TokensOK, TokenOK
      <4>3. EntryShard(y) = SS
        BY <2>5, <3>1 DEF EntryShard
      <4>4. QED
        BY <2>5, <4>2, <4>3, PlacesOK DEF EntryOK
    <3>2. QED
      BY <3>1
  <2>7. Ordered(Entry(v), Kicks(v))'
    <3>1. Ordered(Entry(v), Kicks(v))
      BY DEF Kept, Kicked, KicksFirst
    <3>2. QED
      BY <1>6, <2>1, <2>6, <3>1, KickStarted
  <2>8. \A s \in Shards : z \in Kicks(v) /\ z[1] = <<LS, s>> => tempCookie[v] = s
    BY <2>3, <2>5
  <2>9. z \in Kicks(v) /\ z[1][2] \in Fess => First(v, z[1][1]) /\ Past(v, z[1][1], z[1][2])
    BY <2>3, <2>5
  <2>10. \A x \in Flights : x \in Entry(v) /\ x[1][2] \in Fess /\ z \in Kicks(v) => z[1] # <<LS, x[1][1]>>
    BY <2>3, <2>5
  <2>11. QED
    BY <1>4, <2>3, <2>4, <2>7, <2>8, <2>9, <2>10, KickPassed
<1>7. QED
  BY <1>2, <1>5, <1>6

(* A login that is over because the user is on a shard.                    *)
LEMMA KeptSSClientConnected ==
  ASSUME Around, SSClientConnected, UNCHANGED <<dbVars, lsVars, wsVars, fsVars, latest>>,
         NEW v \in Users, Kept(v)
  PROVE  Kept(v)'
<1>1. PICK m : m = HeadFromLS
  OBVIOUS
<1>2. <<LS, SS>> \in Links /\ Pending(LS, SS, "M_CLIENT_CONNECT_STATUS") /\ Receive(LS, SS, Silent) /\ m = Head(net[<<LS, SS>>])
  BY <1>1, LinksAre DEF SSClientConnected, FromLS, HeadFromLS
<1>3. PICK u \in Users : u = m.u
  BY <1>2, HeadIs
<1>4. \/ sock' = Marked(u, "closed") /\ onlineStatus' = [onlineStatus EXCEPT ![u] = FALSE]
      \/ sock' = sock /\ UNCHANGED onlineStatus
  BY <1>1, <1>3 DEF SSClientConnected
<1>5. onlineStatus \in [Users -> BOOLEAN]
  BY OneLogin
<1>6. LoginStays(v)
  <2>1. \A i \in Logins : sock'[v][i] = sock[v][i] \/ (v = u /\ sock'[v][i] = "closed")
    BY <1>4, MarkedIs
  <2>2. onlineStatus'[v] => onlineStatus[v]
    BY <1>4, <1>5
  <2>3. QED
    BY <2>1, <2>2 DEF LoginStays
<1>7. Still(v) /\ changeReq'[v] = changeReq[v]
  BY <1>6, StillSS
<1>8. QED
  BY <1>2, <1>7, UnmovedSilent

(* Nobody logs in twice.                                                   *)
LEMMA NoSecondLogin ==
  ASSUME Around, NEW u \in Users, Kept(u)
  PROVE  ~SSAlreadyOnline(u) /\ \A n \in Logins : ~SSForceLogin(u, n)
<1>1. ASSUME SSAlreadyOnline(u) PROVE FALSE
  <2>1. PICK n \in Logins : sock[u][n] = "unused"
    BY <1>1 DEF SSAlreadyOnline, NextLogin
  <2>2. Blank(u) /\ ~onlineStatus[u]
    BY <2>1 DEF Kept, Young
  <2>3. dbOnline[u] = NoShard
    BY <2>2 DEF Kept, Stored, Blank
  <2>4. QED
    BY <1>1, <2>2, <2>3 DEF SSAlreadyOnline
<1>2. ASSUME NEW n \in Logins, SSForceLogin(u, n) PROVE FALSE
  BY <1>2 DEF SSForceLogin, Kept, Young
<1>3. QED
  BY <1>1, <1>2

(* A user that plays changes its data, on the shard where they are.        *)
LEMMA KeptPlay ==
  ASSUME Around, NEW f \in Fess, NEW k \in Conns, Play(f, k), NEW v \in Users, Kept(v)
  PROVE  Kept(v)'
<1>1. PICK u : u = conn[f][k].u
  OBVIOUS
<1>2. PICK s \in Shards : s = ShardOf[f]
  BY PlacesOK
<1>3. /\ conn[f][k].open /\ conn[f][k].entered
      /\ latest' = [latest EXCEPT ![u] = latest[u] + 1]
      /\ data' = [data EXCEPT ![s][u] = latest[u] + 1]
      /\ UNCHANGED <<netVars, dbVars, lsVars, wsAssoc, jobs, fsVars, ssVars>>
  BY <1>1, <1>2 DEF Play
<1>4. /\ conn \in [Fess -> [Conns -> Conn]] /\ latest \in [Users -> Nat]
      /\ data \in [Shards -> [Users -> Nat]]
  BY DEF Around, TypeOK, FSTypeOK, WSTypeOK
<1>5. u \in Users
  BY <1>1, <1>4 DEF Conn
<1>6. /\ LSStays(v) /\ changeReq'[v] = changeReq[v] /\ SocksStay(v) /\ LoginStays(v) /\ WSStays(v)
      /\ Gone(v)' = Gone(v) /\ JobsOf(v, {}, {})
  <2>1. LSStays(v) /\ changeReq'[v] = changeReq[v]
    <3>1. UNCHANGED <<dbVars, lsVars>>
      BY <1>3
    <3>2. QED
      BY <3>1, LSQuiet
  <2>2. SocksStay(v) /\ Gone(v)' = Gone(v)
    <3>1. UNCHANGED <<conn, offers>>
      BY <1>3 DEF fsVars
    <3>2. QED
      BY <3>1, FSQuiet
  <2>3. LoginStays(v)
    <3>1. UNCHANGED <<sock, onlineStatus>>
      BY <1>3 DEF ssVars
    <3>2. QED
      BY <3>1, SSQuiet
  <2>4. WSStays(v)
    BY <1>3 DEF WSStays
  <2>5. JobsOf(v, {}, {})
    BY <1>3, JobsStill DEF JobsOf
  <2>6. QED
    BY <2>1, <2>2, <2>3, <2>4, <2>5
<1>7. NetOf(v, {}, {}) /\ (Ordered(Entry(v), Kicks(v)) => Ordered(Entry(v), Kicks(v))')
  BY <1>3, NetStill DEF netVars
<1>8. CASE u # v
  <2>1. DataStays(v)
    BY <1>3, <1>4, <1>5, <1>8 DEF DataStays
  <2>2. Still(v)
    BY <1>6, <2>1 DEF Still
  <2>3. \A y \in {} : y[2].u # v
    OBVIOUS
  <2>4. QED
    BY <1>6, <1>7, <2>2, <2>3, Unmoved
<1>9. CASE u = v
  <2>1. OneEnd(v) /\ OneCopy(v) /\ Inside(v) /\ Stored(v) /\ Ordered(Entry(v), Kicks(v))
    BY DEF Kept, Kicked, KicksFirst
  <2>2. PICK d : d = <<f, k>>
    OBVIOUS
  <2>3. d \in Room(v) /\ d[1] = f
    BY <1>1, <1>3, <1>9, <2>2 DEF Room, Places, Sock
  <2>4. infoCur[v] = s /\ moving[v] = NoMove
    BY <1>2, <2>1, <2>3 DEF Inside
  <2>5. latest'[v] = latest[v] + 1 /\ data'[s][v] = latest[v] + 1
    BY <1>3, <1>4, <1>5, <1>9
  <2>6. \A y \in {} : /\ y \notin EndJobs(v) /\ y \notin CopyJobs(v) /\ y \notin Reports(v, 0)
                      /\ y \notin Copies(v) /\ y \notin Ahead(v) /\ y \notin Kicks(v)
    OBVIOUS
  <2>7. OneEnd(v)' /\ NoNewEnd(v)
    BY <1>6, <1>7, <2>1, <2>6, EndsFewer
  <2>8. /\ OneCopy(v)'
        /\ \A y \in Flights' : y \in Copies(v) => y \in Flights
        /\ \A y \in JobFlights' : y \in CopyJobs(v) => y \in JobFlights
    BY <1>6, <1>7, <2>1, <2>6, CopiesFewer
  <2>9. Stored(v)'
    <3>1. /\ \A y \in Flights' : y \notin Copies(v)
          /\ \A y \in JobFlights' : y \notin CopyJobs(v)
      BY <2>1, <2>4, <2>8 DEF Stored
    <3>2. moving'[v] = NoMove /\ infoCur'[v] = s /\ s # NoShard /\ dbOnline'[v] = current'[v] /\ ~abnormal'[v]
      BY <1>3, <2>1, <2>4, NullsDistinct DEF lsVars, dbVars, Stored
    <3>3. HomeOfData(v)' = s
      BY <3>2 DEF HomeOfData
    <3>4. Copies(v)' = Copies(v) /\ CopyJobs(v)' = CopyJobs(v)
      BY DEF Copies, CopyJobs, Flying
    <3>5. QED
      BY <2>5, <3>1, <3>2, <3>3, <3>4 DEF Stored
  <2>10. QED
    BY <1>6, <1>7, <2>1, <2>6, <2>7, <2>8, <2>9, Aside
<1>10. QED
  BY <1>8, <1>9
=============================================================================
