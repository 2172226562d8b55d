------------------------ MODULE ShardFailures_proofs ------------------------
(***************************************************************************)
(* Theorems about front ends that crash and are started again, for every   *)
(* set of shards and front ends and finitely many users.                   *)
(*                                                                         *)
(* What ShardSession does is done here too (Works), so its invariants need *)
(* only be shown to outlive a crash, its discovery and a restart; and what *)
(* links the three is what the naming service knows of a front end.        *)
(***************************************************************************)
EXTENDS ShardFailures, ShardSession_proofs

FailuresTypeOK == TypeOK /\ NSTypeOK /\ running \in SUBSET Fess /\ crashes \in Nat

(* The logouts of finitely many users are queued jobs. *)
LEMMA LogoutsTyped ==
  ASSUME NEW U \in SUBSET Users, IsFiniteSet(U)
  PROVE  Logouts(U) \in Seq(Job)
<1> DEFINE n == Cardinality(U)
           us == Seqs!SetToSeq(U)
<1>1. n \in Nat /\ Bijection(1..n, U) # {}
  BY FS_CardinalityType DEF ExistsBijection
<1>2. \E q \in [1..n -> U] : Seqs!IsInjective(q)
  BY <1>1 DEF Bijection, Injection, IsInjective, Seqs!IsInjective
<1>3. us \in [1..n -> U]
  BY <1>2 DEF Seqs!SetToSeq, Seqs!Cardinality, Cardinality, Seqs!IsFiniteSet, IsFiniteSet
<1> HIDE DEF n, us
<1>4. \A i \in 1..n : [job |-> "FamilyLogout", u |-> us[i], to |-> NoShard] \in Job
  BY <1>3 DEF Job, ShardOrNone
<1>5. Logouts(U) = [i \in DOMAIN us |-> [job |-> "FamilyLogout", u |-> us[i], to |-> NoShard]]
  BY DEF Logouts, us
<1>6. DOMAIN us = 1..n
  BY <1>3
<1>7. QED
  BY <1>1, <1>4, <1>5, <1>6

LEMMA FailuresInitTyped == InitF => FailuresTypeOK
<1>1. Init => TypeOK
  BY InitTyped
<1>2. InitF => nsOut \in [Services -> Seq(Services)]
  BY EmptySeq DEF InitF, NSInit
<1>3. QED
  BY <1>1, <1>2, CrashesOK DEF InitF, NSInit, NSTypeOK, FailuresTypeOK

(* The links of front end f, told by their names here. *)
LEMMA LinksOf == \A f \in Fess : ToFES(f) = Down(f) /\ FromFES(f) = Up(f)
BY DEF ToFES, FromFES, Down, Up

(* The naming service keeps its state well typed. *)
LEMMA NSTyped ==
  ASSUME NSTypeOK,
         \/ NSAckUnregistration
         \/ \E d \in Services : \/ NSServiceLost(d) \/ NSRegister(d)
                                \/ \E n \in Services : Unregistered(n, d)
  PROVE  NSTypeOK'
<1>0. /\ entries \in [Services -> {"registered", "leaving", "free"}]
      /\ awaited \in [Services -> SUBSET Services]
      /\ nsOut \in [Services -> Seq(Services)]
      /\ nsAcks \in SUBSET [from : Services, sid : Services]
  BY DEF NSTypeOK
<1>1. ASSUME NEW d \in Services, NSServiceLost(d)
      PROVE  NSTypeOK'
  <2> DEFINE others == Registered \ {d}
             aw     == [n \in Services |-> IF n = d THEN others ELSE awaited[n] \ {d}]
  <2>1. /\ entries' = Swept([entries EXCEPT ![d] = "leaving"], aw) /\ awaited' = aw
        /\ nsOut' = [n \in Services |-> IF n \in others THEN Append(nsOut[n], d)
                                                        ELSE nsOut[n]]
        /\ nsAcks' = nsAcks
    BY <1>1 DEF NSServiceLost
  <2>2. aw \in [Services -> SUBSET Services]
    BY <1>0 DEF Registered
  <2> HIDE DEF aw
  <2>3. entries' \in [Services -> {"registered", "leaving", "free"}]
    BY <1>0, <2>1 DEF Swept
  <2> HIDE DEF others
  <2>4. \A n \in Services : Append(nsOut[n], d) \in Seq(Services)
    BY <1>0, AppendProperties
  <2>5. nsOut' \in [Services -> Seq(Services)]
    BY <1>0, <2>1, <2>4
  <2>6. QED
    BY <1>0, <2>1, <2>2, <2>3, <2>5 DEF NSTypeOK
<1>2. ASSUME NEW d \in Services, NSRegister(d)
      PROVE  NSTypeOK'
  BY <1>0, <1>2 DEF NSRegister, NSTypeOK
<1>3. CASE NSAckUnregistration
  <2>1. PICK a \in nsAcks :
          LET aw == IF entries[a.sid] = "leaving"
                    THEN [awaited EXCEPT ![a.sid] = @ \ {a.from}] ELSE awaited
          IN  /\ nsAcks' = nsAcks \ {a} /\ awaited' = aw /\ entries' = Swept(entries, aw)
              /\ nsOut' = nsOut
    BY <1>3 DEF NSAckUnregistration
  <2>2. QED
    BY <1>0, <2>1 DEF NSTypeOK, Swept
<1>4. ASSUME NEW n \in Services, NEW d \in Services, Unregistered(n, d)
      PROVE  NSTypeOK'
  <2>1. Tail(nsOut[n]) \in Seq(Services)
    BY <1>0, <1>4, HeadTailProperties DEF Unregistered
  <2>2. QED
    BY <1>0, <1>4, <2>1 DEF Unregistered, NSTypeOK
<1>5. QED
  BY <1>1, <1>2, <1>3, <1>4

(* Whatever happens the state stays well typed. *)
LEMMA FailuresTyped ==
  ASSUME IsFiniteSet(Users), FailuresTypeOK, [NextF]_allVars
  PROVE  FailuresTypeOK'
<1>0. /\ TypeOK /\ NSTypeOK /\ running \in SUBSET Fess /\ crashes \in Nat
      /\ NetTypeOK /\ LSTypeOK /\ WSTypeOK /\ FSTypeOK /\ SSTypeOK
      /\ changes \in Nat /\ latest \in [Users -> Nat]
      /\ Fess \subseteq Services
  BY DEF FailuresTypeOK, TypeOK, Services
<1>1. ASSUME UNCHANGED nsVars
      PROVE  NSTypeOK'
  BY <1>0, <1>1 DEF NSTypeOK, nsVars
<1>2. ASSUME UNCHANGED vars
      PROVE  TypeOK'
  BY <1>0, <1>2, NextTyped
<1>3. ASSUME NetTypeOK', WSTypeOK', FSTypeOK', UNCHANGED sessionVars
      PROVE  TypeOK'
  <2>1. UNCHANGED lsVars /\ UNCHANGED ssVars /\ changes' \in Nat /\ latest' \in [Users -> Nat]
    BY <1>0, <1>3 DEF sessionVars
  <2>2. QED
    BY <1>0, <1>3, <2>1, UnchangedTyped DEF TypeOK
<1>4. CASE Works
  BY <1>0, <1>1, <1>4, NextTyped DEF Works, FailuresTypeOK
<1>5. ASSUME NEW f \in Fess, Crash(f)
      PROVE  FailuresTypeOK'
  <2>1. net' \in [Links -> Seq(Message)]
    BY <1>0, <1>5, EmptySeq DEF Crash, NetTypeOK
  <2>2. NetTypeOK'
    BY <1>0, <1>5, <2>1 DEF Crash, NetTypeOK, sessionVars, dbVars
  <2>3. WSTypeOK'
    BY <1>0, <1>5 DEF Crash, WSTypeOK, wsVars
  <2>4. FSTypeOK'
    <3>1. conn' \in [Fess -> [Conns -> Conn]]
      BY <1>0, <1>5, FSNulls DEF Crash, FSTypeOK
    <3>2. events' \in [Fess -> Seq(Event)]
      BY <1>0, <1>5, EmptySeq DEF Crash, FSTypeOK
    <3>3. QED
      BY <1>0, <1>5, <3>1, <3>2 DEF Crash, FSTypeOK
  <2>5. NSTypeOK'
    BY <1>0, <1>5, EmptySeq DEF Crash, NSTypeOK
  <2>6. running' \in SUBSET Fess /\ crashes' \in Nat /\ UNCHANGED sessionVars
    BY <1>0, <1>5 DEF Crash
  <2>7. QED
    BY <1>3, <2>2, <2>3, <2>4, <2>5, <2>6 DEF FailuresTypeOK
<1>6. ASSUME NEW f \in Fess, NSLosesFrontend(f) \/ FrontendStarts(f)
      PROVE  FailuresTypeOK'
  <2>1. NSServiceLost(f) \/ NSRegister(f)
    BY <1>6 DEF NSLosesFrontend, FrontendStarts
  <2>2. NSTypeOK'
    BY <1>0, <2>1, NSTyped
  <2>3. UNCHANGED vars /\ running' \in SUBSET Fess /\ crashes' = crashes
    BY <1>0, <1>6 DEF NSLosesFrontend, FrontendStarts
  <2>4. QED
    BY <1>0, <1>2, <2>2, <2>3 DEF FailuresTypeOK
<1>7. ASSUME NEW f \in Fess, Unsent(f) \/ WSFrontendUp(f)
      PROVE  FailuresTypeOK'
  <2>1. net' \in [Links -> Seq(Message)]
    BY <1>0, <1>7, EmptySeq DEF Unsent, WSFrontendUp, NetTypeOK, netVars
  <2>2. NetTypeOK'
    BY <1>0, <1>7, <2>1 DEF Unsent, WSFrontendUp, NetTypeOK, sessionVars, dbVars, netVars
  <2>3. WSTypeOK'
    BY <1>0, <1>7 DEF Unsent, WSFrontendUp, WSTypeOK, wsVars
  <2>4. FSTypeOK'
    BY <1>0, <1>7, UnchangedTyped DEF Unsent, WSFrontendUp
  <2>5. UNCHANGED sessionVars /\ UNCHANGED nsVars /\ running' = running /\ crashes' = crashes
    BY <1>7 DEF Unsent, WSFrontendUp
  <2>6. QED
    BY <1>0, <1>1, <1>3, <2>2, <2>3, <2>4, <2>5 DEF FailuresTypeOK
<1>8. ASSUME NEW n \in Services, ServiceUnregistered(n)
      PROVE  FailuresTypeOK'
  <2>1. PICK f \in Fess :
          /\ Unregistered(n, f)
          /\ \/ LogoffUsersOn(f) /\ ForgetFES(f) /\ ConnectionDead(f)
             \/ UNCHANGED <<wsAssoc, jobs, fesList, nbUser, nbPending, net>>
    BY <1>8 DEF ServiceUnregistered
  <2>2. /\ UNCHANGED sessionVars /\ UNCHANGED fsVars
        /\ UNCHANGED <<dbFaults, data, running, crashes>>
    BY <1>8 DEF ServiceUnregistered
  <2>3. NSTypeOK'
    BY <1>0, <2>1, NSTyped
  <2>4. net' \in [Links -> Seq(Message)]
    BY <1>0, <2>1, EmptySeq DEF ConnectionDead, NetTypeOK
  <2>5. NetTypeOK'
    BY <1>0, <2>2, <2>4 DEF NetTypeOK, sessionVars, dbVars
  <2>6. ASSUME UNCHANGED <<wsAssoc, jobs, fesList, nbUser, nbPending, net>>
        PROVE  WSTypeOK'
    BY <1>0, <2>2, <2>6 DEF WSTypeOK
  <2>7. ASSUME LogoffUsersOn(f), ForgetFES(f)
        PROVE  WSTypeOK'
    <3> DEFINE U == UsersOn(f)
    <3>1. U \in SUBSET Users /\ IsFiniteSet(U)
      BY FS_Subset DEF UsersOn
    <3>2. Logouts(U) \in Seq(Job)
      BY <3>1, LogoutsTyped
    <3> HIDE DEF U
    <3>3. jobs' \in [Shards -> Seq(Job)]
      BY <1>0, <2>7, <3>2, ConcatProperties DEF LogoffUsersOn, WSTypeOK, U
    <3>4. wsAssoc' \in [Shards -> [Users -> FesOrNone]]
      BY <1>0, <2>7 DEF LogoffUsersOn, WSTypeOK, FesOrNone
    <3>5. QED
      BY <1>0, <2>2, <2>7, <3>3, <3>4 DEF ForgetFES, WSTypeOK
  <2>8. WSTypeOK'
    BY <2>1, <2>6, <2>7
  <2>9. FSTypeOK'
    BY <1>0, <2>2, UnchangedTyped
  <2>10. QED
    BY <1>0, <1>3, <2>2, <2>3, <2>5, <2>8, <2>9 DEF FailuresTypeOK
<1>9. CASE NSAckUnregistration /\ UNCHANGED <<vars, running, crashes>>
  <2>1. NSTypeOK'
    BY <1>0, <1>9, NSTyped
  <2>2. QED
    BY <1>0, <1>2, <1>9, <2>1 DEF FailuresTypeOK
<1>10. CASE UNCHANGED allVars
  BY <1>0, <1>1, <1>2, <1>10 DEF allVars, FailuresTypeOK
<1>11. QED
  BY <1>4, <1>5, <1>6, <1>7, <1>8, <1>9, <1>10 DEF NextF

-----------------------------------------------------------------------------
(* What the naming service knows of a front end                            *)
(*                                                                         *)
(* A WS never crashes, so until it has read that a service is gone the     *)
(* naming service waits for its acknowledgment, and until that has arrived *)
(* too the identifier is not free. The WS of a front end that has crashed  *)
(* either has forgotten it, or will be told, or the loss is not noticed    *)
(* yet. (An acknowledgment of a front end proves less: one that was on its *)
(* way when the front end crashed is taken for that of its successor.)     *)

Told(n, d)  == \E i \in DOMAIN nsOut[n] : nsOut[n][i] = d
Acked(n, d) == [from |-> n, sid |-> d] \in nsAcks

Informed(s) ==
  /\ entries[s] = "registered"
  /\ \A d \in Services :
       /\ Told(s, d) \/ Acked(s, d) => entries[d] = "leaving" /\ s \in awaited[d]
       /\ ~(Told(s, d) /\ Acked(s, d))
  /\ \A i, j \in DOMAIN nsOut[s] : nsOut[s][i] = nsOut[s][j] => i = j
Standing(f) ==
  /\ f \in running => entries[f] = "registered"
  /\ f \in fesList \ running => entries[f] = "registered" \/ Told(ShardOf[f], f)

(* What the services do leaves the list of front ends alone. *)
LEMMA ListFixed ==
  ASSUME [Next]_vars
  PROVE  fesList' = fesList
<1>1. ASSUME WSNext
      PROVE  fesList' = fesList
  BY <1>1 DEF WSNext, WSShardAnswer, WSLoginClient, WSLogoffClient, WSRemovedPendingCookie,
              WSChangeShardReq, WSNoFrontend, WSChooseShard, WSDisconnectClient,
              WSForceLogoff, WSRelayToFES, WSMoveUserDataReq, WSQueryDone, WSSendUserData,
              wsVars
<1>2. QED
  BY <1>1 DEF Next, vars, LSStep, WSStep, FSStep, SSStep, ClientStep, SSShardAnswer, Play,
              wsVars

(* What a step does to the naming service and the list of front ends. *)
LEMMA NamingSteps ==
  ASSUME FailuresTypeOK, [NextF]_allVars
  PROVE  \/ /\ UNCHANGED <<nsVars, running>>
            /\ \E G \in SUBSET running : fesList' = fesList \cup G
         \/ \E g \in Fess :
              /\ running' = running \ {g} /\ nsOut' = [nsOut EXCEPT ![g] = << >>]
              /\ UNCHANGED <<fesList, entries, awaited, nsAcks>>
         \/ \E g \in Fess \ running : NSServiceLost(g) /\ UNCHANGED <<running, fesList>>
         \/ \E g \in Fess : NSRegister(g) /\ running' = running \cup {g} /\ fesList' = fesList
         \/ \E n \in Services, g \in Fess :
              /\ Unregistered(n, g) /\ running' = running
              /\ fesList' = IF n = ShardOf[g] THEN fesList \ {g} ELSE fesList
         \/ NSAckUnregistration /\ UNCHANGED <<running, fesList>>
<1>1. CASE Works \/ UNCHANGED allVars
  <2>1. UNCHANGED <<nsVars, running>>
    BY <1>1 DEF Works, allVars
  <2>2. fesList' = fesList \cup {}
    BY <1>1, ListFixed DEF Works, allVars, vars, wsVars
  <2>3. QED
    BY <2>1, <2>2
<1>2. ASSUME NEW f \in Fess, Crash(f)
      PROVE  /\ running' = running \ {f} /\ nsOut' = [nsOut EXCEPT ![f] = << >>]
             /\ UNCHANGED <<fesList, entries, awaited, nsAcks>>
  BY <1>2 DEF Crash, wsVars
<1>3. ASSUME NEW f \in Fess, NSLosesFrontend(f)
      PROVE  f \notin running /\ NSServiceLost(f) /\ UNCHANGED <<running, fesList>>
  BY <1>3 DEF NSLosesFrontend, vars, wsVars
<1>4. ASSUME NEW f \in Fess, Unsent(f) \/ WSFrontendUp(f)
      PROVE  /\ UNCHANGED <<nsVars, running>>
             /\ \E G \in SUBSET running : fesList' = fesList \cup G
  <2>1. UNCHANGED <<nsVars, running>>
    BY <1>4 DEF Unsent, WSFrontendUp
  <2>2. fesList' = fesList \cup {} \/ (f \in running /\ fesList' = fesList \cup {f})
    BY <1>4 DEF Unsent, WSFrontendUp, wsVars
  <2>3. QED
    BY <2>1, <2>2
<1>5. ASSUME NEW f \in Fess, FrontendStarts(f)
      PROVE  NSRegister(f) /\ running' = running \cup {f} /\ fesList' = fesList
  BY <1>5 DEF FrontendStarts, vars, wsVars
<1>6. ASSUME NEW n \in Services, ServiceUnregistered(n)
      PROVE  \E g \in Fess :
               /\ Unregistered(n, g) /\ running' = running
               /\ fesList' = IF n = ShardOf[g] THEN fesList \ {g} ELSE fesList
  <2>1. PICK g \in Fess :
          /\ Unregistered(n, g)
          /\ IF g \in fesList /\ n = ShardOf[g]
             THEN fesList' = fesList \ {g} ELSE fesList' = fesList
    BY <1>6 DEF ServiceUnregistered, ForgetFES
  <2>2. fesList \ {g} = fesList \/ g \in fesList
    OBVIOUS
  <2>3. running' = running
    BY <1>6 DEF ServiceUnregistered
  <2>4. QED
    BY <2>1, <2>2, <2>3
<1>7. CASE NSAckUnregistration /\ UNCHANGED <<vars, running, crashes>>
  BY <1>7 DEF vars, wsVars
<1>8. QED
  BY <1>1, <1>2, <1>3, <1>4, <1>5, <1>6, <1>7 DEF NextF

(* A loss that is broadcast, and one that is read. *)
LEMMA ToldMore ==
  ASSUME NSTypeOK, NEW n \in Services, NEW d \in Services, nsOut'[n] = Append(nsOut[n], d)
  PROVE  /\ \A e \in Services : Told(n, e)' <=> Told(n, e) \/ e = d
         /\ ~Told(n, d) /\ (\A i, j \in DOMAIN nsOut[n] : nsOut[n][i] = nsOut[n][j] => i = j)
              => \A i, j \in DOMAIN nsOut'[n] : nsOut'[n][i] = nsOut'[n][j] => i = j
<1> DEFINE q == nsOut[n]
           r == nsOut'[n]
<1>1. q \in Seq(Services)
  BY DEF NSTypeOK
<1>2. /\ Len(q) \in Nat /\ DOMAIN q = 1..Len(q) /\ DOMAIN r = 1..(Len(q) + 1)
      /\ r[Len(q) + 1] = d /\ \A i \in DOMAIN q : r[i] = q[i]
  BY <1>1, PositionsSent
<1>3. \A e : Told(n, e) <=> \E i \in DOMAIN q : q[i] = e
  BY DEF Told
<1>4. \A e : Told(n, e)' <=> \E i \in DOMAIN r : r[i] = e
  BY DEF Told
<1> HIDE DEF q, r
<1>5. \A i \in DOMAIN r : i \in DOMAIN q \/ i = Len(q) + 1
  BY <1>2
<1>6. DOMAIN q \subseteq DOMAIN r /\ Len(q) + 1 \in DOMAIN r
  BY <1>2
<1>7. \A e \in Services : Told(n, e)' <=> Told(n, e) \/ e = d
  BY <1>2, <1>3, <1>4, <1>5, <1>6
<1>8. ASSUME ~Told(n, d), \A i, j \in DOMAIN q : q[i] = q[j] => i = j
      PROVE  \A i, j \in DOMAIN r : r[i] = r[j] => i = j
  BY <1>2, <1>3, <1>5, <1>8
<1>9. QED
  BY <1>7, <1>8 DEF q, r

LEMMA ToldLess ==
  ASSUME NSTypeOK, NEW n \in Services, nsOut[n] # << >>, nsOut'[n] = Tail(nsOut[n]),
         \A i, j \in DOMAIN nsOut[n] : nsOut[n][i] = nsOut[n][j] => i = j
  PROVE  /\ \A e \in Services : Told(n, e)' <=> Told(n, e) /\ e # Head(nsOut[n])
         /\ Told(n, Head(nsOut[n]))
         /\ \A i, j \in DOMAIN nsOut'[n] : nsOut'[n][i] = nsOut'[n][j] => i = j
<1> DEFINE q == nsOut[n]
           r == nsOut'[n]
<1>1. q \in Seq(Services)
  BY DEF NSTypeOK
<1>2. /\ Len(q) \in Nat \ {0} /\ DOMAIN q = 1..Len(q) /\ DOMAIN r = 1..(Len(q) - 1)
      /\ Head(q) = q[1] /\ 1 \in DOMAIN q
      /\ \A i \in DOMAIN r : i + 1 \in DOMAIN q /\ r[i] = q[i + 1]
      /\ \A i \in DOMAIN q \ {1} : i - 1 \in DOMAIN r /\ r[i - 1] = q[i]
  BY <1>1, PositionsRead
<1>3. \A e : Told(n, e) <=> \E i \in DOMAIN q : q[i] = e
  BY DEF Told
<1>4. \A e : Told(n, e)' <=> \E i \in DOMAIN r : r[i] = e
  BY DEF Told
<1>5. \A i, j \in DOMAIN q : q[i] = q[j] => i = j
  OBVIOUS
<1> HIDE DEF q, r
<1>6. ASSUME NEW i \in DOMAIN r
      PROVE  i + 1 \in DOMAIN q /\ r[i] = q[i + 1] /\ i + 1 # 1 /\ r[i] # q[1]
  BY <1>2, <1>5
<1>7. ASSUME NEW i \in DOMAIN q, q[i] # q[1]
      PROVE  \E j \in DOMAIN r : r[j] = q[i]
  <2>1. i # 1
    BY <1>7
  <2>2. QED
    BY <1>2, <2>1
<1>8. ASSUME NEW i \in DOMAIN r, NEW j \in DOMAIN r, r[i] = r[j]
      PROVE  i = j
  <2>1. i + 1 = j + 1
    BY <1>5, <1>6, <1>8
  <2>2. QED
    BY <1>2, <2>1
<1>9. \A e : Told(n, e)' <=> Told(n, e) /\ e # q[1]
  BY <1>3, <1>4, <1>6, <1>7
<1>10. Head(q) = q[1] /\ Told(n, q[1])
  BY <1>2, <1>3
<1>11. \A i, j \in DOMAIN r : r[i] = r[j] => i = j
  BY <1>8
<1>12. QED
  BY <1>9, <1>10, <1>11 DEF q, r

(* Entries that are swept were waiting for nobody. *)
LEMMA SweptEntries ==
  ASSUME NEW en \in [Services -> {"registered", "leaving", "free"}], NEW aw,
         NEW d \in Services
  PROVE  /\ en[d] = "registered" => Swept(en, aw)[d] = "registered"
         /\ en[d] = "leaving" /\ aw[d] # {} => Swept(en, aw)[d] = "leaving"
BY DEF Swept

(* A WS stays informed. *)
LEMMA InformedKept ==
  ASSUME FailuresTypeOK, NEW s \in Shards, Informed(s), [NextF]_allVars
  PROVE  Informed(s)'
<1>0. /\ NSTypeOK /\ s \in Services /\ Fess \subseteq Services /\ s \notin Fess
      /\ entries \in [Services -> {"registered", "leaving", "free"}]
      /\ awaited \in [Services -> SUBSET Services]
      /\ nsOut \in [Services -> Seq(Services)]
      /\ nsAcks \in SUBSET [from : Services, sid : Services]
  BY NodesDistinct DEF FailuresTypeOK, NSTypeOK, Services
<1>1. /\ entries[s] = "registered"
      /\ \A d \in Services :
           /\ Told(s, d) \/ Acked(s, d) => entries[d] = "leaving" /\ s \in awaited[d]
           /\ ~(Told(s, d) /\ Acked(s, d))
      /\ \A i, j \in DOMAIN nsOut[s] : nsOut[s][i] = nsOut[s][j] => i = j
  BY DEF Informed
<1>2. ASSUME nsOut'[s] = nsOut[s]
      PROVE  /\ \A d \in Services : Told(s, d)' <=> Told(s, d)
             /\ \A i, j \in DOMAIN nsOut'[s] : nsOut'[s][i] = nsOut'[s][j] => i = j
  BY <1>1, <1>2 DEF Told
<1>3. ASSUME nsOut'[s] = nsOut[s], UNCHANGED <<entries, awaited, nsAcks>>
      PROVE  Informed(s)'
  BY <1>1, <1>2, <1>3 DEF Informed, Acked
<1>4. CASE UNCHANGED nsVars
  BY <1>3, <1>4 DEF nsVars
<1>5. ASSUME NEW g \in Fess, nsOut' = [nsOut EXCEPT ![g] = << >>],
             UNCHANGED <<entries, awaited, nsAcks>>
      PROVE  Informed(s)'
  BY <1>0, <1>3, <1>5
<1>6. ASSUME NEW g \in Fess, NSServiceLost(g)
      PROVE  Informed(s)'
  <2> DEFINE others == Registered \ {g}
             en     == [entries EXCEPT ![g] = "leaving"]
             aw     == [n \in Services |-> IF n = g THEN others ELSE awaited[n] \ {g}]
  <2>1. /\ entries[g] = "registered" /\ entries' = Swept(en, aw) /\ awaited' = aw
        /\ nsOut' = [n \in Services |-> IF n \in others THEN Append(nsOut[n], g)
                                                        ELSE nsOut[n]]
        /\ nsAcks' = nsAcks
    BY <1>6 DEF NSServiceLost
  <2>2. s \in others
    BY <1>0, <1>1 DEF Registered
  <2>3. en \in [Services -> {"registered", "leaving", "free"}] /\ g \in Services
    BY <1>0
  <2>4. en[s] = "registered" /\ en[g] = "leaving" /\ \A d \in Services \ {g} : en[d] = entries[d]
    BY <1>0, <1>1
  <2>5. s \in aw[g] /\ \A d \in Services \ {g} : s \in awaited[d] => s \in aw[d]
    BY <1>0, <2>2
  <2>6. nsOut'[s] = Append(nsOut[s], g)
    BY <1>0, <2>1, <2>2
  <2> HIDE DEF others, en, aw
  <2>7. ~Told(s, g) /\ ~Acked(s, g)
    BY <1>0, <1>1, <2>1
  <2>8. /\ \A d \in Services : Told(s, d)' <=> Told(s, d) \/ d = g
        /\ \A i, j \in DOMAIN nsOut'[s] : nsOut'[s][i] = nsOut'[s][j] => i = j
    BY <1>0, <1>1, <2>3, <2>6, <2>7, ToldMore
  <2>9. \A d : Acked(s, d)' <=> Acked(s, d)
    BY <2>1 DEF Acked
  <2>10. entries'[s] = "registered"
    <3>1. Swept(en, aw)[s] = "registered"
      BY <1>0, <2>3, <2>4, SweptEntries
    <3>2. QED
      BY <2>1, <3>1
  <2>11. ASSUME NEW d \in Services, Told(s, d)' \/ Acked(s, d)'
         PROVE  entries'[d] = "leaving" /\ s \in awaited'[d]
    <3>1. en[d] = "leaving" /\ s \in aw[d]
      BY <1>1, <2>4, <2>5, <2>7, <2>8, <2>9, <2>11
    <3>2. QED
      BY <2>1, <2>3, <3>1, SweptEntries
  <2>12. QED
    BY <1>1, <2>7, <2>8, <2>9, <2>10, <2>11 DEF Informed
<1>7. ASSUME NEW g \in Fess, NSRegister(g)
      PROVE  Informed(s)'
  <2>1. /\ entries[g] = "free" /\ entries' = [entries EXCEPT ![g] = "registered"]
        /\ UNCHANGED <<awaited, nsOut, nsAcks>>
    BY <1>7 DEF NSRegister
  <2>2. ~Told(s, g) /\ ~Acked(s, g)
    BY <1>0, <1>1, <2>1
  <2>3. \A d \in Services \ {g} : entries'[d] = entries[d]
    BY <1>0, <2>1
  <2>4. \A d \in Services : (Told(s, d)' <=> Told(s, d)) /\ (Acked(s, d)' <=> Acked(s, d))
    BY <1>2, <2>1 DEF Acked
  <2>5. s # g
    BY <1>0
  <2>6. QED
    BY <1>0, <1>1, <1>2, <2>1, <2>2, <2>3, <2>4, <2>5 DEF Informed
<1>8. ASSUME NEW n \in Services, NEW g \in Fess, Unregistered(n, g)
      PROVE  Informed(s)'
  <2>1. /\ nsOut[n] # << >> /\ g = Head(nsOut[n])
        /\ nsOut' = [nsOut EXCEPT ![n] = Tail(@)]
        /\ nsAcks' = nsAcks \cup {[from |-> n, sid |-> g]}
        /\ UNCHANGED <<entries, awaited>>
    BY <1>8 DEF Unregistered
  <2>2. CASE n = s
    <3>1. /\ \A d \in Services : Told(s, d)' <=> Told(s, d) /\ d # g
          /\ Told(s, g)
          /\ \A i, j \in DOMAIN nsOut'[s] : nsOut'[s][i] = nsOut'[s][j] => i = j
      BY <1>0, <1>1, <2>1, <2>2, ToldLess
    <3>2. \A d \in Services : Acked(s, d)' <=> Acked(s, d) \/ d = g
      BY <2>1, <2>2 DEF Acked
    <3>3. QED
      BY <1>0, <1>1, <2>1, <3>1, <3>2 DEF Informed
  <2>3. CASE n # s
    <3>1. nsOut'[s] = nsOut[s]
      BY <1>0, <2>1, <2>3
    <3>2. \A d \in Services : Acked(s, d)' <=> Acked(s, d)
      BY <2>1, <2>3 DEF Acked
    <3>3. QED
      BY <1>1, <1>2, <2>1, <3>1, <3>2 DEF Informed
  <2>4. QED
    BY <2>2, <2>3
<1>9. CASE NSAckUnregistration
  <2>0. PICK a \in nsAcks : \E aw :
          /\ aw = IF entries[a.sid] = "leaving"
                  THEN [awaited EXCEPT ![a.sid] = @ \ {a.from}] ELSE awaited
          /\ nsAcks' = nsAcks \ {a} /\ awaited' = aw /\ entries' = Swept(entries, aw)
          /\ nsOut' = nsOut
    BY <1>9 DEF NSAckUnregistration
  <2>1. PICK aw :
          /\ aw = IF entries[a.sid] = "leaving"
                  THEN [awaited EXCEPT ![a.sid] = @ \ {a.from}] ELSE awaited
          /\ nsAcks' = nsAcks \ {a} /\ awaited' = aw /\ entries' = Swept(entries, aw)
          /\ nsOut' = nsOut
    BY <2>0
  <2>2. a.from \in Services /\ a.sid \in Services /\ a = [from |-> a.from, sid |-> a.sid]
    BY <1>0, <2>1
  <2>3. /\ \A d \in Services : d # a.sid => awaited'[d] = awaited[d]
        /\ a.from # s => (s \in awaited[a.sid] => s \in awaited'[a.sid])
    BY <1>0, <2>1, <2>2
  <2>4. entries' = Swept(entries, aw) /\ awaited' = aw
    BY <2>1
  <2>5. \A d \in Services : Told(s, d)' <=> Told(s, d)
    BY <1>2, <2>1
  <2>6. \A d \in Services : Acked(s, d)' <=> Acked(s, d) /\ ~(a.from = s /\ a.sid = d)
    BY <2>1, <2>2 DEF Acked
  <2>7. a.from = s => Acked(s, a.sid)
    BY <2>1, <2>2 DEF Acked
  <2>8. ASSUME NEW d \in Services, Told(s, d)' \/ Acked(s, d)'
        PROVE  entries'[d] = "leaving" /\ s \in awaited'[d]
    <3>1. entries[d] = "leaving" /\ s \in awaited[d]
      BY <1>1, <2>5, <2>6, <2>8
    <3>2. a.from = s => a.sid # d
      BY <1>1, <2>5, <2>6, <2>7, <2>8
    <3>3. s \in awaited'[d]
      BY <2>3, <3>1, <3>2
    <3>4. QED
      BY <1>0, <2>4, <3>1, <3>3, SweptEntries
  <2>9. entries'[s] = "registered"
    <3>1. Swept(entries, aw)[s] = "registered"
      BY <1>0, <1>1 DEF Swept
    <3>2. QED
      BY <2>4, <3>1
  <2>10. QED
    BY <1>1, <1>2, <2>1, <2>5, <2>6, <2>8, <2>9 DEF Informed
<1>10. QED
  BY <1>4, <1>5, <1>6, <1>7, <1>8, <1>9, NamingSteps

(* A front end the WS has and that has crashed is to be told of. *)
LEMMA StandingKept ==
  ASSUME FailuresTypeOK, NEW f \in Fess, Standing(f), Informed(ShardOf[f]), [NextF]_allVars
  PROVE  Standing(f)'
<1> DEFINE s == ShardOf[f]
<1>0. /\ NSTypeOK /\ s \in Shards /\ s \in Services /\ f \in Services /\ s \notin Fess
      /\ Fess \subseteq Services /\ running \subseteq Fess
      /\ entries \in [Services -> {"registered", "leaving", "free"}]
      /\ nsOut \in [Services -> Seq(Services)]
      /\ entries[s] = "registered"
      /\ \A i, j \in DOMAIN nsOut[s] : nsOut[s][i] = nsOut[s][j] => i = j
  BY NodesDistinct, PlacesOK DEF FailuresTypeOK, NSTypeOK, Services, Informed
<1>1. /\ f \in running => entries[f] = "registered"
      /\ f \in fesList \ running => entries[f] = "registered" \/ Told(s, f)
  BY DEF Standing
<1> HIDE DEF s
<1>2. ASSUME f \in running' => f \in running, f \in fesList' => f \in fesList \/ f \in running,
             f \in running => f \in running' \/ entries'[f] = "registered",
             entries[f] = "registered" => entries'[f] = "registered",
             Told(s, f) => Told(s, f)'
      PROVE  Standing(f)'
  BY <1>1, <1>2 DEF Standing, s
<1>3. nsOut'[s] = nsOut[s] => (Told(s, f) => Told(s, f)')
  BY DEF Told
<1>4. ASSUME UNCHANGED <<nsVars, running>>, NEW G \in SUBSET running, fesList' = fesList \cup G
      PROVE  Standing(f)'
  BY <1>2, <1>3, <1>4 DEF nsVars
<1>5. ASSUME NEW g \in Fess, running' = running \ {g}, nsOut' = [nsOut EXCEPT ![g] = << >>],
             UNCHANGED <<fesList, entries>>
      PROVE  Standing(f)'
  <2>1. nsOut'[s] = nsOut[s]
    BY <1>0, <1>5
  <2>2. f \in running => entries'[f] = "registered"
    BY <1>1, <1>5
  <2>3. QED
    BY <1>2, <1>3, <1>5, <2>1, <2>2
<1>6. ASSUME NEW g \in Fess \ running, NSServiceLost(g), UNCHANGED <<running, fesList>>
      PROVE  Standing(f)'
  <2> DEFINE en == [entries EXCEPT ![g] = "leaving"]
  <2>1. /\ \E aw : entries' = Swept(en, aw)
        /\ nsOut'[s] = Append(nsOut[s], g)
    BY <1>0, <1>6 DEF NSServiceLost, Registered
  <2>2. \A d \in Services : Told(s, d)' <=> Told(s, d) \/ d = g
    BY <1>0, <2>1, ToldMore
  <2>3. CASE f = g
    BY <1>0, <1>6, <2>2, <2>3 DEF Standing, s
  <2>4. CASE f # g
    <3>1. en \in [Services -> {"registered", "leaving", "free"}] /\ en[f] = entries[f]
      BY <1>0, <2>4
    <3> HIDE DEF en
    <3>2. entries[f] = "registered" => entries'[f] = "registered"
      <4>1. \A aw : entries[f] = "registered" => Swept(en, aw)[f] = "registered"
        BY <1>0, <3>1, SweptEntries
      <4>2. QED
        BY <2>1, <4>1
    <3>3. QED
      BY <1>0, <1>2, <1>6, <2>2, <3>2
  <2>5. QED
    BY <2>3, <2>4
<1>7. ASSUME NEW g \in Fess, NSRegister(g), running' = running \cup {g}, fesList' = fesList
      PROVE  Standing(f)'
  <2>1. entries' = [entries EXCEPT ![g] = "registered"] /\ nsOut' = nsOut
    BY <1>7 DEF NSRegister
  <2>2. CASE f = g
    BY <1>0, <1>7, <2>1, <2>2 DEF Standing
  <2>3. CASE f # g
    BY <1>0, <1>2, <1>3, <1>7, <2>1, <2>3
  <2>4. QED
    BY <2>2, <2>3
<1>8. ASSUME NEW n \in Services, NEW g \in Fess, Unregistered(n, g), running' = running,
             fesList' = IF n = ShardOf[g] THEN fesList \ {g} ELSE fesList
      PROVE  Standing(f)'
  <2>1. /\ nsOut[n] # << >> /\ g = Head(nsOut[n])
        /\ nsOut' = [nsOut EXCEPT ![n] = Tail(@)]
        /\ entries' = entries
    BY <1>8 DEF Unregistered
  <2>2. CASE n # s
    BY <1>0, <1>2, <1>3, <1>8, <2>1, <2>2
  <2>3. CASE n = s /\ g # f
    <3>1. Told(s, f)' <=> Told(s, f)
      BY <1>0, <2>1, <2>3, ToldLess
    <3>2. QED
      BY <1>2, <1>8, <2>1, <3>1
  <2>4. CASE n = s /\ g = f
    BY <1>1, <1>8, <2>1, <2>4 DEF Standing, s
  <2>5. QED
    BY <2>2, <2>3, <2>4
<1>9. ASSUME NSAckUnregistration, UNCHANGED <<running, fesList>>
      PROVE  Standing(f)'
  <2>1. nsOut' = nsOut /\ \E aw : entries' = Swept(entries, aw)
    BY <1>9 DEF NSAckUnregistration
  <2>2. entries[f] = "registered" => entries'[f] = "registered"
    BY <1>0, <2>1, SweptEntries
  <2>3. QED
    BY <1>2, <1>3, <1>9, <2>1, <2>2
<1>10. QED
  BY <1>4, <1>5, <1>6, <1>7, <1>8, <1>9, NamingSteps

-----------------------------------------------------------------------------
(* What is left of a front end                                             *)
(*                                                                         *)
(* A front end that is down, or up but not connected, has neither sessions *)
(* nor cookies; its WS, once it has forgotten it, has no users there, and  *)
(* no connection it had reported is left on the link.                      *)

Hellos  == {m \in Message : m.kind = "M_CLIENT_CONNECT_STATUS" /\ m.v = 1}
Idle(f) == pending[f] = {} /\ \A u \in Users : assoc[f][u] = 0
Fresh(f) ==
  /\ f \notin running \cap fesList => Idle(f)
  /\ f \notin fesList =>
       /\ \A u \in Users : wsAssoc[ShardOf[f]][u] # f
       /\ \A i \in DOMAIN net[Up(f)] : net[Up(f)][i] \notin Hellos

(* What one of the steps that ShardSession has not may do to front end f.  *)
SocketsLeft(f) == UNCHANGED <<conn[f], events[f], assoc[f], pending[f]>>
Untouched(f) ==
  /\ SocketsLeft(f) /\ UNCHANGED <<net[Up(f)], net[Down(f)], nbPending[f]>>
  /\ \A u \in Users : wsAssoc'[ShardOf[f]][u] = f <=> wsAssoc[ShardOf[f]][u] = f
  /\ f \in running => f \in running'
  /\ f \in fesList => f \in fesList' /\ (f \in running' => f \in running)
Dies(f) ==
  /\ f \notin running' /\ UNCHANGED <<wsAssoc, fesList, net[Up(f)], nbPending[f]>>
  /\ net'[Down(f)] = << >> /\ pending'[f] = {} /\ events'[f] = << >>
  /\ assoc'[f] = [u \in Users |-> 0] /\ conn'[f] = [k \in Conns |-> FreeConn]
Forgotten(f) ==
  /\ SocketsLeft(f)
  /\ f \in fesList /\ f \notin fesList' /\ f \notin running /\ f \notin running'
  /\ net'[Up(f)] = << >> /\ net'[Down(f)] = << >> /\ nbPending'[f] = 0
  /\ \A u \in Users : wsAssoc'[ShardOf[f]][u] # f
Unheard(f) ==
  /\ SocketsLeft(f) /\ UNCHANGED <<wsAssoc, running, fesList, net[Up(f)], nbPending[f]>>
  /\ f \notin fesList /\ net'[Down(f)] = << >>

LEMMA FailureSteps ==
  ASSUME FailuresTypeOK, NEW f \in Fess, Informed(ShardOf[f]), Standing(f),
         [NextF]_allVars, ~Works
  PROVE  Untouched(f) \/ Dies(f) \/ Forgotten(f) \/ Unheard(f)
<1>0. /\ TypeOK /\ FSTyped /\ WSTyped /\ f \in Services /\ f # NoFes
      /\ Down(f) \in Links /\ Up(f) \in Links /\ DOMAIN net = Links
      /\ DOMAIN conn = Fess /\ DOMAIN events = Fess /\ DOMAIN assoc = Fess
      /\ DOMAIN pending = Fess /\ DOMAIN nbPending = Fess
      /\ wsAssoc \in [Shards -> [Users -> FesOrNone]] /\ ShardOf[f] \in Shards
  BY TypeOKIs, AwaitedTyped, PlacesOK, NullsDistinct
     DEF FailuresTypeOK, Services, FSTyped, FSTypeOK, WSTyped, WSTypeOK, NetTyped
<1>1. \A g \in Fess : /\ ToFES(g) = Down(g) /\ FromFES(g) = Up(g)
                      /\ g # f => Down(g) # Down(f) /\ Down(g) # Up(f)
                      /\ g # f => Up(g) # Down(f) /\ Up(g) # Up(f)
                      /\ Up(f) # Down(f)
  BY LinksOf, LinksApart, PlacesOK
<1>2. ASSUME UNCHANGED vars, f \in running => f \in running', f \in fesList => (f \in running' => f \in running)
      PROVE  Untouched(f)
  BY <1>2 DEF Untouched, SocketsLeft, vars, netVars, fsVars, wsVars
<1>3. ASSUME NEW g \in Fess, Crash(g)
      PROVE  Untouched(f) \/ Dies(f)
  <2>1. /\ running' = running \ {g}
        /\ conn' = [conn EXCEPT ![g] = [k \in Conns |-> FreeConn]]
        /\ pending' = [pending EXCEPT ![g] = {}]
        /\ assoc' = [assoc EXCEPT ![g] = [u \in Users |-> 0]]
        /\ events' = [events EXCEPT ![g] = << >>]
        /\ net' = [net EXCEPT ![Down(g)] = << >>]
        /\ UNCHANGED <<wsAssoc, fesList, nbPending>>
    BY <1>1, <1>3 DEF Crash, wsVars
  <2>2. CASE g = f
    BY <1>0, <1>1, <2>1, <2>2 DEF Dies
  <2>3. CASE g # f
    BY <1>0, <1>1, <2>1, <2>3 DEF Untouched, SocketsLeft
  <2>4. QED
    BY <2>2, <2>3
<1>4. ASSUME NEW g \in Fess, NSLosesFrontend(g)
      PROVE  Untouched(f)
  BY <1>2, <1>4 DEF NSLosesFrontend
<1>5. ASSUME NEW g \in Fess, Unsent(g)
      PROVE  Untouched(f) \/ Unheard(f)
  <2>1. /\ g \notin fesList /\ net' = [net EXCEPT ![Down(g)] = << >>]
        /\ UNCHANGED <<wsVars, fsVars, running>>
    BY <1>1, <1>5 DEF Unsent
  <2>2. CASE g = f
    BY <1>0, <1>1, <2>1, <2>2 DEF Unheard, SocketsLeft, wsVars, fsVars
  <2>3. CASE g # f
    BY <1>0, <1>1, <2>1, <2>3 DEF Untouched, SocketsLeft, wsVars, fsVars
  <2>4. QED
    BY <2>2, <2>3
<1>6. ASSUME NEW g \in Fess, FrontendStarts(g)
      PROVE  Untouched(f)
  <2>1. UNCHANGED vars /\ running' = running \cup {g} /\ g \notin running /\ entries[g] = "free"
    BY <1>6 DEF FrontendStarts, NSRegister
  <2>2. f = g => f \notin fesList
    BY <1>0, <2>1 DEF Standing, Informed
  <2>3. QED
    BY <1>2, <2>1, <2>2
<1>7. ASSUME NEW g \in Fess, WSFrontendUp(g)
      PROVE  Untouched(f)
  BY <1>7 DEF WSFrontendUp, Untouched, SocketsLeft, fsVars, netVars
<1>8. ASSUME NEW n \in Services, ServiceUnregistered(n)
      PROVE  Untouched(f) \/ Forgotten(f)
  <2>0. /\ UNCHANGED <<conn, events, assoc, pending, running>>
        /\ \E g \in Fess :
             /\ Unregistered(n, g)
             /\ IF g \in fesList /\ n = ShardOf[g]
                THEN LogoffUsersOn(g) /\ ForgetFES(g) /\ ConnectionDead(g)
                ELSE UNCHANGED <<wsAssoc, jobs, fesList, nbUser, nbPending, net>>
    BY <1>8 DEF ServiceUnregistered, fsVars
  <2>1. PICK g \in Fess :
          /\ Unregistered(n, g)
          /\ IF g \in fesList /\ n = ShardOf[g]
             THEN LogoffUsersOn(g) /\ ForgetFES(g) /\ ConnectionDead(g)
             ELSE UNCHANGED <<wsAssoc, jobs, fesList, nbUser, nbPending, net>>
    BY <2>0
  <2>2. SocketsLeft(f)
    BY <2>0 DEF SocketsLeft
  <2>3. CASE ~(g \in fesList /\ n = ShardOf[g])
    BY <2>0, <2>1, <2>2, <2>3 DEF Untouched
  <2>4. CASE g \in fesList /\ n = ShardOf[g]
    <3>1. /\ wsAssoc' = [wsAssoc EXCEPT ![ShardOf[g]] =
                          [u \in Users |-> IF u \in UsersOn(g) THEN NoFes ELSE @[u]]]
          /\ fesList' = fesList \ {g} /\ nbPending' = [nbPending EXCEPT ![g] = 0]
          /\ net' = [net EXCEPT ![Down(g)] = << >>, ![Up(g)] = << >>]
      BY <1>1, <2>1, <2>4 DEF LogoffUsersOn, ForgetFES, ConnectionDead
    <3>2. \A u \in Users : wsAssoc'[ShardOf[f]][u] =
            IF ShardOf[f] = ShardOf[g] /\ u \in UsersOn(g) THEN NoFes
                                                           ELSE wsAssoc[ShardOf[f]][u]
      BY <1>0, <3>1
    <3>3. CASE g = f
      <4>1. Told(ShardOf[f], f)
        <5>1. nsOut[n] \in Seq(Services) /\ nsOut[n] # << >> /\ f = Head(nsOut[n])
          BY <2>1, <3>3 DEF Unregistered, FailuresTypeOK, NSTypeOK
        <5>2. 1 \in DOMAIN nsOut[n] /\ nsOut[n][1] = f
          BY <5>1, PositionsRead
        <5>3. QED
          BY <2>4, <3>3, <5>2 DEF Told
      <4>2. f \notin running
        BY <1>0, <4>1 DEF Informed, Standing
      <4>3. \A u \in Users : wsAssoc'[ShardOf[f]][u] # f
        BY <1>0, <3>2, <3>3 DEF UsersOn
      <4>4. QED
        BY <1>0, <1>1, <2>0, <2>2, <2>4, <3>1, <3>3, <4>2, <4>3 DEF Forgotten
    <3>4. CASE g # f
      <4>1. \A u \in Users : wsAssoc'[ShardOf[f]][u] = f <=> wsAssoc[ShardOf[f]][u] = f
        BY <1>0, <3>2, <3>4 DEF UsersOn
      <4>2. net'[Up(f)] = net[Up(f)] /\ net'[Down(f)] = net[Down(f)]
        BY <1>0, <1>1, <3>1, <3>4
      <4>3. QED
        BY <1>0, <2>0, <2>2, <3>1, <3>4, <4>1, <4>2 DEF Untouched
    <3>5. QED
      BY <3>3, <3>4
  <2>5. QED
    BY <2>3, <2>4
<1>9. CASE NSAckUnregistration /\ UNCHANGED <<vars, running, crashes>>
  BY <1>2, <1>9
<1>10. CASE UNCHANGED allVars
  BY <1>2, <1>10 DEF allVars
<1>11. QED
  BY <1>3, <1>4, <1>5, <1>6, <1>7, <1>8, <1>9, <1>10 DEF NextF

(* The steps of ShardSession stay such steps. *)
LEMMA WorksSteps == Works => [Next]_vars /\ UNCHANGED <<nsVars, running, crashes>>
BY DEF Works

(* The sockets of a front end stay in order. *)
LEMMA SocketsFKept ==
  ASSUME FailuresTypeOK, NEW f \in Fess, Informed(ShardOf[f]), Standing(f), Sockets(f),
         [NextF]_allVars
  PROVE  Sockets(f)'
<1>1. CASE Works
  BY <1>1, WorksSteps, SocketsKept DEF FailuresTypeOK
<1>2. ASSUME SocketsLeft(f)
      PROVE  Sockets(f)'
  BY <1>2 DEF SocketsLeft, Sockets
<1>3. CASE Dies(f)
  <2>1. /\ events'[f] = << >> /\ conn'[f] = [k \in Conns |-> FreeConn]
        /\ assoc'[f] = [u \in Users |-> 0]
    BY <1>3 DEF Dies
  <2>2. ~FreeConn.used /\ ~FreeConn.open
    BY DEF FreeConn
  <2>3. DOMAIN events'[f] = {}
    BY <2>1
  <2>4. InOrder(events'[f], conn'[f])
    BY <2>1, <2>2, <2>3 DEF InOrder
  <2>5. Names(assoc'[f], conn'[f])
    BY <2>1 DEF Names
  <2>6. QED
    BY <2>4, <2>5 DEF Sockets
<1>4. CASE ~Works
  BY <1>2, <1>3, <1>4, FailureSteps DEF Untouched, Forgotten, Unheard
<1>5. QED
  BY <1>1, <1>4

(* A front end that is down or not connected stays idle: no request        *)
(* reaches it, and it lets nobody in without one.                          *)
LEMMA IdleKept ==
  ASSUME FailuresTypeOK, NEW f \in Fess, f \notin running \cap fesList, Idle(f), Works
  PROVE  Idle(f)'
<1>0. /\ TypeOK /\ FSTyped /\ [Next]_vars /\ ToFES(f) = Down(f) /\ Down(f) = <<ShardOf[f], f>>
      /\ net[Down(f)] \in Seq(Message)
      /\ assoc \in [Fess -> [Users -> Nat]] /\ DOMAIN pending = Fess
  BY TypeOKIs, AwaitedTyped, WorksSteps DEF FailuresTypeOK, ToFES, Down, FSTyped, FSTypeOK
<1>1. CASE UNCHANGED <<pending[f], assoc[f]>>
  BY <1>1 DEF Idle
<1>2. CASE f \notin running
  BY <1>1, <1>2 DEF Works
<1>3. CASE f \in running \ fesList
  <2>1. Len(net'[Down(f)]) >= Len(net[Down(f)])
    BY <1>0, <1>3 DEF Works
  <2>2. CASE ~FSStep
    BY <1>0, <1>1, <2>2, OnlyFES
  <2>3. ASSUME NEW g \in Fess \ {f},
               \/ FSChooseShard(g) \/ FSDisconnectClient(g) \/ FSEnterShardOk(g)
               \/ FSChangeShardAns(g) \/ FSShardValidation(g) \/ FSInvalidCookie(g)
               \/ FSDisconnected(g) \/ FSRefreshPending(g)
        PROVE  UNCHANGED <<pending[f], assoc[f]>>
    <3>1. assoc'[f] = assoc[f]
      BY <1>0, <2>3, OtherSockets
    <3>2. pending'[f] = pending[f]
      BY <1>0, <2>3 DEF FSChooseShard, FSDisconnectClient, FSEnterShardOk, FSChangeShardAns,
                        FSShardValidation, FSInvalidCookie, FSDisconnected, FSRefreshPending
    <3>3. QED
      BY <3>1, <3>2
  <2>4. ASSUME net[Down(f)] # << >>, net'[Down(f)] = Tail(net[Down(f)])
        PROVE  FALSE
    <3>1. Len(Tail(net[Down(f)])) = Len(net[Down(f)]) - 1 /\ Len(net[Down(f)]) \in Nat
      BY <1>0, <2>4, HeadTailProperties, LenProperties
    <3>2. QED
      BY <2>1, <2>4, <3>1
  <2>5. CASE \/ FSChooseShard(f) \/ FSDisconnectClient(f) \/ FSEnterShardOk(f)
             \/ FSChangeShardAns(f)
    <3>1. PICK kind, outs : Pending(ShardOf[f], f, kind) /\ Receive(ShardOf[f], f, outs)
      BY <2>5 DEF FSChooseShard, FSDisconnectClient, FSEnterShardOk, FSChangeShardAns
    <3>2. net[Down(f)] # << >> /\ net'[Down(f)] = Tail(net[Down(f)])
      BY <1>0, <3>1, AwaitedTyped DEF Pending, Receive
    <3>3. QED
      BY <2>4, <3>2
  <2>6. CASE FSShardValidation(f) \/ FSRefreshPending(f)
    BY <2>6 DEF FSShardValidation, FSRefreshPending, Idle
  <2>7. CASE FSInvalidCookie(f)
    <3>1. PICK u : assoc' = [assoc EXCEPT ![f][u] = 0] /\ pending' = pending
      BY <2>7 DEF FSInvalidCookie
    <3>2. \A v \in Users : assoc'[f][v] \in {0, assoc[f][v]}
      BY <1>0, <3>1
    <3>3. QED
      BY <3>1, <3>2 DEF Idle
  <2>8. CASE FSDisconnected(f)
    <3>1. PICK u : /\ assoc' = assoc \/ assoc' = [assoc EXCEPT ![f][u] = 0]
                   /\ pending' = pending
      BY <2>8 DEF FSDisconnected
    <3>2. \A v \in Users : assoc'[f][v] \in {0, assoc[f][v]}
      BY <1>0, <3>1
    <3>3. QED
      BY <3>1, <3>2 DEF Idle
  <2>9. CASE FSStep
    <3>1. PICK g \in Fess :
            \/ FSChooseShard(g) \/ FSDisconnectClient(g) \/ FSEnterShardOk(g)
            \/ FSChangeShardAns(g) \/ FSShardValidation(g) \/ FSInvalidCookie(g)
            \/ FSDisconnected(g) \/ FSRefreshPending(g)
      BY <2>9 DEF FSStep, FSNext
    <3>2. CASE g # f
      BY <1>1, <2>3, <3>1, <3>2
    <3>3. CASE g = f
      BY <2>5, <2>6, <2>7, <2>8, <3>1, <3>3
    <3>4. QED
      BY <3>2, <3>3
  <2>10. QED
    BY <2>2, <2>9
<1>4. QED
  BY <1>2, <1>3

(* Nothing that is read, sent or believed makes a front end less fresh. *)
LEMMA FreshWorks ==
  ASSUME FailuresTypeOK, NEW f \in Fess, Sockets(f), f \notin fesList, Fresh(f), Works
  PROVE  Fresh(f)'
<1> DEFINE q == net[Up(f)]
           r == net'[Up(f)]
           s == ShardOf[f]
<1>0. /\ TypeOK /\ [Next]_vars /\ Idle(f)' /\ q \in Seq(Message) /\ s \in Shards
      /\ f \in Fess /\ f # NoFes /\ fesList' = fesList
      /\ wsAssoc \in [Shards -> [Users -> FesOrNone]]
      /\ \A u \in Users : wsAssoc[s][u] # f
      /\ \A i \in DOMAIN q : q[i] \notin Hellos
  BY WorksSteps, IdleKept, AwaitedTyped, PlacesOK, NullsDistinct, ListFixed
     DEF Fresh, FailuresTypeOK, TypeOK, WSTypeOK
<1>1. SUFFICES /\ \A u \in Users : wsAssoc'[s][u] # f
               /\ \A i \in DOMAIN r : r[i] \notin Hellos
  BY <1>0 DEF Fresh, Up
<1> HIDE DEF s
<1>2. ASSUME q # << >>, r = Tail(q)
      PROVE  \A i \in DOMAIN r : r[i] \notin Hellos
  BY <1>0, <1>2, PositionsRead
<1>3. CASE ~WSStep
  <2>1. wsAssoc' = wsAssoc /\ \A u \in Users : Quiet(f, u) \/ Speaks(f, u)
    BY <1>0, <1>3, SomeUser, OthersQuietOrSpeak
  <2>2. ASSUME NEW i \in DOMAIN r, r[i] \in Hellos
        PROVE  FALSE
    <3> DEFINE u == r[i].u
    <3>1. u \in Users /\ r[i] \in Report(u)
      BY <2>2 DEF Hellos, Report, Message
    <3>2. \/ r = q
          \/ \E m \in Message : /\ r = q \o <<m>>
                                /\ \/ m \notin Report(u)
                                   \/ m \in Report(u) /\ (m.v = 1 <=> assoc'[f][u] # 0)
      BY <2>1, <3>1 DEF Quiet, Speaks, Report
    <3> HIDE DEF u, q, r
    <3>3. PICK m \in Message : /\ r = q \o <<m>>
                               /\ \/ m \notin Report(u)
                                  \/ m \in Report(u) /\ (m.v = 1 <=> assoc'[f][u] # 0)
      BY <1>0, <2>2, <3>2
    <3>4. r[i] = m
      BY <1>0, <2>2, <3>3, PositionsSent
    <3>5. assoc'[f][u] = 0
      BY <1>0, <3>1 DEF Idle
    <3>6. m.v = 1
      BY <2>2, <3>4 DEF Hellos
    <3>7. QED
      BY <3>1, <3>3, <3>4, <3>5, <3>6
  <2>3. QED
    BY <1>0, <2>1, <2>2
<1>4. ASSUME NEW g \in Fess,
             WSShardAnswer(g) \/ WSLoginClient(g) \/ WSLogoffClient(g)
               \/ WSRemovedPendingCookie(g) \/ WSChangeShardReq(g)
      PROVE  /\ \A u \in Users : wsAssoc'[s][u] # f
             /\ \A i \in DOMAIN r : r[i] \notin Hellos
  <2> DEFINE m == Head(net[Up(g)])
             t == ShardOf[g]
  <2>1. /\ f = g => q # << >> /\ r = Tail(q)
        /\ f # g => r = q
    BY <1>0, <1>4, WSNewsLinks
  <2>2. /\ m \in Message /\ m.u \in Users /\ t \in Shards
        /\ \/ wsAssoc' = wsAssoc
           \/ wsAssoc' = [wsAssoc EXCEPT ![t][m.u] = NoFes]
           \/ /\ m.kind = "M_CLIENT_CONNECT_STATUS" /\ m.v = 1
              /\ wsAssoc' = [wsAssoc EXCEPT ![t][m.u] = IF @ = NoFes THEN g ELSE @]
    BY <1>0, <1>4, WSNews
  <2>3. f = g => m \notin Hellos
    BY <1>0, <2>1, PositionsRead
  <2>4. m.kind = "M_CLIENT_CONNECT_STATUS" /\ m.v = 1 => f # g
    BY <2>2, <2>3 DEF Hellos
  <2> HIDE DEF m, t, q, r
  <2>5. \A u \in Users : wsAssoc'[s][u] # f
    BY <1>0, <2>2, <2>4
  <2>6. \A i \in DOMAIN r : r[i] \notin Hellos
    BY <1>0, <1>2, <2>1
  <2>7. QED
    BY <2>5, <2>6
<1>5. ASSUME NEW t \in Shards,
             \/ WSNoFrontend(t) \/ WSDisconnectClient(t) \/ WSForceLogoff(t)
             \/ WSRelayToFES(t) \/ WSMoveUserDataReq(t) \/ WSQueryDone(t)
             \/ \E from \in Shards \ {t} : WSSendUserData(from, t)
             \/ WSChooseShard(t)
      PROVE  wsAssoc' = wsAssoc /\ r = q
  BY <1>0, <1>5, SomeUser, WSNoNews
<1>6. CASE WSStep
  <2>1. WSNext
    BY <1>6 DEF WSStep
  <2>2. CASE \E t \in Shards :
               \/ WSNoFrontend(t) \/ WSDisconnectClient(t) \/ WSForceLogoff(t)
               \/ WSRelayToFES(t) \/ WSMoveUserDataReq(t) \/ WSQueryDone(t)
               \/ \E from \in Shards \ {t} : WSSendUserData(from, t)
               \/ WSChooseShard(t)
    <3>1. wsAssoc' = wsAssoc /\ r = q
      BY <1>5, <2>2
    <3>2. QED
      BY <1>0, <3>1
  <2>3. CASE \E g \in Fess :
               \/ WSShardAnswer(g) \/ WSLoginClient(g) \/ WSLogoffClient(g)
               \/ WSRemovedPendingCookie(g) \/ WSChangeShardReq(g)
    BY <1>4, <2>3
  <2>4. QED
    BY <2>1, <2>2, <2>3 DEF WSNext
<1>7. QED
  BY <1>3, <1>6

LEMMA FreshKept ==
  ASSUME FailuresTypeOK, NEW f \in Fess, Informed(ShardOf[f]), Standing(f), Sockets(f),
         Fresh(f), [NextF]_allVars
  PROVE  Fresh(f)'
<1>1. CASE Works
  <2>1. fesList' = fesList /\ running' = running
    BY <1>1, WorksSteps, ListFixed
  <2>2. CASE f \notin fesList
    BY <1>1, <2>2, FreshWorks
  <2>3. CASE f \in fesList
    <3>1. f \notin running => Idle(f)'
      BY <1>1, <2>3, IdleKept DEF Fresh
    <3>2. QED
      BY <2>1, <2>3, <3>1 DEF Fresh
  <2>4. QED
    BY <2>2, <2>3
<1>2. ASSUME SocketsLeft(f)
      PROVE  Idle(f)' <=> Idle(f)
  BY <1>2 DEF SocketsLeft, Idle
<1>3. CASE Untouched(f)
  <2>1. /\ f \notin running' \cap fesList' => f \notin running \cap fesList
        /\ f \notin fesList' => f \notin fesList
    BY <1>3 DEF Untouched
  <2>2. net'[Up(f)] = net[Up(f)]
    BY <1>3 DEF Untouched
  <2>3. Idle(f)' <=> Idle(f)
    BY <1>2, <1>3 DEF Untouched
  <2>4. QED
    BY <1>3, <2>1, <2>2, <2>3 DEF Fresh, Untouched, Up
<1>4. CASE Dies(f)
  <2>1. Idle(f)'
    BY <1>4 DEF Dies, Idle
  <2>2. QED
    BY <1>4, <2>1 DEF Dies, Fresh, Up
<1>5. CASE Forgotten(f)
  <2>1. Idle(f)'
    BY <1>2, <1>5 DEF Forgotten, Fresh
  <2>2. DOMAIN net'[Up(f)] = {}
    BY <1>5 DEF Forgotten
  <2>3. QED
    BY <1>5, <2>1, <2>2 DEF Forgotten, Fresh, Up
<1>6. CASE Unheard(f)
  <2>1. Idle(f)' <=> Idle(f)
    BY <1>2, <1>6 DEF Unheard
  <2>2. QED
    BY <1>6, <2>1 DEF Unheard, Fresh, Up
<1>7. QED
  BY <1>1, <1>3, <1>4, <1>5, <1>6, FailureSteps

(* Nothing is less counted than it is after a crash, its discovery and a   *)
(* restart than before.                                                    *)
LEMMA CookiesFKept ==
  ASSUME FailuresTypeOK, NEW f \in Fess, Informed(ShardOf[f]), Standing(f), Fresh(f),
         CookiesCounted(f), [NextF]_allVars
  PROVE  CookiesCounted(f)'
<1> DEFINE c == Cardinality(pending[f])
           d == Number(net[Down(f)], Asks)
           n == Number(net[Up(f)], Spent)
<1>0. /\ TypeOK /\ c \in Nat /\ d \in Nat /\ n \in Nat /\ nbPending[f] \in Nat
      /\ c + d + n <= nbPending[f] /\ IsFiniteSet(pending[f])
  BY AwaitedTyped DEF CookiesCounted, Awaited, FailuresTypeOK
<1>1. CASE Works
  BY <1>0, <1>1, WorksSteps, CookiesKept
<1>2. /\ << >> \in Seq(Message) /\ Number(<< >>, Asks) = 0 /\ Number(<< >>, Spent) = 0
      /\ Cardinality({}) = 0 /\ IsFiniteSet({})
  BY EmptySeq, NumberTyped, FS_EmptySet
<1>3. /\ CookiesCounted(f)' <=> /\ IsFiniteSet(pending'[f])
                                /\ Awaited(f)' <= nbPending'[f]
      /\ Awaited(f)' = Cardinality(pending'[f]) + Number(net'[Down(f)], Asks)
                         + Number(net'[Up(f)], Spent)
  BY DEF CookiesCounted, Awaited, Down, Up
<1>4. CASE Untouched(f)
  BY <1>0, <1>4, NothingMoved DEF Untouched, SocketsLeft
<1>5. CASE Dies(f) \/ Unheard(f)
  <2>1. /\ Cardinality(pending'[f]) \in {0, c} /\ IsFiniteSet(pending'[f])
        /\ Number(net'[Down(f)], Asks) = 0 /\ Number(net'[Up(f)], Spent) = n
        /\ nbPending'[f] = nbPending[f]
    BY <1>0, <1>2, <1>5 DEF Dies, Unheard, SocketsLeft
  <2> HIDE DEF c, d, n
  <2>2. QED
    BY <1>0, <1>3, <2>1
<1>6. CASE Forgotten(f)
  <2>1. /\ Cardinality(pending'[f]) = 0 /\ IsFiniteSet(pending'[f])
        /\ Number(net'[Down(f)], Asks) = 0 /\ Number(net'[Up(f)], Spent) = 0
        /\ nbPending'[f] = 0
    BY <1>2, <1>6 DEF Forgotten, SocketsLeft, Fresh, Idle
  <2>2. QED
    BY <1>3, <2>1
<1>7. QED
  BY <1>1, <1>4, <1>5, <1>6, FailureSteps

-----------------------------------------------------------------------------
(* What a crash does not spoil                                             *)

FInv ==
  /\ FailuresTypeOK
  /\ \A f \in Fess : Informed(ShardOf[f]) /\ Standing(f) /\ Sockets(f) /\ Fresh(f)

(* It holds at the start and outlives every step. *)
LEMMA FInvInit == InitF => FInv
<1> SUFFICES ASSUME InitF PROVE FInv
  OBVIOUS
<1>1. FailuresTypeOK /\ Init /\ TypeOK
  BY FailuresInitTyped DEF InitF, FailuresTypeOK
<1>2. ASSUME NEW f \in Fess
      PROVE  Informed(ShardOf[f]) /\ Standing(f) /\ Sockets(f) /\ Fresh(f)
  <2>1. /\ ShardOf[f] \in Services /\ f \in Services /\ Fess \subseteq Services
    BY PlacesOK DEF Services
  <2>2. /\ entries = [n \in Services |-> "registered"] /\ nsOut = [n \in Services |-> << >>]
        /\ nsAcks = {} /\ running = Fess
    BY DEF InitF, NSInit
  <2>3. Informed(ShardOf[f]) /\ Standing(f)
    BY <2>1, <2>2 DEF Informed, Standing, Told, Acked
  <2>4. Sockets(f)
    BY <1>1, SocketsInit DEF Init
  <2>5. Fresh(f)
    BY <1>1, <2>2 DEF Fresh, Init, WSInit
  <2>6. QED
    BY <2>3, <2>4, <2>5
<1>3. QED
  BY <1>1, <1>2 DEF FInv

LEMMA FInvKept ==
  ASSUME IsFiniteSet(Users), FInv, [NextF]_allVars
  PROVE  FInv'
<1>1. FailuresTypeOK'
  BY FailuresTyped DEF FInv
<1>2. ASSUME NEW f \in Fess
      PROVE  Informed(ShardOf[f])' /\ Standing(f)' /\ Sockets(f)' /\ Fresh(f)'
  <2>1. ShardOf[f] \in Shards
    BY PlacesOK
  <2>2. FailuresTypeOK /\ Informed(ShardOf[f]) /\ Standing(f) /\ Sockets(f) /\ Fresh(f)
    BY DEF FInv
  <2>3. QED
    BY <2>1, <2>2, InformedKept, StandingKept, SocketsFKept, FreshKept
<1>3. QED
  BY <1>1, <1>2 DEF FInv

LEMMA FInvHolds ==
  ASSUME IsFiniteSet(Users)
  PROVE  SpecF => []FInv
<1>1. FInv /\ [NextF]_allVars => FInv'
  BY FInvKept
<1>2. QED
  BY <1>1, FInvInit, PTL DEF SpecF

(* The state stays well typed while front ends crash and start again.      *)
THEOREM FailuresTypeCorrect ==
  ASSUME IsFiniteSet(Users)
  PROVE  SpecF => []FailuresTypeOK
<1>1. FInv => FailuresTypeOK
  BY DEF FInv
<1>2. QED
  BY <1>1, FInvHolds, PTL

(* A front end that starts gets an identifier under which no WS has a      *)
(* front end or a user any more: the naming service gives an identifier    *)
(* out again only when everybody has acknowledged the loss of the last     *)
(* service that had it, and a WS forgets the front end and its users       *)
(* before it acknowledges.                                                 *)
THEOREM StartsUnderANewIdentifier ==
  ASSUME IsFiniteSet(Users)
  PROVE  SpecF => IdentifierIsNew
<1> DEFINE A == \A f \in running' \ running : f \notin fesList /\ UsersOn(f) = {}
<1>1. ASSUME FInv, [NextF]_allVars, NEW f \in running' \ running
      PROVE  f \notin fesList /\ UsersOn(f) = {}
  <2>0. FailuresTypeOK /\ running' \subseteq running \cup Fess
    <3>1. FailuresTypeOK
      BY <1>1 DEF FInv
    <3>2. FailuresTypeOK'
      BY <1>1, FInvKept DEF FInv
    <3>3. QED
      BY <3>1, <3>2 DEF FailuresTypeOK
  <2>1. f \in Fess
    BY <1>1, <2>0
  <2>2. Informed(ShardOf[f]) /\ Standing(f) /\ Fresh(f) /\ f \in Services
    BY <1>1, <2>1 DEF FInv, Services
  <2>3. NSRegister(f)
    BY <1>1, <2>0, NamingSteps
  <2>4. entries[f] = "free"
    BY <2>3 DEF NSRegister
  <2>5. f \notin fesList
    BY <1>1, <2>2, <2>4 DEF Standing, Informed
  <2>6. QED
    BY <2>2, <2>5 DEF Fresh, UsersOn
<1>2. FInv /\ [NextF]_allVars => [A]_allVars
  BY <1>1
<1> HIDE DEF A
<1>3. SpecF => [][A]_allVars
  BY <1>2, FInvHolds, PTL DEF SpecF
<1>4. QED
  BY <1>3 DEF IdentifierIsNew, A

(* NbPendingUsers is never less than the cookies of a front end, although  *)
(* cookies, requests and reports are lost with a front end that crashes.   *)
THEOREM PendingCountedStill ==
  ASSUME IsFiniteSet(Users)
  PROVE  SpecF => []PendingCounted
<1> DEFINE PInv == \A f \in Fess : CookiesCounted(f)
<1>1. InitF => PInv
  BY CookiesInit DEF InitF
<1>2. FInv /\ PInv /\ [NextF]_allVars => PInv'
  <2> SUFFICES ASSUME FInv, PInv, [NextF]_allVars, NEW f \in Fess
               PROVE  CookiesCounted(f)'
    OBVIOUS
  <2>1. FailuresTypeOK /\ Informed(ShardOf[f]) /\ Standing(f) /\ Fresh(f) /\ CookiesCounted(f)
    BY DEF FInv
  <2> HIDE DEF PInv
  <2>2. QED
    BY <2>1, CookiesFKept
<1>3. FInv /\ PInv => PendingCounted
  BY CookiesSuffice DEF FInv, FailuresTypeOK
<1> HIDE DEF PInv
<1>4. QED
  BY <1>1, <1>2, <1>3, FInvHolds, PTL DEF SpecF

(* The records of the LS and the main database know nothing of front ends. *)
LEMMA RecordsKept ==
  ASSUME [NextF]_allVars, ~Works
  PROVE  UNCHANGED sessionVars /\ UNCHANGED dbFaults
BY DEF NextF, allVars, vars, netVars, sessionVars, Crash, NSLosesFrontend, Unsent, FrontendStarts,
       WSFrontendUp, ServiceUnregistered, dbVars

(* As long as no query fails the LS never counts fewer players on a shard  *)
(* than the main database records there, whatever front ends crash.        *)
THEOREM PlayersCountedStill ==
  ASSUME IsFiniteSet(Users), MaxDbFaults = 0
  PROVE  SpecF => []PlayersCounted
<1>1. InitF => PlayersCounted
  BY PlayersInit DEF InitF
<1>2. FInv /\ PlayersCounted /\ [NextF]_allVars => PlayersCounted'
  <2> SUFFICES ASSUME FInv, PlayersCounted, [NextF]_allVars
               PROVE  PlayersCounted'
    OBVIOUS
  <2>1. CASE Works
    BY <2>1, WorksSteps, PlayersKept DEF FInv, FailuresTypeOK
  <2>2. CASE ~Works
    BY <2>2, RecordsKept DEF PlayersCounted, sessionVars, lsVars, dbVars
  <2>3. QED
    BY <2>1, <2>2
<1>3. QED
  BY <1>1, <1>2, FInvHolds, PTL DEF SpecF

-----------------------------------------------------------------------------
(* What a WS knows of the sessions, once every loss has been noticed       *)

(* Every user a WS has a session of stays on a front end of its shard.     *)
LEMMA OfItsShardFKept ==
  ASSUME FailuresTypeOK, OfItsShard, [NextF]_allVars
  PROVE  OfItsShard'
<1>1. CASE Works
  BY <1>1, WorksSteps, OfItsShardKept DEF FailuresTypeOK
<1>2. CASE wsAssoc' = wsAssoc
  BY <1>2 DEF OfItsShard
<1>3. ASSUME NEW f \in Fess, LogoffUsersOn(f)
      PROVE  OfItsShard'
  <2>1. wsAssoc \in [Shards -> [Users -> FesOrNone]]
    BY DEF FailuresTypeOK, TypeOK, WSTypeOK
  <2>2. \A s \in Shards, u \in Users : wsAssoc'[s][u] \in {wsAssoc[s][u], NoFes}
    BY <1>3, <2>1 DEF LogoffUsersOn
  <2>3. QED
    BY <2>2 DEF OfItsShard
<1>4. CASE \E n \in Services : ServiceUnregistered(n)
  BY <1>2, <1>3, <1>4 DEF ServiceUnregistered
<1>5. CASE ~Works /\ ~\E n \in Services : ServiceUnregistered(n)
  <2>1. wsAssoc' = wsAssoc
    BY <1>5 DEF NextF, allVars, vars, wsVars, Crash, NSLosesFrontend, Unsent, FrontendStarts,
                WSFrontendUp
  <2>2. QED
    BY <1>2, <2>1
<1>6. QED
  BY <1>1, <1>4, <1>5

(* Of a front end it does not have a WS is not about to believe anything,  *)
(* and there is nothing to know.                                           *)
LEMMA FreshFaith ==
  ASSUME FailuresTypeOK, NEW f \in Fess, Fresh(f), f \notin fesList, NEW u \in Users
  PROVE  Real(f, u) /\ Known(f, u) /\ assoc[f][u] = 0 /\ wsAssoc[ShardOf[f]][u] # f
<1>1. net[Up(f)] \in Seq(Message)
  BY AwaitedTyped DEF FailuresTypeOK
<1>2. \A i \in DOMAIN net[Up(f)] : net[Up(f)][i] \notin Hellos
  BY DEF Fresh
<1>3. ~LastSays(net[Up(f)], u)
  BY <1>1, <1>2 DEF LastSays, Report, Hellos
<1>4. wsAssoc[ShardOf[f]][u] # f /\ assoc[f][u] = 0
  BY DEF Fresh, Idle
<1>5. QED
  BY <1>3, <1>4 DEF Real, Known, Believed

(* Only front ends run. *)
LEMMA FInvRunning ==
  ASSUME FInv, [NextF]_allVars
  PROVE  running \subseteq Fess /\ running' \subseteq Fess
<1>1. running \subseteq Fess
  BY DEF FInv, FailuresTypeOK
<1>2. \/ running' = running
      \/ \E g \in Fess : running' = running \ {g} \/ running' = running \cup {g}
  BY NamingSteps DEF FInv
<1>3. QED
  BY <1>1, <1>2

(* A front end that runs, and its WS, keep faith with each other whatever  *)
(* has happened to the ones before it.                                     *)
LEMMA FaithFKept ==
  ASSUME FInv, [NextF]_allVars, NEW f \in Fess, NEW u \in Users, f \in running'
  PROVE  /\ (f \in running => Real(f, u)) => Real(f, u)'
         /\ /\ OfItsShard /\ (\A h \in Fess : ShardOf[h] = ShardOf[f] => h = f)
            /\ f \in running => Known(f, u)
            => Known(f, u)'
<1>0. /\ FailuresTypeOK /\ TypeOK /\ Informed(ShardOf[f]) /\ Standing(f) /\ Sockets(f) /\ Fresh(f)
  BY DEF FInv, FailuresTypeOK
<1>1. CASE Works
  <2>1. [Next]_vars /\ running' = running
    BY <1>1, WorksSteps
  <2>2. QED
    BY <1>0, <2>1, FaithKept
<1>2. f \notin fesList => Real(f, u) /\ Known(f, u) /\ assoc[f][u] = 0
  BY <1>0, FreshFaith
<1>3. ASSUME SocketsLeft(f), net'[Up(f)] = net[Up(f)],
             wsAssoc'[ShardOf[f]][u] = f <=> wsAssoc[ShardOf[f]][u] = f
      PROVE  /\ Real(f, u)' <=> Real(f, u)
             /\ net'[Down(f)] = net[Down(f)] \/ assoc[f][u] = 0 => (Known(f, u) => Known(f, u)')
  <2>1. Believed(f, u)' <=> Believed(f, u)
    BY <1>3 DEF Believed, Up
  <2>2. (Held(f, u)' <=> Held(f, u)) /\ assoc'[f][u] = assoc[f][u]
    BY <1>3 DEF SocketsLeft, Held, Ends
  <2>3. QED
    BY <2>1, <2>2 DEF Real, Known, Down
<1>4. CASE Untouched(f)
  <2>1. f \in running \/ f \notin fesList
    BY <1>4 DEF Untouched
  <2>2. QED
    BY <1>2, <1>3, <1>4, <2>1 DEF Untouched
<1>5. CASE Dies(f) \/ Forgotten(f)
  BY <1>5 DEF Dies, Forgotten
<1>6. CASE Unheard(f)
  BY <1>2, <1>3, <1>6 DEF Unheard
<1>7. QED
  BY <1>0, <1>1, <1>4, <1>5, <1>6, FailureSteps

(* Once everything sent has arrived and every loss has been noticed, no WS *)
(* holds a session that no front end has: those of a front end that        *)
(* crashed are forgotten, and what it had still sent resurrects none, not  *)
(* even for a front end that was started again under its identifier.       *)
THEOREM RecoveredSessionsAreReal ==
  ASSUME IsFiniteSet(Users)
  PROVE  SpecF => [](Recovered => SessionsAreReal)
<1> DEFINE RInv == \A f \in running, u \in Users : Real(f, u)
<1>1. InitF => RInv
  BY FaithInit DEF InitF
<1>2. FInv /\ RInv /\ [NextF]_allVars => RInv'
  <2> SUFFICES ASSUME FInv, RInv, [NextF]_allVars, NEW f \in running', NEW u \in Users
               PROVE  Real(f, u)'
    OBVIOUS
  <2>1. f \in Fess
    BY FInvRunning
  <2>2. QED
    BY <2>1, FaithFKept
<1>3. FInv /\ RInv => (Recovered => SessionsAreReal)
  <2> SUFFICES ASSUME FInv, RInv, Recovered, NEW f \in Fess, NEW u \in Users
               PROVE  wsAssoc[ShardOf[f]][u] = f => assoc[f][u] # 0
    BY DEF SessionsAreReal
  <2>1. FailuresTypeOK /\ Fresh(f) /\ TypeOK /\ Settled /\ fesList = running
    BY DEF FInv, FailuresTypeOK, Recovered
  <2>2. CASE f \in running
    BY <2>1, <2>2, SettledFaith
  <2>3. CASE f \notin running
    BY <2>1, <2>3, FreshFaith
  <2>4. QED
    BY <2>2, <2>3
<1> HIDE DEF RInv
<1>4. QED
  BY <1>1, <1>2, <1>3, FInvHolds, PTL DEF SpecF

(* With one front end per shard it knows exactly their sessions: none is   *)
(* lost with the front end that had the identifier before.                 *)
THEOREM SessionsAreRecovered ==
  ASSUME IsFiniteSet(Users), \A f, g \in Fess : ShardOf[f] = ShardOf[g] => f = g
  PROVE  SpecF => []SessionsRecovered
<1> DEFINE KInv == /\ OfItsShard
                   /\ \A f \in running, u \in Users : Real(f, u) /\ Known(f, u)
<1>1. InitF => KInv
  <2> SUFFICES ASSUME InitF PROVE KInv
    OBVIOUS
  <2>1. Init /\ running = Fess
    BY DEF InitF
  <2>2. OfItsShard
    BY <2>1 DEF Init, WSInit, OfItsShard
  <2>3. QED
    BY <2>1, <2>2, FaithInit
<1>2. FInv /\ KInv /\ [NextF]_allVars => KInv'
  <2> SUFFICES ASSUME FInv, KInv, [NextF]_allVars PROVE KInv'
    OBVIOUS
  <2>1. OfItsShard'
    BY OfItsShardFKept DEF FInv
  <2>2. ASSUME NEW f \in running', NEW u \in Users
        PROVE  Real(f, u)' /\ Known(f, u)'
    <3>1. f \in Fess
      BY FInvRunning
    <3>2. QED
      BY <3>1, FaithFKept
  <2>3. QED
    BY <2>1, <2>2
<1>3. FInv /\ KInv => SessionsRecovered
  <2> SUFFICES ASSUME FInv, KInv, Recovered, NEW f \in Fess, NEW u \in Users
               PROVE  wsAssoc[ShardOf[f]][u] = f <=> assoc[f][u] # 0
    BY DEF SessionsRecovered
  <2>1. FailuresTypeOK /\ Fresh(f) /\ TypeOK /\ Settled /\ fesList = running
    BY DEF FInv, FailuresTypeOK, Recovered
  <2>2. CASE f \in running
    BY <2>1, <2>2, SettledFaith
  <2>3. CASE f \notin running
    BY <2>1, <2>3, FreshFaith
  <2>4. QED
    BY <2>2, <2>3
<1> HIDE DEF KInv
<1>4. QED
  BY <1>1, <1>2, <1>3, FInvHolds, PTL DEF SpecF
=============================================================================
