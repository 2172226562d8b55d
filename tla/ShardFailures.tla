---------------------------- MODULE ShardFailures ----------------------------
(***************************************************************************)
(* Sessions when a front end crashes and is started again: the naming      *)
(* service tells everybody, the WS logs off the users it had there         *)
(* (cbFESDisconnection), and a new front end may get the same identifier.  *)
(***************************************************************************)
EXTENDS ShardSession, NamingService
Seqs == INSTANCE SequencesExt

CONSTANT MaxCrashes     \* bound: crashes of front ends in a behaviour
ASSUME CrashesOK == MaxCrashes \in Nat

VARIABLES
  running,      \* the front ends that run
  crashes       \* crashes so far

sessionVars == <<dbVars, lsVars, ssVars, changes, latest>>
allVars     == <<vars, nsVars, running, crashes>>

InitF == Init /\ NSInit /\ running = Fess /\ crashes = 0

ToFES(f)   == <<ShardOf[f], f>>
FromFES(f) == <<f, ShardOf[f]>>

(* What ShardSession does, as far as the front ends run and are connected. *)
Works ==
  /\ Next
  /\ \A f \in Fess :
       /\ f \notin running => UNCHANGED <<conn[f], pending[f], assoc[f], events[f]>>
       /\ f \notin running \cap fesList => Len(net'[ToFES(f)]) >= Len(net[ToFES(f)])
  /\ UNCHANGED <<nsVars, running, crashes>>

(* A front end dies with its clients' sockets, its sessions, its cookies   *)
(* and what it has not read; what it has sent may still arrive.            *)
Crash(f) ==
  /\ crashes < MaxCrashes /\ f \in running
  /\ crashes' = crashes + 1
  /\ running' = running \ {f}
  /\ conn' = [conn EXCEPT ![f] = [k \in Conns |-> FreeConn]]
  /\ pending' = [pending EXCEPT ![f] = {}]
  /\ assoc' = [assoc EXCEPT ![f] = [u \in Users |-> 0]]
  /\ events' = [events EXCEPT ![f] = << >>]
  /\ net' = [net EXCEPT ![ToFES(f)] = << >>]
  /\ nsOut' = [nsOut EXCEPT ![f] = << >>]
  /\ UNCHANGED <<dbFaults, sessionVars, wsVars, offers, cookieTimeouts,
                 entries, awaited, nsAcks>>

(* The NS notices. *)
NSLosesFrontend(f) ==
  /\ f \notin running
  /\ NSServiceLost(f)
  /\ UNCHANGED <<vars, running, crashes>>

-----------------------------------------------------------------------------
(* What the WS of a lost front end does *)

(* The users the WS has on f, and the logouts LogoffClient queues for U.   *)
UsersOn(f) == {u \in Users : wsAssoc[ShardOf[f]][u] = f}
Logouts(U) == LET us == Seqs!SetToSeq(U)
              IN  [i \in DOMAIN us |->
                     [job |-> "FamilyLogout", u |-> us[i], to |-> NoShard]]

(* A faulty variant: the users' sessions are not looked for. *)
LogoffNobody(f) == UNCHANGED <<wsAssoc, jobs>>
(* cbFESDisconnection, its loop: every user the WS has on f is logged off. *)
LogoffUsersOn(f) ==
  /\ wsAssoc' = [wsAssoc EXCEPT ![ShardOf[f]] =
                   [u \in Users |-> IF u \in UsersOn(f) THEN NoFes ELSE @[u]]]
  /\ jobs' = [jobs EXCEPT ![ShardOf[f]] = @ \o Logouts(UsersOn(f))]

(* A faulty variant: the counters of the front end survive it. *)
ForgetButCount(f) == fesList' = fesList \ {f} /\ UNCHANGED <<nbUser, nbPending>>
(* FESList.erase: the front end is forgotten with its counters. *)
ForgetFES(f) ==
  /\ fesList' = fesList \ {f}
  /\ nbUser' = [nbUser EXCEPT ![f] = 0]
  /\ nbPending' = [nbPending EXCEPT ![f] = 0]

(* A faulty variant: what the lost front end had sent is still handled. *)
ConnectionKept(f) == net' = [net EXCEPT ![ToFES(f)] = << >>]
(* uNetUnregistrationBroadcast after the callback: the connection is dead, *)
(* what has not been read from it is ignored.                              *)
ConnectionDead(f) == net' = [net EXCEPT ![ToFES(f)] = << >>, ![FromFES(f)] = << >>]

(* A service is told that another is gone: the WS of a front end logs its  *)
(* users off; to the others it is nothing.                                 *)
ServiceUnregistered(n) ==
  /\ \E f \in Fess :
       /\ Unregistered(n, f)
       /\ IF f \in fesList /\ n = ShardOf[f]
          THEN LogoffUsersOn(f) /\ ForgetFES(f) /\ ConnectionDead(f)
          ELSE UNCHANGED <<wsAssoc, jobs, fesList, nbUser, nbPending, net>>
  /\ UNCHANGED <<dbFaults, sessionVars, data, fsVars, running, crashes>>

(* send to a service there is no connection to: the message is dropped. *)
Unsent(f) ==
  /\ f \notin fesList /\ net[ToFES(f)] # << >>
  /\ net' = [net EXCEPT ![ToFES(f)] = << >>]
  /\ UNCHANGED <<dbFaults, sessionVars, wsVars, fsVars, nsVars, running, crashes>>

(* A new front end registers with the NS ... *)
FrontendStarts(f) ==
  /\ f \notin running
  /\ NSRegister(f)
  /\ running' = running \cup {f}
  /\ UNCHANGED <<vars, crashes>>

(* ... and connects to its WS (cbFESConnection). *)
WSFrontendUp(f) ==
  /\ f \in running \ fesList
  /\ net[ToFES(f)] = << >>
  /\ fesList' = fesList \cup {f}
  /\ UNCHANGED <<netVars, sessionVars, nbUser, nbPending, wsAssoc, jobs, data,
                 fsVars, nsVars, running, crashes>>

NextF ==
  \/ Works
  \/ \E f \in Fess : \/ Crash(f) \/ NSLosesFrontend(f) \/ Unsent(f)
                      \/ FrontendStarts(f) \/ WSFrontendUp(f)
  \/ \E n \in Services : ServiceUnregistered(n)
  \/ NSAckUnregistration /\ UNCHANGED <<vars, running, crashes>>

SpecF == InitF /\ [][NextF]_allVars

-----------------------------------------------------------------------------
(* What is left once every loss has been noticed *)

Recovered == Settled /\ fesList = running

(* The WS knows exactly the sessions its front ends have: those of a dead  *)
(* one are forgotten, and none is resurrected by what it had still sent.   *)
SessionsRecovered ==
  Recovered => \A f \in Fess, u \in Users :
                 wsAssoc[ShardOf[f]][u] = f <=> assoc[f][u] # 0

(* No user stays online in the main database because the front end that    *)
(* would have reported its logoff is dead: it could not log in any more.   *)
LogoffsRecovered ==
  Recovered => \A u \in Users : dbOnline[u] # NoShard =>
                 \E f \in FesOf(dbOnline[u]) : assoc[f][u] # 0

(* NbUser, by which the WS spreads the users, is the number of sessions.   *)
LoadRecovered ==
  Recovered => \A f \in Fess :
                 nbUser[f] = Cardinality({u \in Users : assoc[f][u] # 0})

(* A new front end never gets an identifier under which a WS still has the *)
(* old one: it would take over its users, and be lost with it.             *)
IdentifierIsNew ==
  [][\A f \in running' \ running :
       f \notin fesList /\ UsersOn(f) = {}]_allVars
=============================================================================
