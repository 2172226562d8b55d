------------------------------ MODULE ShardPlay ------------------------------
(***************************************************************************)
(* What the shard services promise a user: it is in the rooms of one shard *)
(* at a time, it leaves them before it enters those of another, and it     *)
(* always finds its data as it left it, wherever it played last.           *)
(***************************************************************************)
EXTENDS Naturals

CONSTANTS Users, Shards, NoShard

VARIABLES
  where,    \* the shard a user is in the rooms of
  latest,   \* the version of the last change to a user's data
  seen      \* the version the shard it is on has, or will be given
playVars == <<where, latest, seen>>

Init ==
  /\ where = [u \in Users |-> NoShard]
  /\ latest = [u \in Users |-> 1]
  /\ seen = latest

EnterShard(u, s) ==
  /\ where[u] = NoShard
  /\ where' = [where EXCEPT ![u] = s]
  /\ UNCHANGED <<latest, seen>>
LeaveShard(u) ==
  /\ where[u] # NoShard
  /\ where' = [where EXCEPT ![u] = NoShard]
  /\ UNCHANGED <<latest, seen>>
Change(u) ==
  /\ where[u] # NoShard
  /\ seen[u] = latest[u]
  /\ latest' = [latest EXCEPT ![u] = @ + 1]
  /\ seen' = [seen EXCEPT ![u] = latest'[u]]
  /\ UNCHANGED where

Next == \E u \in Users : \/ \E s \in Shards : EnterShard(u, s)
                         \/ LeaveShard(u) \/ Change(u)
Spec == Init /\ [][Next]_playVars
=============================================================================
