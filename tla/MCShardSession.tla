--------------------------- MODULE MCShardSession ---------------------------
(* Small instances of ShardSession for TLC. *)
EXTENDS ShardSession
CONSTANTS u1, u2, A, B, C, a1, a2, b1, c1

(* The shard of a front end is the one its name tells. *)
HomeOf  == [f \in Fess |-> CASE f \in {a1, a2} -> A [] f = b1 -> B [] f = c1 -> C]
MainIsA == [u \in Users |-> A]
(* New users have their data where they were created, others left it on B. *)
NewUsers == [u \in Users |-> NoShard]
OnB      == [u \in Users |-> B]
(* Room for ten players on a shard, or for one. *)
Roomy == [s \in Shards |-> 10]
Tight == [s \in Shards |-> 1]
=============================================================================
