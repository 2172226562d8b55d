-------------------------- MODULE MCShardFailures --------------------------
(* Small instances of ShardFailures for TLC. *)
EXTENDS ShardFailures, TLC
CONSTANTS u1, u2, A, a1, a2

AllOnA   == [f \in Fess |-> A]
MainIsA  == [u \in Users |-> A]
NewUsers == [u \in Users |-> NoShard]
Tight == [s \in Shards |-> 1]
(* The front ends of the shard are alike. *)
Alike == Permutations(Fess)
=============================================================================
