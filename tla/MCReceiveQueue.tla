--------------------------- MODULE MCReceiveQueue ---------------------------
(* Small instances of ReceiveQueue for TLC. *)
EXTENDS ReceiveQueue, TLC
CONSTANTS s1, s2, t1, t2

(* One client that talks twice, one that says something once. *)
TwiceAndOnce == [s \in Socks |-> IF s = s1 THEN 2 ELSE 1]
Once == [s \in Socks |-> 1]
(* The receive threads are alike. *)
Alike == Permutations(Tasks)
=============================================================================
