---------------------------- MODULE MCActivities ----------------------------
(* The instance of Activities that TLC checks: a place with one desk, whose*)
(* rites may be of many, and a place with two, whose rites are of one.     *)
EXTENDS Activities

OneAndTwo == [p \in Positions |-> p]
=============================================================================
