----------------------------- MODULE RiteQueue -----------------------------
(***************************************************************************)
(* What a room promises about the places where rites are held: whoever     *)
(* asks gets a free desk of the place or a turn at the end of its line,    *)
(* a desk that becomes free goes to the first of the line at once, nobody  *)
(* is passed over and nobody has two turns.                                *)
(***************************************************************************)
EXTENDS Naturals, Sequences

CONSTANTS Users, NoUser, Positions, DeskCount

VARIABLES
  holder,  \* per place and desk: the user whose rite it is
  line     \* per place: who waits for a desk, first come first served

vars == <<holder, line>>

Desks(p) == 0 .. DeskCount[p] - 1

Init == /\ holder = [p \in Positions |-> [d \in Desks(p) |-> NoUser]]
        /\ line = [p \in Positions |-> <<>>]

HasTurn(u) == \E p \in Positions : \/ \E d \in Desks(p) : holder[p][d] = u
                                   \/ \E i \in DOMAIN line[p] : line[p][i] = u

TakeDesk(u, p) ==
  /\ ~HasTurn(u)
  /\ \E d \in Desks(p) : holder[p][d] = NoUser /\ holder' = [holder EXCEPT ![p][d] = u]
  /\ UNCHANGED line

LineUp(u, p) ==
  /\ ~HasTurn(u)
  /\ \A d \in Desks(p) : holder[p][d] # NoUser
  /\ line' = [line EXCEPT ![p] = Append(@, u)]
  /\ UNCHANGED holder

LeaveDesk(p, d) ==
  /\ holder[p][d] # NoUser
  /\ IF line[p] = <<>>
     THEN holder' = [holder EXCEPT ![p][d] = NoUser] /\ UNCHANGED line
     ELSE /\ holder' = [holder EXCEPT ![p][d] = Head(line[p])]
          /\ line' = [line EXCEPT ![p] = Tail(@)]

LeaveLine(u, p) ==
  /\ \E k \in DOMAIN line[p] :
       /\ line[p][k] = u
       /\ line' = [line EXCEPT ![p] = SubSeq(@, 1, k - 1) \o SubSeq(@, k + 1, Len(@))]
  /\ UNCHANGED holder

CloseLine(p) == line' = [line EXCEPT ![p] = <<>>] /\ UNCHANGED holder

Next == \E p \in Positions :
          \/ \E u \in Users : TakeDesk(u, p) \/ LineUp(u, p) \/ LeaveLine(u, p)
          \/ \E d \in Desks(p) : LeaveDesk(p, d)
          \/ CloseLine(p)

Spec == Init /\ [][Next]_vars
=============================================================================
