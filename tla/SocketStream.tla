---------------------------- MODULE SocketStream ----------------------------
(***************************************************************************)
(* What a program that uses a server of the network library is told about  *)
(* one of its sockets: one connection, the messages of the client in the   *)
(* order it sent them and without a gap, one disconnection.  A connection  *)
(* the client ended is only reported closed when everything it sent has    *)
(* been handled; when the server ends it, messages may be left out or come *)
(* after the disconnection.                                                *)
(***************************************************************************)
EXTENDS Naturals

CONSTANT Socks

VARIABLES
  phase,   \* whether the connection and the disconnection were reported
  told,    \* how many messages of the client were handled
  sent,    \* how many messages the client has sent
  cut      \* whether the server side has ended the connection

vars == <<phase, told, sent, cut>>

Init == /\ phase = [s \in Socks |-> "new"]
        /\ told = [s \in Socks |-> 0]
        /\ sent = [s \in Socks |-> 0]
        /\ cut = [s \in Socks |-> FALSE]

Say(s)  == /\ sent' = [sent EXCEPT ![s] = @ + 1]
           /\ UNCHANGED <<phase, told, cut>>
Connect(s) == /\ phase[s] = "new"
              /\ phase' = [phase EXCEPT ![s] = "open"]
              /\ UNCHANGED <<told, sent>>
Hear(s) == /\ phase[s] = "open" \/ (phase[s] = "closed" /\ cut[s])
           /\ told[s] < sent[s]
           /\ told' = [told EXCEPT ![s] = @ + 1]
           /\ UNCHANGED <<phase, sent>>
Disconnect(s) == /\ phase[s] = "open"
                 /\ cut[s] \/ told[s] = sent[s]
                 /\ phase' = [phase EXCEPT ![s] = "closed"]
                 /\ UNCHANGED <<told, sent>>
(* The server may end any connection, also while it handles something. *)
Cuts == \A s \in Socks : cut[s] => cut'[s]
Cut  == cut' \in [Socks -> BOOLEAN] /\ UNCHANGED <<phase, told, sent>>

Next == \/ \E s \in Socks : Say(s)
        \/ Cuts /\ (Cut \/ \E s \in Socks : Connect(s) \/ Hear(s) \/ Disconnect(s))

Spec == Init /\ [][Next]_vars
=============================================================================
