---------------------------- MODULE NamingService ----------------------------
(***************************************************************************)
(* The naming service (NS), as the welcome services and the front ends use *)
(* it: it gives out the identifiers (sid) of services and tells everybody  *)
(* who has gone; it gives the identifier of a lost service out again only  *)
(* when every service has acknowledged the loss (naming_service.cpp,       *)
(* naming_client.cpp). That they do so within ten seconds is assumed.      *)
(***************************************************************************)
EXTENDS ShardNet

VARIABLES
  entries,      \* RegisteredServices: what the NS has under an identifier
  awaited,      \* WaitingUnregistrationServices of every entry
  nsOut,        \* M_NAMING_CLIENT_UNB on their way to every service
  nsAcks        \* M_NAMING_CLIENT_ACK_UNI on their way to the NS

nsVars == <<entries, awaited, nsOut, nsAcks>>

Services == Shards \cup Fess

NSTypeOK ==
  /\ entries \in [Services -> {"registered", "leaving", "free"}]
  /\ awaited \in [Services -> SUBSET Services]
  /\ nsOut \in [Services -> Seq(Services)]
  /\ nsAcks \in SUBSET [from : Services, sid : Services]

NSInit ==
  /\ entries = [n \in Services |-> "registered"]
  /\ awaited = [n \in Services |-> {}]
  /\ nsOut = [n \in Services |-> << >>]
  /\ nsAcks = {}

Registered == {n \in Services : entries[n] = "registered"}

(* A faulty variant: an entry does not wait for anybody. *)
SweptAtOnce(en, aw) ==
  [n \in Services |-> IF en[n] = "leaving" THEN "free" ELSE en[n]]
(* checkWaitingUnregistrationServices, which runs at every update: entries *)
(* nobody's ACK is awaited for are removed, their identifiers are free.    *)
Swept(en, aw) ==
  [n \in Services |-> IF en[n] = "leaving" /\ aw[n] = {} THEN "free" ELSE en[n]]

(* cbDisconnect, doRemove: the connection of service d is lost. Everybody  *)
(* else is told and owes an ACK; d itself owes none any more.              *)
NSServiceLost(d) ==
  LET others == Registered \ {d}
      aw     == [n \in Services |-> IF n = d THEN others ELSE awaited[n] \ {d}]
  IN  /\ entries[d] = "registered"
      /\ entries' = Swept([entries EXCEPT ![d] = "leaving"], aw)
      /\ awaited' = aw
      /\ nsOut' = [n \in Services |-> IF n \in others THEN Append(nsOut[n], d)
                                                      ELSE nsOut[n]]
      /\ UNCHANGED nsAcks

(* cbACKUnregistration *)
NSAckUnregistration ==
  \E a \in nsAcks :
    LET aw == IF entries[a.sid] = "leaving"
              THEN [awaited EXCEPT ![a.sid] = @ \ {a.from}] ELSE awaited
    IN  /\ nsAcks' = nsAcks \ {a}
        /\ awaited' = aw
        /\ entries' = Swept(entries, aw)
        /\ UNCHANGED nsOut

(* doRegister: a new process gets an identifier that is free. *)
NSRegister(d) ==
  /\ entries[d] = "free"
  /\ entries' = [entries EXCEPT ![d] = "registered"]
  /\ UNCHANGED <<awaited, nsOut, nsAcks>>

(* CNamingClient's cbUnregisterBroadcast in service n, up to the callback. *)
Unregistered(n, d) ==
  /\ nsOut[n] # << >> /\ d = Head(nsOut[n])
  /\ nsOut' = [nsOut EXCEPT ![n] = Tail(@)]
  /\ nsAcks' = nsAcks \cup {[from |-> n, sid |-> d]}
  /\ UNCHANGED <<entries, awaited>>
=============================================================================
