---------------------------- MODULE TicketLedger ----------------------------
(***************************************************************************)
(* What the ticket shop promises about an order and its tickets, whatever  *)
(* it keeps to do so: an order is paid at most once, a void order never    *)
(* comes back, a ticket admits at most once and only while its order is    *)
(* paid, and an order is used up exactly when its last ticket is.          *)
(***************************************************************************)
CONSTANTS Orders, Tickets

VARIABLES
  phase,     \* of every order: "none", "open", "paid", "used", "void", "gone"
  holds,     \* the tickets of every order
  admitted   \* the tickets that were used

vars == <<phase, holds, admitted>>

Init ==
  /\ phase = [o \in Orders |-> "none"]
  /\ holds = [o \in Orders |-> {}]
  /\ admitted = {}

Place(o, S) ==
  /\ phase[o] = "none"
  /\ S # {}
  /\ S \cap admitted = {}
  /\ phase' = [phase EXCEPT ![o] = "open"]
  /\ holds' = [holds EXCEPT ![o] = S]
  /\ UNCHANGED admitted

Pay(o) ==
  /\ phase[o] = "open"
  /\ phase' = [phase EXCEPT ![o] = "paid"]
  /\ UNCHANGED <<holds, admitted>>

Admit(o, t) ==
  /\ phase[o] = "paid"
  /\ t \in holds[o] \ admitted
  /\ admitted' = admitted \cup {t}
  /\ phase' = [phase EXCEPT ![o] = IF holds[o] \subseteq admitted' THEN "used" ELSE @]
  /\ UNCHANGED holds

Void(o) ==
  /\ phase[o] \in {"open", "paid"}
  /\ phase' = [phase EXCEPT ![o] = "void"]
  /\ UNCHANGED <<holds, admitted>>

\* Orders may be erased together, from any phase they were placed in.
Erase(S) ==
  /\ \A o \in S : phase[o] \notin {"none", "gone"}
  /\ phase' = [o \in Orders |-> IF o \in S THEN "gone" ELSE phase[o]]
  /\ holds' = [o \in Orders |-> IF o \in S THEN {} ELSE holds[o]]
  /\ admitted' = admitted \ UNION {holds[o] : o \in S}

Next ==
  \/ \E o \in Orders : Pay(o) \/ Void(o)
  \/ \E o \in Orders : \E t \in Tickets : Admit(o, t)
  \/ \E o \in Orders : \E S \in SUBSET Tickets : Place(o, S)
  \/ \E S \in SUBSET Orders : Erase(S)

Spec == Init /\ [][Next]_vars
=============================================================================
