---------------------------- MODULE MCSbpPayment ----------------------------
(***************************************************************************)
(* Instances of SbpPayment for TLC: one event sells one kind of ticket.    *)
(* Requests are interchangeable.                                           *)
(***************************************************************************)
EXTENDS SbpPayment, TLC

CONSTANTS e1, t1

OneEvent == [p \in Products |-> e1]

RequestSymmetry == Permutations(Requests)
=============================================================================
