---------------------------- MODULE MCTicketing ----------------------------
(***************************************************************************)
(* The instance of Ticketing for TLC.  Orders are interchangeable.         *)
(***************************************************************************)
EXTENDS Ticketing, TLC

CONSTANTS e1, t1, r1

\* One event sells everything.
OneEvent == [p \in Products |-> e1]

OrderSymmetry == Permutations(Orders)
=============================================================================
