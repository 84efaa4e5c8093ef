---------------------------- MODULE MCBroadcast ----------------------------
(***************************************************************************)
(* An instance of Broadcast for TLC.                                       *)
(***************************************************************************)
EXTENDS Broadcast, TLC

CONSTANTS b1

\* One broadcast to two users.
OneBroadcast == [j \in Jobs |-> b1]

=============================================================================
