------------------------ MODULE MCNotificationQueue ------------------------
(***************************************************************************)
(* Instances of NotificationQueue for TLC.  Jobs are interchangeable, and  *)
(* so are workers.                                                         *)
(***************************************************************************)
EXTENDS NotificationQueue, TLC

QueueSymmetry == Permutations(Jobs) \cup Permutations(Workers)
=============================================================================
