------------------------ MODULE NotificationContract ------------------------
(***************************************************************************)
(* What the notification queue promises about a job: once enqueued it is   *)
(* owed until it is settled, a settled job stays settled, and a job is     *)
(* settled as sent only if its user received the message.  The message may *)
(* arrive more than once: delivery is at least once.                       *)
(***************************************************************************)
EXTENDS Naturals

CONSTANT Jobs

VARIABLES
  state,    \* "none", "owed", "sent", "failed" or "gone"
  copies    \* how often the message of the job reached its user

vars == <<state, copies>>

Init ==
  /\ state = [j \in Jobs |-> "none"]
  /\ copies = [j \in Jobs |-> 0]

Enqueue(S) ==
  /\ \A j \in S : state[j] = "none"
  /\ state' = [j \in Jobs |-> IF j \in S THEN "owed" ELSE state[j]]
  /\ UNCHANGED copies

\* One attempt brings the message once, or twice as a photo and as a text.
Deliver(j, n) ==
  /\ state[j] \in {"owed", "gone"}
  /\ copies' = [copies EXCEPT ![j] = @ + n]
  /\ UNCHANGED state

Settle(j) ==
  /\ state[j] = "owed"
  /\ \E s \in {"sent", "failed"} :
       /\ s = "sent" => copies[j] > 0
       /\ state' = [state EXCEPT ![j] = s]
  /\ UNCHANGED copies

\* The event of the job is deleted.
Erase(S) ==
  /\ \A j \in S : state[j] # "none"
  /\ state' = [j \in Jobs |-> IF j \in S THEN "gone" ELSE state[j]]
  /\ UNCHANGED copies

Next ==
  \/ \E S \in SUBSET Jobs : Enqueue(S) \/ Erase(S)
  \/ \E j \in Jobs : Settle(j) \/ (\E n \in {1, 2} : Deliver(j, n))

Spec == Init /\ [][Next]_vars
=============================================================================
