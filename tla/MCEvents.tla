------------------------------ MODULE MCEvents ------------------------------
(***************************************************************************)
(* The instance of Events for TLC.  No action prefers a user, an event or  *)
(* a request to another.  Two questions are asked of one run: how two      *)
(* users meet on one event of any kind, and how one user creates several   *)
(* plain ones.  The constraint leaves out the product of the two.          *)
(***************************************************************************)
EXTENDS Events, TLC

Symmetry ==
  Permutations(Users) \cup Permutations(Events) \cup Permutations(Requests)

Busy == {r \in Requests : request[r] # NoRequest}

Acting ==
  UNION {participants[e] \cup reminders[e] \cup ({creator[e]} \ {Nobody}) : e \in Events}
    \cup {request[r].user : r \in {s \in Busy : "user" \in DOMAIN request[s]}}

\* The hour matters to who creates a second event, not to the first one.
OneEvent ==
  /\ faults = 0
  /\ Cardinality({e \in Events : eventRow[e] # "none"}) <= 1
  /\ \A e \in Events : eventRow[e] = "live" => e \in young

OneCreator ==
  /\ Cardinality(Acting) <= 1
  /\ private = {} /\ distant = {} /\ moved = {} /\ keyed = {}
  /\ peak = [e \in Events |-> 0]
  /\ \A r \in Busy : "start" \notin DOMAIN request[r] \/ request[r].start = "near"

Bounded == OneEvent \/ OneCreator
=============================================================================
