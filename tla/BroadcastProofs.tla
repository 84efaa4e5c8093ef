-------------------------- MODULE BroadcastProofs --------------------------
(***************************************************************************)
(* Theorems about Broadcast, for any broadcasts, jobs, requests and        *)
(* faults: a broadcast that is done was sent to everybody, its jobs keep   *)
(* NotificationContract, and each fault costs at most one duplicate.       *)
(***************************************************************************)
EXTENDS Broadcast, Counting

\* The worker has claimed what it holds, and it holds a job once.  While it
\* works nobody requeues, so that its jobs stay claimed.
HoldsClaimed ==
  /\ batch # {} \/ sending # Nothing => phase = "work"
  /\ verdict # Nothing => phase = "finalize"
  /\ \A j \in batch : jobStatus[j] = "processing"
  /\ sending # Nothing =>
       /\ jobStatus[sending.job] = "processing" /\ sending.job \notin batch
       /\ sending.result = "sent" => copies[sending.job] > 0
  /\ \A j \in stale : jobStatus[j] = "processing"

Begun(b) == status[b] \notin {"none", "pending"}

\* Whoever counts the jobs of a broadcast, or has counted them, does so after
\* its start: jobs that are inserted from then on are late.
CountsBegun ==
  /\ \A j \in batch : Begun(BroadcastOf[j])
  /\ \A b \in touched : Begun(b)
  /\ verdict # Nothing => Begun(verdict.broadcast)
  /\ \A r \in Requests :
       At(r, "count") \/ At(r, "finish") => Begun(request[r].broadcast)

AllSent(b) ==
  \A j \in Jobs \ late : BroadcastOf[j] = b => jobStatus[j] \in {"none", "sent"}

\* "done" is true when it is counted, and stays true until it is written.
DoneTruthful ==
  /\ \A b \in Broadcasts : status[b] = "done" => AllSent(b)
  /\ verdict # Nothing /\ verdict.outcome = "done" => AllSent(verdict.broadcast)
  /\ \A r \in Requests :
       At(r, "finish") /\ request[r].outcome = "done" => AllSent(request[r].broadcast)

BroadcastInv == TypeOK /\ HoldsClaimed /\ CountsBegun /\ DoneTruthful

-----------------------------------------------------------------------------
(***************************************************************************)
(* Types.                                                                  *)
(***************************************************************************)
LEMMA RequestsTyped ==
  ASSUME TypeOK, NEW r \in Requests
  PROVE  /\ request' = [request EXCEPT ![r] = Nothing] =>
              request' \in [Requests -> RequestStates \cup {Nothing}]
         /\ \A stage \in {"insert", "markFailed", "count"}, b \in Broadcasts :
              request' = [request EXCEPT ![r] = [stage |-> stage, broadcast |-> b]] =>
                request' \in [Requests -> RequestStates \cup {Nothing}]
         /\ \A stage \in {"insert", "markFailed", "count", "finish"} :
              At(r, stage) => request[r].broadcast \in Broadcasts
BY DEF TypeOK, RequestStates, At

LEMMA AdminTyped ==
  ASSUME TypeOK, Admin
  PROVE  TypeOK'
<1>1. PICK r \in Requests :
        \/ \E b \in Broadcasts : CreateRow(r, b) \/ Start(r, b)
        \/ \E S \in SUBSET Jobs : InsertFails(r, S)
        \/ RequestEnds(r)
  BY DEF Admin
<1>2. ASSUME NEW b \in Broadcasts, CreateRow(r, b) PROVE TypeOK'
  BY <1>2, RequestsTyped DEF TypeOK, CreateRow, workerVars, historyVars
<1>3. ASSUME NEW b \in Broadcasts, Start(r, b) PROVE TypeOK'
  BY <1>3, RequestsTyped DEF TypeOK, Start, workerVars, historyVars
<1>4. ASSUME NEW S \in SUBSET Jobs, InsertFails(r, S) PROVE TypeOK'
  <2>1. /\ request[r] \in RequestStates /\ request[r].stage = "insert"
        /\ request' = [request EXCEPT ![r].stage = "markFailed"]
    BY <1>4 DEF InsertFails, At, TypeOK
  <2>2. [request[r] EXCEPT !.stage = "markFailed"] \in RequestStates
    BY <2>1 DEF RequestStates
  <2>3. request' \in [Requests -> RequestStates \cup {Nothing}]
    BY <2>1, <2>2 DEF TypeOK
  <2>. QED
    BY <1>4, <2>3, BroadcastAssumption DEF TypeOK, InsertFails, InsertRows, Fault, workerVars
<1>5. CASE RequestEnds(r)
  BY <1>5, RequestsTyped, BroadcastAssumption
     DEF TypeOK, RequestEnds, Reply, Fault, rowVars, workerVars
<1>. QED
  BY <1>1, <1>2, <1>3, <1>4, <1>5

LEMMA ServeTyped ==
  ASSUME TypeOK, NEW r \in Requests, Serve(r)
  PROVE  TypeOK'
<1>1. ASSUME NEW S \in SUBSET Jobs, InsertJobs(r, S) PROVE TypeOK'
  BY <1>1, RequestsTyped DEF TypeOK, InsertJobs, InsertRows, Reply, workerVars
<1>2. CASE MarkFailed(r)
  BY <1>2, RequestsTyped DEF TypeOK, MarkFailed, Reply, workerVars, historyVars
<1>3. CASE Count(r)
  <2>1. request' \in [Requests -> RequestStates \cup {Nothing}]
    BY <1>3, RequestsTyped DEF TypeOK, Count, Reply, Outcome, RequestStates
  <2>. QED
    BY <1>3, <2>1 DEF TypeOK, Count, rowVars, workerVars, historyVars
<1>4. CASE Finish(r)
  <2>1. request[r].outcome \in {"done", "failed"}
    BY <1>4 DEF TypeOK, Finish, At, RequestStates
  <2>. QED
    BY <1>4, <2>1, RequestsTyped DEF TypeOK, Finish, Reply, workerVars, historyVars
<1>. QED
  BY <1>1, <1>2, <1>3, <1>4 DEF Serve

LEMMA WorkTyped ==
  ASSUME TypeOK, Work
  PROVE  TypeOK'
<1>1. CASE Requeue
  BY <1>1 DEF TypeOK, Requeue, historyVars
<1>2. ASSUME NEW S \in SUBSET Jobs, Fetch(S) PROVE TypeOK'
  BY <1>2 DEF TypeOK, Fetch, Claim, historyVars
<1>3. ASSUME NEW j \in batch, NEW result \in {"sent", "failed"}, HandleJob(j, result)
      PROVE  TypeOK'
  BY <1>3, BroadcastAssumption DEF TypeOK, HandleJob, rowVars
<1>4. CASE Record
  BY <1>4 DEF TypeOK, Record, GoOn, historyVars
<1>5. ASSUME NEW b \in touched, CountTouched(b) PROVE TypeOK'
  BY <1>5 DEF TypeOK, CountTouched, Outcome, Verdicts, AfterFinalizing, rowVars, historyVars
<1>6. CASE FinishTouched
  BY <1>6 DEF TypeOK, FinishTouched, Verdicts, AfterFinalizing, historyVars
<1>7. CASE Restart
  BY <1>7 DEF TypeOK, Restart, rowVars, historyVars
<1>. QED
  BY <1>1, <1>2, <1>3, <1>4, <1>5, <1>6, <1>7 DEF Work

LEMMA DisturbTyped ==
  ASSUME TypeOK, Disturb
  PROVE  TypeOK'
<1>a. Fault => faults' \in 0..MaxFaults
  BY BroadcastAssumption DEF TypeOK, Fault
<1>1. CASE RequeueFails
  BY <1>a, <1>1 DEF TypeOK, RequeueFails, rowVars
<1>2. ASSUME NEW S \in SUBSET Jobs, FetchFails(S) PROVE TypeOK'
  BY <1>a, <1>2 DEF TypeOK, FetchFails, Claim
<1>3. ASSUME NEW j \in batch, NEW result \in {"sent", "failed"}, HandleJobDoubtful(j, result)
      PROVE  TypeOK'
  <2>1. copies' \in [Jobs -> Nat]
    BY <1>3 DEF TypeOK, HandleJobDoubtful
  <2>. QED
    BY <1>a, <1>3, <2>1, BroadcastAssumption DEF TypeOK, HandleJobDoubtful, rowVars
<1>4. ASSUME NEW j \in batch, PayloadFails(j) PROVE TypeOK'
  BY <1>a, <1>4 DEF TypeOK, PayloadFails, rowVars
<1>5. CASE RecordFails
  BY <1>a, <1>5 DEF TypeOK, RecordFails, GoOn, rowVars
<1>6. ASSUME NEW b \in Broadcasts, FinalizeFails(b) PROVE TypeOK'
  BY <1>a, <1>6 DEF TypeOK, FinalizeFails, AfterFinalizing, rowVars
<1>7. CASE Crash
  BY <1>a, <1>7 DEF TypeOK, Crash, rowVars
<1>. QED
  BY <1>1, <1>2, <1>3, <1>4, <1>5, <1>6, <1>7 DEF Disturb

LEMMA StepTyped == TypeOK /\ [Next]_vars => TypeOK'
<1>1. ASSUME TypeOK, NEW j \in Jobs, GoStale(j) PROVE TypeOK'
  BY <1>1 DEF TypeOK, GoStale, workerVars, historyVars
<1>2. ASSUME TypeOK, UNCHANGED vars PROVE TypeOK'
  BY <1>2 DEF TypeOK, vars, rowVars, workerVars, historyVars
<1>. QED
  BY <1>1, <1>2, AdminTyped, ServeTyped, WorkTyped, DisturbTyped DEF Next

-----------------------------------------------------------------------------
(***************************************************************************)
(* How a step changes jobs and broadcasts.                                 *)
(***************************************************************************)

\* A job is inserted, late unless its broadcast has not been started, claimed,
\* requeued or settled.
JobsMove ==
  /\ late \subseteq late'
  /\ \A j \in Jobs :
       \/ jobStatus'[j] = jobStatus[j]
       \/ /\ jobStatus[j] = "none" /\ jobStatus'[j] = "pending"
          /\ status[BroadcastOf[j]] = "pending" \/ j \in late'
       \/ jobStatus[j] = "pending" /\ jobStatus'[j] = "processing"
       \/ jobStatus[j] = "processing" /\ jobStatus'[j] # "none"

BegunStays == \A b \in Broadcasts : Begun(b) => Begun(b)'

LEMMA ApiMoves ==
  ASSUME TypeOK, Admin \/ \E r \in Requests : Serve(r)
  PROVE  JobsMove /\ BegunStays
<1>1. ASSUME NEW b \in Broadcasts, NEW S \in SUBSET Jobs, InsertRows(b, S), UNCHANGED status
      PROVE  JobsMove /\ BegunStays
  BY <1>1 DEF TypeOK, InsertRows, JobsMove, BegunStays, Begun
<1>2. ASSUME UNCHANGED <<jobStatus, late>>
      PROVE  JobsMove
  BY <1>2 DEF JobsMove
<1>3. ASSUME NEW b \in Broadcasts, NEW s \in {"pending", "processing", "done", "failed"},
             status' = [status EXCEPT ![b] = s], s = "pending" => status[b] = "none"
      PROVE  BegunStays
  BY <1>3 DEF TypeOK, BegunStays, Begun
<1>4. ASSUME NEW r \in Requests, NEW b \in Broadcasts, CreateRow(r, b)
      PROVE  JobsMove /\ BegunStays
  BY <1>2, <1>3, <1>4 DEF CreateRow, historyVars
<1>5. ASSUME NEW r \in Requests, NEW b \in Broadcasts, Start(r, b)
      PROVE  JobsMove /\ BegunStays
  BY <1>2, <1>3, <1>5 DEF Start, historyVars
<1>6. ASSUME NEW r \in Requests, NEW S \in SUBSET Jobs, InsertFails(r, S) \/ InsertJobs(r, S)
      PROVE  JobsMove /\ BegunStays
  BY <1>1, <1>6, RequestsTyped DEF InsertFails, InsertJobs
<1>7. ASSUME NEW r \in Requests, RequestEnds(r) \/ Count(r)
      PROVE  JobsMove /\ BegunStays
  BY <1>2, <1>7 DEF RequestEnds, Count, rowVars, historyVars, BegunStays, Begun
<1>8. ASSUME NEW r \in Requests, MarkFailed(r)
      PROVE  JobsMove /\ BegunStays
  BY <1>2, <1>3, <1>8, RequestsTyped DEF MarkFailed, historyVars
<1>9. ASSUME NEW r \in Requests, Finish(r)
      PROVE  JobsMove /\ BegunStays
  <2>1. request[r].outcome \in {"done", "failed"}
    BY <1>9 DEF TypeOK, Finish, At, RequestStates
  <2>. QED
    BY <1>2, <1>3, <1>9, <2>1, RequestsTyped DEF Finish, historyVars
<1>. QED
  BY <1>4, <1>5, <1>6, <1>7, <1>8, <1>9 DEF Admin, Serve

LEMMA WorkerMoves ==
  ASSUME TypeOK, HoldsClaimed, Work \/ Disturb \/ (\E j \in Jobs : GoStale(j)) \/ UNCHANGED vars
  PROVE  JobsMove /\ BegunStays
<1>1. ASSUME UNCHANGED <<jobStatus, late>> PROVE JobsMove
  BY <1>1 DEF JobsMove
<1>2. ASSUME UNCHANGED status PROVE BegunStays
  BY <1>2 DEF BegunStays, Begun
<1>3. ASSUME NEW S \in SUBSET Jobs, Claim(S), UNCHANGED late PROVE JobsMove
  BY <1>3 DEF TypeOK, Claim, Pending, JobsMove
<1>4. CASE Requeue
  BY <1>2, <1>4 DEF TypeOK, HoldsClaimed, Requeue, JobsMove, historyVars
<1>5. ASSUME NEW S \in SUBSET Jobs, Fetch(S) \/ FetchFails(S) PROVE JobsMove /\ BegunStays
  BY <1>1, <1>2, <1>3, <1>5 DEF Fetch, FetchFails, historyVars
<1>6. ASSUME NEW j \in batch, NEW result \in {"sent", "failed"},
             HandleJob(j, result) \/ HandleJobDoubtful(j, result) \/ PayloadFails(j)
      PROVE  JobsMove /\ BegunStays
  BY <1>1, <1>2, <1>6 DEF HandleJob, HandleJobDoubtful, PayloadFails, rowVars
<1>7. CASE Record
  BY <1>2, <1>7 DEF TypeOK, HoldsClaimed, Record, JobsMove, historyVars
<1>8. ASSUME NEW b \in Broadcasts, CountTouched(b) \/ FinalizeFails(b) PROVE JobsMove /\ BegunStays
  BY <1>1, <1>2, <1>8 DEF CountTouched, FinalizeFails, rowVars, historyVars
<1>9. CASE FinishTouched
  BY <1>1, <1>9 DEF TypeOK, Verdicts, FinishTouched, BegunStays, Begun, historyVars
<1>10. CASE Restart \/ RequeueFails \/ RecordFails \/ Crash
  BY <1>1, <1>2, <1>10 DEF Restart, RequeueFails, RecordFails, Crash, rowVars, historyVars
<1>11. CASE (\E j \in Jobs : GoStale(j)) \/ UNCHANGED vars
  BY <1>1, <1>2, <1>11 DEF GoStale, vars, rowVars, historyVars
<1>. QED
  BY <1>4, <1>5, <1>6, <1>7, <1>8, <1>9, <1>10, <1>11 DEF TypeOK, Work, Disturb

LEMMA Moves ==
  ASSUME TypeOK, HoldsClaimed, [Next]_vars
  PROVE  JobsMove /\ BegunStays
BY ApiMoves, WorkerMoves DEF Next

\* Once a broadcast is started, what was sent of it stays sent.
LEMMA AllSentStays ==
  ASSUME TypeOK, JobsMove, NEW b \in Broadcasts, Begun(b), AllSent(b)
  PROVE  AllSent(b)'
BY DEF TypeOK, JobsMove, Begun, AllSent

\* A count that finds nothing left and nothing failed tells the truth.
LEMMA CountTruthful ==
  ASSUME TypeOK, NEW b \in Broadcasts, Remaining(b) = {}, Outcome(b) = "done"
  PROVE  AllSent(b)
BY DEF TypeOK, Remaining, Outcome, JobsOf, AllSent

-----------------------------------------------------------------------------
(***************************************************************************)
(* BroadcastInv is inductive.                                              *)
(***************************************************************************)
LEMMA HoldsClaimedStep ==
  ASSUME TypeOK, HoldsClaimed, [Next]_vars
  PROVE  HoldsClaimed'
<1>1. ASSUME UNCHANGED <<jobStatus, stale, phase, batch, sending, verdict, copies>>
      PROVE  HoldsClaimed'
  BY <1>1 DEF HoldsClaimed
<1>2. ASSUME NEW b \in Broadcasts, NEW S \in SUBSET Jobs, InsertRows(b, S),
             UNCHANGED <<stale, phase, batch, sending, verdict, copies>>
      PROVE  HoldsClaimed'
  BY <1>2 DEF TypeOK, InsertRows, HoldsClaimed
<1>3. CASE Admin
  BY <1>1, <1>2, <1>3, RequestsTyped
     DEF Admin, CreateRow, Start, InsertFails, RequestEnds, rowVars, workerVars, historyVars
<1>4. ASSUME NEW r \in Requests, Serve(r) PROVE HoldsClaimed'
  BY <1>1, <1>2, <1>4, RequestsTyped
     DEF Serve, InsertJobs, MarkFailed, Count, Finish, rowVars, workerVars, historyVars
<1>5. CASE Requeue
  BY <1>5 DEF TypeOK, HoldsClaimed, Requeue, historyVars
<1>6. ASSUME NEW S \in SUBSET Jobs, Fetch(S) \/ FetchFails(S) PROVE HoldsClaimed'
  BY <1>6 DEF TypeOK, HoldsClaimed, Fetch, FetchFails, Claim, Pending, historyVars
<1>7. ASSUME NEW j \in batch, NEW result \in {"sent", "failed"},
             HandleJob(j, result) \/ HandleJobDoubtful(j, result)
      PROVE  HoldsClaimed'
  <2>1. result = "sent" => copies'[j] > 0
    BY <1>7 DEF TypeOK, HandleJob, HandleJobDoubtful
  <2>. QED
    BY <1>7, <2>1 DEF TypeOK, HoldsClaimed, HandleJob, HandleJobDoubtful, rowVars
<1>8. ASSUME NEW j \in batch, PayloadFails(j) PROVE HoldsClaimed'
  BY <1>8 DEF TypeOK, HoldsClaimed, PayloadFails, rowVars
<1>9. CASE Record \/ RecordFails
  BY <1>9 DEF TypeOK, HoldsClaimed, Record, RecordFails, GoOn, rowVars, historyVars
<1>10. CASE FinishTouched \/ \E b \in Broadcasts : CountTouched(b) \/ FinalizeFails(b)
  BY <1>10 DEF TypeOK, HoldsClaimed, CountTouched, FinishTouched, FinalizeFails, AfterFinalizing,
               rowVars, historyVars
<1>11. CASE RequeueFails \/ Crash \/ Restart
  BY <1>11 DEF TypeOK, HoldsClaimed, RequeueFails, Crash, Restart, rowVars, historyVars
<1>12. CASE (\E j \in Jobs : GoStale(j)) \/ UNCHANGED vars
  BY <1>12 DEF HoldsClaimed, GoStale, vars, rowVars, workerVars, historyVars
<1>. QED
  BY <1>3, <1>4, <1>5, <1>6, <1>7, <1>8, <1>9, <1>10, <1>11, <1>12 DEF TypeOK, Next, Work, Disturb

\* What the requests and the worker count, and what they make of it.
CountsKept == CountsBegun' /\ DoneTruthful'

LEMMA RequestsCount ==
  ASSUME TypeOK, HoldsClaimed, CountsBegun, DoneTruthful, [Next]_vars,
         Admin \/ \E r \in Requests : Serve(r)
  PROVE  CountsKept
<1>a. /\ UNCHANGED <<batch, touched, verdict>>
      /\ JobsMove /\ BegunStays
  BY Moves DEF Admin, Serve, CreateRow, Start, InsertFails, RequestEnds, InsertJobs, MarkFailed,
               Count, Finish, workerVars
<1>b. ASSUME NEW r \in Requests,
             \A s \in Requests \ {r} : request'[s] = request[s],
             \/ request'[r] = Nothing
             \/ request'[r] # Nothing /\ request'[r].stage \in {"insert", "markFailed"}
             \/ /\ request'[r] # Nothing
                /\ \E b \in Broadcasts :
                     /\ request'[r].broadcast = b
                     /\ Begun(b)'
                     /\ request'[r].stage = "finish" /\ request'[r].outcome = "done" => AllSent(b)',
             \A b \in Broadcasts : status'[b] = "done" => status[b] = "done" \/ AllSent(b)'
      PROVE  CountsKept
  <2>1. CountsBegun'
    <3>1. ASSUME NEW s \in Requests, At(s, "count")' \/ At(s, "finish")'
          PROVE  Begun(request[s].broadcast)'
      <4>1. CASE s = r
        BY <1>b, <3>1, <4>1 DEF At, Begun
      <4>2. CASE s # r
        <5>1. request'[s] = request[s] /\ Begun(request[s].broadcast)
          BY <1>b, <3>1, <4>2 DEF At, CountsBegun
        <5>. QED
          BY <1>a, <3>1, <4>2, <5>1, RequestsTyped DEF At, BegunStays, Begun
      <4>. QED
        BY <4>1, <4>2
    <3>. QED
      BY <1>a, <3>1, BroadcastAssumption
         DEF TypeOK, Verdicts, CountsBegun, BegunStays, Begun
  <2>2. \A b \in Broadcasts : status'[b] = "done" => AllSent(b)'
    BY <1>a, <1>b, AllSentStays DEF DoneTruthful, Begun
  <2>3. verdict' # Nothing /\ verdict'.outcome = "done" => AllSent(verdict.broadcast)'
    <3>1. CASE verdict = Nothing
      BY <1>a, <3>1
    <3>2. CASE verdict # Nothing
      BY <1>a, <3>2, AllSentStays DEF TypeOK, Verdicts, CountsBegun, DoneTruthful, AllSent
    <3>. QED
      BY <3>1, <3>2
  <2>4. ASSUME NEW s \in Requests, At(s, "finish")', request'[s].outcome = "done"
        PROVE  AllSent(request[s].broadcast)'
    <3>1. CASE s = r
      BY <1>b, <2>4, <3>1 DEF At, AllSent
    <3>2. CASE s # r
      <4>1. request'[s] = request[s] /\ request[s].broadcast \in Broadcasts
            /\ Begun(request[s].broadcast) /\ AllSent(request[s].broadcast)
        BY <1>b, <2>4, <3>2, RequestsTyped DEF At, CountsBegun, DoneTruthful
      <4>2. PICK b \in Broadcasts : b = request[s].broadcast
        BY <4>1
      <4>3. AllSent(b)'
        BY <1>a, <4>1, <4>2, AllSentStays
      <4>. QED
        BY <4>1, <4>2, <4>3 DEF AllSent
    <3>. QED
      BY <3>1, <3>2
  <2>. QED
    BY <2>1, <2>2, <2>3, <2>4 DEF CountsKept, DoneTruthful
<1>c. ASSUME UNCHANGED status
      PROVE  \A b \in Broadcasts : status'[b] = "done" => status[b] = "done" \/ AllSent(b)'
  BY <1>c
<1>1. ASSUME NEW r \in Requests, NEW b \in Broadcasts, CreateRow(r, b)
      PROVE  CountsKept
  BY <1>1, <1>b DEF TypeOK, CreateRow
<1>2. ASSUME NEW r \in Requests, NEW b \in Broadcasts, Start(r, b)
      PROVE  CountsKept
  BY <1>2, <1>b DEF TypeOK, Start, Begun
<1>3. ASSUME NEW r \in Requests, NEW S \in SUBSET Jobs, InsertFails(r, S)
      PROVE  CountsKept
  BY <1>3, <1>b DEF TypeOK, InsertFails
<1>4. ASSUME NEW r \in Requests, NEW S \in SUBSET Jobs, InsertJobs(r, S) \/ RequestEnds(r)
      PROVE  CountsKept
  BY <1>4, <1>b DEF TypeOK, InsertJobs, RequestEnds, Reply, rowVars
<1>5. ASSUME NEW r \in Requests, MarkFailed(r)
      PROVE  CountsKept
  BY <1>5, <1>b DEF TypeOK, MarkFailed, Reply
<1>6. ASSUME NEW r \in Requests, Count(r)
      PROVE  CountsKept
  <2>1. PICK b \in Broadcasts : b = request[r].broadcast /\ Begun(b)
    BY <1>6, RequestsTyped DEF Count, CountsBegun
  <2>2. UNCHANGED <<status, jobStatus, late>>
    BY <1>6 DEF Count, rowVars, historyVars
  <2>3. CASE Remaining(b) = {}
    <3>1. Outcome(b) = "done" => AllSent(b)
      BY <2>3, CountTruthful
    <3>2. Begun(b)' /\ (Outcome(b) = "done" => AllSent(b)')
      BY <2>1, <2>2, <3>1 DEF Begun, AllSent
    <3>. QED
      BY <1>6, <1>b, <2>1, <2>2, <2>3, <3>2 DEF TypeOK, Count
  <2>4. CASE Remaining(b) # {}
    BY <1>6, <1>b, <2>1, <2>2, <2>4 DEF TypeOK, Count, Reply
  <2>. QED
    BY <2>3, <2>4
<1>7. ASSUME NEW r \in Requests, Finish(r)
      PROVE  CountsKept
  <2>1. PICK b \in Broadcasts : b = request[r].broadcast
    BY <1>7, RequestsTyped DEF Finish
  <2>2. /\ status' = [status EXCEPT ![b] = request[r].outcome]
        /\ request[r].outcome = "done" => AllSent(b)
        /\ UNCHANGED <<jobStatus, late>>
    BY <1>7, <2>1 DEF Finish, DoneTruthful, historyVars
  <2>3. \A c \in Broadcasts : status'[c] = "done" => status[c] = "done" \/ AllSent(c)'
    BY <2>2 DEF TypeOK, AllSent
  <2>. QED
    BY <1>7, <1>b, <2>3 DEF TypeOK, Finish, Reply
<1>. QED
  BY <1>1, <1>2, <1>3, <1>4, <1>5, <1>6, <1>7 DEF Admin, Serve

LEMMA WorkerCounts ==
  ASSUME TypeOK, HoldsClaimed, CountsBegun, DoneTruthful, [Next]_vars,
         Work \/ Disturb \/ (\E j \in Jobs : GoStale(j)) \/ UNCHANGED vars
  PROVE  CountsKept
<1>a. request' = request /\ JobsMove /\ BegunStays
  BY Moves DEF Work, Disturb, Requeue, Fetch, HandleJob, Record, CountTouched, FinishTouched, Restart,
               RequeueFails, FetchFails, HandleJobDoubtful, PayloadFails, RecordFails, FinalizeFails,
               Crash, GoStale, vars
<1>b. ASSUME \A j \in batch' : j \in batch \/ Begun(BroadcastOf[j]),
             \A b \in touched' : b \in touched \/ Begun(b),
             \/ verdict' \in {verdict, Nothing}
             \/ \E b \in Broadcasts :
                  /\ verdict'.broadcast = b /\ Begun(b)
                  /\ verdict'.outcome = "done" => AllSent(b),
             \/ UNCHANGED status
             \/ verdict # Nothing /\ status' = [status EXCEPT ![verdict.broadcast] = verdict.outcome]
      PROVE  CountsKept
  <2>1. TypeOK'
    BY StepTyped
  <2>2. \A b \in Broadcasts : Begun(b) => Begun(b)' /\ (AllSent(b) => AllSent(b)')
    BY <1>a, AllSentStays DEF BegunStays
  <2>3. verdict' # Nothing =>
          Begun(verdict.broadcast)' /\ (verdict'.outcome = "done" => AllSent(verdict.broadcast)')
    <3>1. CASE verdict' = Nothing
      BY <3>1
    <3>2. CASE verdict' = verdict /\ verdict # Nothing
      <4>1. PICK b \in Broadcasts : b = verdict.broadcast
        BY <3>2 DEF TypeOK, Verdicts
      <4>2. Begun(b)' /\ (verdict.outcome = "done" => AllSent(b)')
        BY <2>2, <3>2, <4>1 DEF CountsBegun, DoneTruthful
      <4>. QED
        BY <3>2, <4>1, <4>2 DEF Begun, AllSent
    <3>3. CASE \E b \in Broadcasts :
                 /\ verdict'.broadcast = b /\ Begun(b)
                 /\ verdict'.outcome = "done" => AllSent(b)
      <4>1. PICK b \in Broadcasts :
              /\ verdict'.broadcast = b /\ Begun(b)
              /\ verdict'.outcome = "done" => AllSent(b)
        BY <3>3
      <4>2. Begun(b)' /\ (verdict'.outcome = "done" => AllSent(b)')
        BY <2>2, <4>1
      <4>. QED
        BY <4>1, <4>2 DEF Begun, AllSent
    <3>. QED
      BY <1>b, <3>1, <3>2, <3>3
  <2>4. CountsBegun'
    <3>1. \A j \in batch' : Begun(BroadcastOf[j])'
      BY <1>b, <2>1, <2>2, BroadcastAssumption DEF TypeOK, CountsBegun, Begun
    <3>2. \A b \in touched' : Begun(b)'
      BY <1>b, <2>1, <2>2 DEF TypeOK, CountsBegun
    <3>3. verdict' # Nothing => Begun(verdict.broadcast)'
      BY <2>3
    <3>4. \A r \in Requests : At(r, "count")' \/ At(r, "finish")' => Begun(request[r].broadcast)'
      BY <1>a, <2>2, RequestsTyped DEF CountsBegun, At, Begun
    <3>. QED
      BY <3>1, <3>2, <3>3, <3>4 DEF CountsBegun
  <2>5. \A b \in Broadcasts : status'[b] = "done" => AllSent(b)'
    BY <1>b, <2>2 DEF TypeOK, Verdicts, CountsBegun, DoneTruthful, Begun
  <2>6. ASSUME NEW r \in Requests, At(r, "finish")', request'[r].outcome = "done"
        PROVE  AllSent(request[r].broadcast)'
    BY <1>a, <2>2, <2>6, RequestsTyped DEF CountsBegun, DoneTruthful, At, AllSent
  <2>. QED
    BY <2>3, <2>4, <2>5, <2>6 DEF CountsKept, DoneTruthful
<1>1. CASE Requeue \/ RequeueFails \/ Record \/ RecordFails \/ Crash \/ Restart
  BY <1>1, <1>b DEF Requeue, RequeueFails, Record, RecordFails, Crash, Restart, rowVars
<1>2. ASSUME NEW S \in SUBSET Jobs, Fetch(S) \/ FetchFails(S) PROVE CountsKept
  BY <1>2, <1>b DEF Fetch, FetchFails, Claim, Pending, Begun
<1>3. ASSUME NEW j \in batch, NEW result \in {"sent", "failed"},
             HandleJob(j, result) \/ HandleJobDoubtful(j, result) \/ PayloadFails(j)
      PROVE  CountsKept
  BY <1>3, <1>b DEF HandleJob, HandleJobDoubtful, PayloadFails, CountsBegun, rowVars
<1>4. ASSUME NEW b \in touched, CountTouched(b) PROVE CountsKept
  <2>1. b \in Broadcasts /\ Begun(b) /\ (Remaining(b) = {} /\ Outcome(b) = "done" => AllSent(b))
    BY CountTruthful DEF TypeOK, CountsBegun
  <2>. QED
    BY <1>4, <1>b, <2>1 DEF CountTouched, rowVars
<1>5. CASE FinishTouched
  BY <1>5, <1>b DEF FinishTouched
<1>6. ASSUME NEW b \in Broadcasts, FinalizeFails(b) PROVE CountsKept
  BY <1>6, <1>b DEF FinalizeFails, rowVars
<1>7. CASE (\E j \in Jobs : GoStale(j)) \/ UNCHANGED vars
  BY <1>7, <1>b DEF GoStale, vars, rowVars, workerVars
<1>. QED
  BY <1>1, <1>2, <1>3, <1>4, <1>5, <1>6, <1>7 DEF Work, Disturb

LEMMA BroadcastInvInit == Init => BroadcastInv
BY BroadcastAssumption
   DEF Init, BroadcastInv, TypeOK, HoldsClaimed, CountsBegun, DoneTruthful, At

LEMMA BroadcastInvStep == BroadcastInv /\ [Next]_vars => BroadcastInv'
BY StepTyped, HoldsClaimedStep, RequestsCount, WorkerCounts
   DEF BroadcastInv, CountsKept, Next

\* BroadcastInv is an invariant of the requests of the API and the worker.
THEOREM BroadcastInvariant == Spec => []BroadcastInv
BY BroadcastInvInit, BroadcastInvStep, PTL DEF Spec

\* A broadcast that is done was sent to everybody who had a job when it was
\* started, though jobs are counted in one statement and the status written in
\* the next, by every request that starts it and by the worker
\* (FinalizeAdminBroadcast of internal/repository/repository.go).
THEOREM DoneMeansSentTheorem == Spec => []DoneMeansSent
<1>1. BroadcastInv => DoneMeansSent
  BY BroadcastAssumption DEF BroadcastInv, DoneTruthful, AllSent, DoneMeansSent
<1>. QED
  BY <1>1, BroadcastInvariant, PTL

-----------------------------------------------------------------------------
(***************************************************************************)
(* Broadcast jobs keep NotificationContract.                               *)
(***************************************************************************)

\* What the contract sees of a job.
State(j) == IF jobStatus[j] \in {"pending", "processing"} THEN "owed" ELSE jobStatus[j]

LEMMA JobsStutter ==
  ASSUME UNCHANGED copies, \A j \in Jobs : State(j)' = State(j)
  PROVE  UNCHANGED Contract!vars
BY DEF State, Contract!vars

LEMMA InsertEnqueues ==
  ASSUME TypeOK, NEW b \in Broadcasts, NEW S \in SUBSET Jobs, InsertRows(b, S), UNCHANGED copies
  PROVE  Contract!Enqueue(S)
BY DEF TypeOK, InsertRows, Contract!Enqueue

LEMMA HandleDelivers ==
  ASSUME TypeOK, HoldsClaimed, NEW j \in batch, NEW result \in {"sent", "failed"},
         HandleJob(j, result) \/ HandleJobDoubtful(j, result)
  PROVE  [Contract!Next]_(Contract!vars)
<1>1. j \in Jobs /\ jobStatus[j] = "processing" /\ UNCHANGED jobStatus
  BY DEF TypeOK, HoldsClaimed, HandleJob, HandleJobDoubtful, rowVars
<1>2. CASE UNCHANGED copies
  BY <1>1, <1>2, JobsStutter DEF State
<1>3. ASSUME NEW n \in {1, 2}, copies' = [copies EXCEPT ![j] = @ + n]
      PROVE  Contract!Next
  <2>1. Contract!Deliver(j, n)
    BY <1>1, <1>3 DEF Contract!Deliver
  <2>. QED
    BY <1>1, <2>1 DEF Contract!Next
<1>. QED
  BY <1>2, <1>3 DEF HandleJob, HandleJobDoubtful

LEMMA RecordSettles ==
  ASSUME TypeOK, HoldsClaimed, Record
  PROVE  Contract!Next
<1>0. PICK j \in Jobs : j = sending.job
  BY DEF TypeOK, Record
<1>1. /\ jobStatus[j] = "processing" /\ sending.result \in {"sent", "failed"}
      /\ sending.result = "sent" => copies[j] > 0
      /\ jobStatus' = [jobStatus EXCEPT ![j] = sending.result] /\ UNCHANGED copies
  BY <1>0 DEF TypeOK, HoldsClaimed, Record, historyVars
<1>2. Contract!Settle(j)
  BY <1>1 DEF TypeOK, Contract!Settle
<1>. QED
  BY <1>1, <1>2 DEF Contract!Next

LEMMA ContractStep ==
  ASSUME TypeOK, HoldsClaimed, [Next]_vars
  PROVE  [Contract!Next]_(Contract!vars)
<1>1. ASSUME UNCHANGED <<jobStatus, copies>> PROVE UNCHANGED Contract!vars
  BY <1>1, JobsStutter DEF State
<1>2. ASSUME NEW b \in Broadcasts, NEW S \in SUBSET Jobs, InsertRows(b, S), UNCHANGED copies
      PROVE  Contract!Next
  BY <1>2, InsertEnqueues DEF Contract!Next
<1>3. CASE Admin
  BY <1>1, <1>2, <1>3, RequestsTyped
     DEF Admin, CreateRow, Start, InsertFails, RequestEnds, rowVars, historyVars
<1>4. ASSUME NEW r \in Requests, Serve(r) PROVE [Contract!Next]_(Contract!vars)
  BY <1>1, <1>2, <1>4, RequestsTyped
     DEF Serve, InsertJobs, MarkFailed, Count, Finish, rowVars, historyVars
<1>5. CASE Requeue
  BY <1>5, JobsStutter DEF TypeOK, HoldsClaimed, Requeue, State, historyVars
<1>6. ASSUME NEW S \in SUBSET Jobs, Fetch(S) \/ FetchFails(S) PROVE UNCHANGED Contract!vars
  BY <1>1, <1>6, JobsStutter DEF TypeOK, Fetch, FetchFails, Claim, Pending, State, historyVars
<1>7. ASSUME NEW j \in batch, PayloadFails(j) PROVE UNCHANGED Contract!vars
  BY <1>1, <1>7 DEF PayloadFails, rowVars
<1>8. ASSUME \/ RecordFails \/ FinishTouched \/ RequeueFails \/ Crash \/ Restart
             \/ \E b \in Broadcasts : CountTouched(b) \/ FinalizeFails(b)
      PROVE  UNCHANGED Contract!vars
  BY <1>1, <1>8 DEF RecordFails, FinishTouched, RequeueFails, Crash, Restart, CountTouched,
                    FinalizeFails, rowVars, historyVars
<1>9. CASE (\E j \in Jobs : GoStale(j)) \/ UNCHANGED vars
  BY <1>1, <1>9 DEF GoStale, vars, rowVars, historyVars
<1>. QED
  BY <1>3, <1>4, <1>5, <1>6, <1>7, <1>8, <1>9, HandleDelivers, RecordSettles
     DEF TypeOK, Next, Work, Disturb

\* Broadcast jobs keep the contract of notification jobs: a job is owed until it
\* is settled, a settled one stays settled, and one settled as sent has reached
\* its user, whatever the worker loses in crashes and failing statements
\* (handleBroadcastJob of cmd/worker/main.go).
THEOREM BroadcastContractTheorem == Spec => ImplementsContract
<1>1. Init => Contract!Init
  BY DEF Init, Contract!Init
<1>2. BroadcastInv /\ [Next]_vars => [Contract!Next]_(Contract!vars)
  BY ContractStep DEF BroadcastInv
<1>. QED
  BY <1>1, <1>2, BroadcastInvariant, PTL DEF Spec, ImplementsContract, Contract!Spec

-----------------------------------------------------------------------------
(***************************************************************************)
(* Each fault costs at most one duplicate.  A job that has reached its     *)
(* user and is still in the queue will be sent again: a fault that leaves  *)
(* it there is charged at once, and the copy itself is then free.          *)
(***************************************************************************)
SentNow(j) == sending # Nothing /\ sending.job = j

\* The jobs that have reached their user and will be sent once more.
Risk ==
  {j \in Jobs : copies[j] > 0 /\ jobStatus[j] \in {"pending", "processing"} /\ ~SentNow(j)}

Charged == Charges(Jobs, copies, Risk)

ChargedInv ==
  /\ \A j \in Jobs : jobStatus[j] = "none" => copies[j] = 0
  /\ IsFiniteSet(Charged) /\ Cardinality(Charged) <= faults

LEMMA CopiesMove ==
  ASSUME TypeOK, HoldsClaimed, [Next]_vars
  PROVE  \A j \in Jobs : copies'[j] = copies[j] \/ jobStatus[j] = "processing"
<1>1. ASSUME NEW j \in batch, NEW result \in {"sent", "failed"},
             HandleJob(j, result) \/ HandleJobDoubtful(j, result)
      PROVE  \A k \in Jobs : copies'[k] = copies[k] \/ jobStatus[k] = "processing"
  BY <1>1 DEF TypeOK, HoldsClaimed, HandleJob, HandleJobDoubtful
<1>2. CASE Admin \/ \E r \in Requests : Serve(r)
  BY <1>2 DEF Admin, Serve, CreateRow, Start, InsertFails, RequestEnds, InsertJobs, MarkFailed, Count,
              Finish, historyVars
<1>3. CASE \/ Requeue \/ Record \/ FinishTouched \/ Restart
           \/ \E S \in SUBSET Jobs : Fetch(S) \/ FetchFails(S)
           \/ \E b \in Broadcasts : CountTouched(b) \/ FinalizeFails(b)
  BY <1>3 DEF Requeue, Record, FinishTouched, Restart, Fetch, FetchFails, CountTouched, FinalizeFails,
              historyVars
<1>4. CASE \/ RequeueFails \/ RecordFails \/ Crash \/ \E j \in batch : PayloadFails(j)
           \/ (\E j \in Jobs : GoStale(j)) \/ UNCHANGED vars
  BY <1>4 DEF RequeueFails, RecordFails, Crash, PayloadFails, GoStale, vars, historyVars
<1>. QED
  BY <1>1, <1>2, <1>3, <1>4 DEF TypeOK, Next, Work, Disturb

\* What is being sent is so still, or has just been settled.
StillSent ==
  \A j \in Jobs : SentNow(j) => SentNow(j)' \/ jobStatus'[j] \notin {"pending", "processing"}

\* No job comes back to the queue.
NoneReturns ==
  \A j \in Jobs : jobStatus'[j] \in {"pending", "processing"} =>
                  jobStatus[j] \in {"none", "pending", "processing"}

LEMMA ChargedBounded ==
  ASSUME BroadcastInv, ChargedInv, [Next]_vars
  PROVE  IsFiniteSet(Charged') /\ Cardinality(Charged') <= faults'
<1>. DEFINE Bounded == IsFiniteSet(Charged') /\ Cardinality(Charged') <= faults'
<1>1. TypeOK /\ HoldsClaimed /\ TypeOK'
  BY StepTyped DEF BroadcastInv
<1>2. /\ faults \in Nat /\ faults' \in Nat /\ IsFiniteSet(Charged) /\ Cardinality(Charged) <= faults
      /\ copies \in [Jobs -> Nat] /\ copies' \in [Jobs -> Nat]
      /\ Risk \in SUBSET Jobs /\ Risk' \in SUBSET Jobs
      /\ Charged = Charges(Jobs, copies, Risk) /\ Charged' = Charges(Jobs, copies', Risk')
  BY <1>1, BroadcastAssumption DEF TypeOK, ChargedInv, Charged, Risk
<1>3. ASSUME UNCHANGED copies, faults' >= faults, NoneReturns, StillSent
      PROVE  Bounded
  <2>1. Risk' \in SUBSET Risk
    BY <1>3 DEF ChargedInv, Risk, NoneReturns, StillSent
  <2>2. /\ IsFiniteSet(Charged') /\ Cardinality(Charged') <= Cardinality(Charged)
        /\ Cardinality(Charged) \in Nat /\ Cardinality(Charged') \in Nat
    BY <1>2, <1>3, <2>1, NothingCharged
  <2>. QED
    BY <1>2, <1>3, <2>2
<1>4. ASSUME UNCHANGED <<copies, jobStatus>>, Fault, NEW j \in Jobs,
             \A k \in Jobs \ {j} : SentNow(k) => SentNow(k)'
      PROVE  Bounded
  <2>1. Risk' \subseteq Risk \cup {j}
    BY <1>4 DEF Risk
  <2>2. /\ IsFiniteSet(Charged') /\ Cardinality(Charged') <= Cardinality(Charged) + 1
        /\ Cardinality(Charged) \in Nat /\ Cardinality(Charged') \in Nat
    BY <1>2, <1>4, <2>1, RiskCharged
  <2>. QED
    BY <1>2, <1>4, <2>2 DEF Fault
<1>a. sending' = sending \/ sending = Nothing => StillSent
  BY DEF StillSent, SentNow
<1>b. jobStatus' = jobStatus => NoneReturns
  BY <1>1 DEF TypeOK, NoneReturns
<1>c. faults' = faults \/ Fault => faults' >= faults
  BY <1>2 DEF Fault
<1>5. ASSUME UNCHANGED copies, sending' = sending \/ sending = Nothing,
             faults' = faults \/ Fault, NoneReturns
      PROVE  Bounded
  BY <1>3, <1>5, <1>a, <1>c
\* The API.
<1>6. CASE Admin
  <2>1. \A j \in Jobs : jobStatus'[j] = jobStatus[j] \/ jobStatus[j] = "none"
    BY <1>1, <1>6 DEF TypeOK, Admin, CreateRow, Start, InsertFails, InsertRows, RequestEnds, rowVars
  <2>2. NoneReturns
    BY <2>1 DEF NoneReturns
  <2>. QED
    BY <1>5, <1>6, <2>2 DEF Admin, CreateRow, Start, InsertFails, RequestEnds, workerVars, historyVars
<1>7. ASSUME NEW r \in Requests, Serve(r) PROVE Bounded
  <2>1. \A j \in Jobs : jobStatus'[j] = jobStatus[j] \/ jobStatus[j] = "none"
    BY <1>1, <1>7 DEF TypeOK, Serve, InsertJobs, InsertRows, MarkFailed, Count, Finish, rowVars
  <2>2. NoneReturns
    BY <2>1 DEF NoneReturns
  <2>. QED
    BY <1>5, <1>7, <2>2 DEF Serve, InsertJobs, MarkFailed, Count, Finish, workerVars, historyVars
\* The worker, between its batches.
<1>8. CASE Requeue
  <2>1. NoneReturns
    BY <1>1, <1>8 DEF TypeOK, HoldsClaimed, Requeue, NoneReturns
  <2>. QED
    BY <1>5, <1>8, <2>1 DEF Requeue, historyVars
<1>9. ASSUME NEW S \in SUBSET Jobs, Fetch(S) \/ FetchFails(S) PROVE Bounded
  <2>1. NoneReturns
    BY <1>1, <1>9 DEF TypeOK, Fetch, FetchFails, Claim, Pending, NoneReturns
  <2>. QED
    BY <1>5, <1>9, <2>1 DEF Fetch, FetchFails, historyVars
<1>10. CASE \/ RequeueFails \/ FinishTouched \/ Restart
            \/ \E b \in Broadcasts : CountTouched(b) \/ FinalizeFails(b)
            \/ (\E j \in Jobs : GoStale(j)) \/ UNCHANGED vars
  BY <1>5, <1>10, <1>b DEF RequeueFails, FinishTouched, Restart, CountTouched, FinalizeFails, GoStale,
                           vars, rowVars, workerVars, historyVars
\* The worker, at its batch.
<1>11. ASSUME NEW j \in batch, NEW result \in {"sent", "failed"},
              HandleJob(j, result) \/ HandleJobDoubtful(j, result)
       PROVE  Bounded
  <2>1. /\ j \in Jobs /\ jobStatus[j] = "processing" /\ sending = Nothing /\ UNCHANGED jobStatus
        /\ \A k \in Jobs : ~SentNow(k) /\ (SentNow(k)' => k = j)
        /\ SentNow(j)'
    BY <1>1, <1>11, BroadcastAssumption
       DEF TypeOK, HoldsClaimed, HandleJob, HandleJobDoubtful, SentNow, rowVars
  <2>2. PICK n \in Nat :
          /\ n <= 2 /\ (n = 2 => Fault)
          /\ copies'[j] = copies[j] + n /\ \A k \in Jobs \ {j} : copies'[k] = copies[k]
    BY <1>2, <1>11, <2>1 DEF HandleJob, HandleJobDoubtful
  <2>3. j \notin Risk' /\ (copies[j] > 0 => j \in Risk)
    BY <1>2, <2>1 DEF Risk
  <2>4. Risk' \in SUBSET Risk
    BY <1>2, <2>1, <2>2, <2>3 DEF Risk
  <2>5. /\ IsFiniteSet(Charged')
        /\ Cardinality(Charged') <= Cardinality(Charged) + (IF n = 2 THEN 1 ELSE 0)
        /\ Cardinality(Charged) \in Nat /\ Cardinality(Charged') \in Nat
    <3>1. /\ j \in Jobs /\ copies \in [Jobs -> Nat] /\ copies' \in [Jobs -> Nat]
          /\ Risk \in SUBSET Jobs /\ IsFiniteSet(Charges(Jobs, copies, Risk))
      BY <1>2, <2>1
    <3>2. /\ IsFiniteSet(Charges(Jobs, copies', Risk'))
          /\ Cardinality(Charges(Jobs, copies', Risk'))
               <= Cardinality(Charges(Jobs, copies, Risk)) + (IF n = 2 THEN 1 ELSE 0)
          /\ Cardinality(Charges(Jobs, copies, Risk)) \in Nat
          /\ Cardinality(Charges(Jobs, copies', Risk')) \in Nat
      BY <2>2, <2>3, <2>4, <3>1, SendCharged
    <3>. QED
      BY <1>2, <3>2
  <2>6. faults' >= faults /\ (n = 2 => faults' >= faults + 1)
    BY <1>2, <1>11, <1>c, <2>2 DEF HandleJob, HandleJobDoubtful, Fault
  <2>. QED
    BY <1>2, <2>5, <2>6
<1>12. ASSUME NEW j \in batch, PayloadFails(j) PROVE Bounded
  BY <1>5, <1>12, <1>b DEF PayloadFails, rowVars
<1>13. CASE Record
  <2>1. \A j \in Jobs : jobStatus'[j] = IF SentNow(j) THEN sending.result ELSE jobStatus[j]
    BY <1>1, <1>13 DEF TypeOK, Record, SentNow
  <2>2. sending.result \in {"sent", "failed"}
    BY <1>1, <1>13 DEF TypeOK, Record
  <2>3. StillSent /\ NoneReturns
    BY <2>1, <2>2 DEF StillSent, NoneReturns
  <2>. QED
    BY <1>2, <1>3, <1>13, <2>3 DEF Record, historyVars
<1>14. CASE RecordFails \/ Crash
  <2>1. UNCHANGED <<copies, jobStatus>> /\ Fault
    BY <1>14 DEF RecordFails, Crash, rowVars
  <2>2. CASE sending = Nothing
    BY <1>5, <1>b, <2>1, <2>2
  <2>3. CASE sending # Nothing
    <3>1. PICK j \in Jobs : j = sending.job
      BY <1>1, <2>3 DEF TypeOK
    <3>2. \A k \in Jobs \ {j} : ~SentNow(k)
      BY <3>1 DEF SentNow
    <3>. QED
      BY <1>4, <2>1, <3>2
  <2>. QED
    BY <2>2, <2>3
<1>. QED
  BY <1>1, <1>6, <1>7, <1>8, <1>9, <1>10, <1>11, <1>12, <1>13, <1>14
     DEF TypeOK, Next, Work, Disturb

LEMMA ChargedStep ==
  ASSUME BroadcastInv, ChargedInv, [Next]_vars
  PROVE  ChargedInv'
<1>1. \A j \in Jobs : jobStatus'[j] = "none" => jobStatus[j] = "none"
  BY Moves DEF BroadcastInv, JobsMove
<1>2. \A j \in Jobs : copies'[j] = copies[j] \/ jobStatus[j] = "processing"
  BY CopiesMove DEF BroadcastInv
<1>. QED
  BY <1>1, <1>2, ChargedBounded DEF ChargedInv

\* Each fault, a crash, a failing statement or a lost answer, costs at most one
\* duplicate message, over all jobs: a crash in the middle of a batch repeats
\* the job whose write was lost and no other (handleBroadcastJob of
\* cmd/worker/main.go, RequeueStaleAdminBroadcastJobs).
THEOREM BroadcastDuplicatesTheorem == Spec => []OneDuplicatePerFault
<1>1. Init => ChargedInv
  <2>1. SUFFICES ASSUME Init PROVE ChargedInv
    OBVIOUS
  <2>2. Risk = {} /\ \A j \in Jobs : copies[j] = 0
    BY <2>1 DEF Init, Risk
  <2>3. Charged = {}
    BY <2>1, <2>2, ChargesElements DEF Charged, Init
  <2>. QED
    BY <2>1, <2>2, <2>3, FS_EmptySet DEF Init, ChargedInv
<1>2. BroadcastInv /\ ChargedInv /\ [Next]_vars => ChargedInv'
  BY ChargedStep
<1>3. BroadcastInv /\ ChargedInv => OneDuplicatePerFault
  <2>1. SUFFICES ASSUME BroadcastInv, ChargedInv PROVE OneDuplicatePerFault
    OBVIOUS
  <2>2. Duplicates \subseteq Charged
    BY DEF Duplicates, Charged, Charges, Extra
  <2>3. IsFiniteSet(Charged) /\ Cardinality(Charged) <= faults
    BY <2>1 DEF ChargedInv
  <2>4. Cardinality(Duplicates) <= Cardinality(Charged)
        /\ Cardinality(Duplicates) \in Nat /\ Cardinality(Charged) \in Nat
    BY <2>2, <2>3, Fewer
  <2>. QED
    BY <2>1, <2>3, <2>4, BroadcastAssumption DEF OneDuplicatePerFault, BroadcastInv, TypeOK
<1>. QED
  BY <1>1, <1>2, <1>3, BroadcastInvariant, PTL DEF Spec
=============================================================================
