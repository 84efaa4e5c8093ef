------------------------------ MODULE Broadcast ------------------------------
(***************************************************************************)
(* Admin broadcasts: the rows of admin_broadcasts and                      *)
(* admin_broadcast_jobs, the handlers CreateBroadcast and StartBroadcast   *)
(* of internal/http/handlers/admin.go, and the second half of the worker's *)
(* loop (cmd/worker/main.go).                                              *)
(*                                                                         *)
(* Every SQL statement is a step; FinalizeAdminBroadcast is two of them, a *)
(* count and an update, and both the API and the worker run it.            *)
(***************************************************************************)
EXTENDS Naturals, FiniteSets

CONSTANTS
  Broadcasts,   \* the ids of admin_broadcasts rows
  Jobs,         \* the ids of admin_broadcast_jobs rows
  BroadcastOf,  \* the broadcast_id of every job
  Requests,     \* requests the API works on at the same time
  BatchLimit,   \* jobs fetched at a time, 100 in the code
  MaxFaults,    \* bound on crashes, failing statements and lost answers
  Nothing       \* a free slot of Requests, or a worker that is not sending

ASSUME BroadcastAssumption ==
  /\ IsFiniteSet(Jobs)
  /\ BroadcastOf \in [Jobs -> Broadcasts]
  /\ BatchLimit \in Nat \ {0}
  /\ MaxFaults \in Nat
  /\ Nothing \notin [job : Jobs, result : {"sent", "failed"}]

VARIABLES
  status,      \* status of the broadcast, "none" before the insert
  jobStatus,   \* status of the job, likewise
  stale,       \* the jobs in processing whose updated_at is 10 minutes old
  request,     \* what each request of the API is doing
  phase,       \* of the worker: "requeue", "fetch", "work", "finalize", "down"
  batch,       \* the jobs the worker fetched and has not handled
  sending,     \* the job it has sent, and how that went
  touched,     \* broadcastIDs: the broadcasts it has still to finalize
  verdict,     \* the status its count leads to, for the broadcast counted
  copies,      \* history: how often the message of a job reached its user
  late,        \* history: the jobs inserted when the broadcast was started
  faults       \* history: how many faults there were

rowVars     == <<status, jobStatus, stale>>
workerVars  == <<phase, batch, sending, touched, verdict>>
historyVars == <<copies, late, faults>>
vars == <<rowVars, request, workerVars, historyVars>>

Verdicts == [broadcast : Broadcasts, outcome : {"done", "failed"}]

RequestStates ==
  [stage : {"insert", "markFailed", "count"}, broadcast : Broadcasts]
    \cup [stage : {"finish"}, broadcast : Broadcasts, outcome : {"done", "failed"}]

TypeOK ==
  /\ status \in [Broadcasts -> {"none", "pending", "processing", "done", "failed"}]
  /\ jobStatus \in [Jobs -> {"none", "pending", "processing", "sent", "failed"}]
  /\ stale \subseteq Jobs
  /\ request \in [Requests -> RequestStates \cup {Nothing}]
  /\ phase \in {"requeue", "fetch", "work", "finalize", "down"}
  /\ batch \subseteq Jobs
  /\ sending \in [job : Jobs, result : {"sent", "failed"}] \cup {Nothing}
  /\ touched \subseteq Broadcasts
  /\ verdict \in Verdicts \cup {Nothing}
  /\ copies \in [Jobs -> Nat]
  /\ late \subseteq Jobs
  /\ faults \in 0..MaxFaults

Init ==
  /\ status = [b \in Broadcasts |-> "none"]
  /\ jobStatus = [j \in Jobs |-> "none"]
  /\ stale = {}
  /\ request = [r \in Requests |-> Nothing]
  /\ phase = "requeue"
  /\ batch = {}
  /\ sending = Nothing
  /\ touched = {}
  /\ verdict = Nothing
  /\ copies = [j \in Jobs |-> 0]
  /\ late = {}
  /\ faults = 0

-----------------------------------------------------------------------------
JobsOf(b) == {j \in Jobs : BroadcastOf[j] = b /\ jobStatus[j] # "none"}

\* Mutants: jobs in processing do not keep a broadcast open; failed ones do.
RemainingPending(b) == {j \in JobsOf(b) : jobStatus[j] = "pending"}
RemainingUnsent(b) == {j \in JobsOf(b) : jobStatus[j] # "sent"}

\* FinalizeAdminBroadcast, its count ...
Remaining(b) == {j \in JobsOf(b) : jobStatus[j] \in {"pending", "processing"}}

\* ... and what it makes of it.
Outcome(b) == IF \E j \in JobsOf(b) : jobStatus[j] = "failed" THEN "failed" ELSE "done"

Fault ==
  /\ faults < MaxFaults
  /\ faults' = faults + 1

At(r, stage) == request[r] # Nothing /\ request[r].stage = stage

Reply(r) == request' = [request EXCEPT ![r] = Nothing]

-----------------------------------------------------------------------------
(***************************************************************************)
(* The API.                                                                *)
(***************************************************************************)

\* CreateBroadcast: the broadcast is inserted, ...
CreateRow(r, b) ==
  /\ request[r] = Nothing
  /\ status[b] = "none"
  /\ status' = [status EXCEPT ![b] = "pending"]
  /\ request' = [request EXCEPT ![r] = [stage |-> "insert", broadcast |-> b]]
  /\ UNCHANGED <<jobStatus, stale, workerVars, historyVars>>

\* A job for each user of the audience, of whom there may be none.  The
\* administrator may have started the broadcast from the list meanwhile.
InsertRows(b, S) ==
  /\ \A j \in S : BroadcastOf[j] = b /\ jobStatus[j] = "none"
  /\ jobStatus' = [j \in Jobs |-> IF j \in S THEN "pending" ELSE jobStatus[j]]
  /\ late' = IF status[b] = "pending" THEN late ELSE late \cup S

\* ... then its jobs.
InsertJobs(r, S) ==
  /\ At(r, "insert")
  /\ InsertRows(request[r].broadcast, S)
  /\ Reply(r)
  /\ UNCHANGED <<status, stale, workerVars, copies, faults>>

\* The insert fails, or its answer is lost.
InsertFails(r, S) ==
  /\ At(r, "insert")
  /\ Fault
  /\ InsertRows(request[r].broadcast, S)
  /\ request' = [request EXCEPT ![r].stage = "markFailed"]
  /\ UNCHANGED <<status, stale, workerVars, copies>>

MarkFailed(r) ==
  /\ At(r, "markFailed")
  /\ status' = [status EXCEPT ![request[r].broadcast] = "failed"]
  /\ Reply(r)
  /\ UNCHANGED <<jobStatus, stale, workerVars, historyVars>>

\* StartBroadcast, of a broadcast in any status.
Start(r, b) ==
  /\ request[r] = Nothing
  /\ status[b] # "none"
  /\ status' = [status EXCEPT ![b] = "processing"]
  /\ request' = [request EXCEPT ![r] = [stage |-> "count", broadcast |-> b]]
  /\ UNCHANGED <<jobStatus, stale, workerVars, historyVars>>

Count(r) ==
  LET b == request[r].broadcast IN
  /\ At(r, "count")
  /\ IF Remaining(b) = {}
     THEN request' = [request EXCEPT ![r] = [stage |-> "finish", broadcast |-> b,
                                             outcome |-> Outcome(b)]]
     ELSE Reply(r)
  /\ UNCHANGED <<rowVars, workerVars, historyVars>>

Finish(r) ==
  /\ At(r, "finish")
  /\ status' = [status EXCEPT ![request[r].broadcast] = request[r].outcome]
  /\ Reply(r)
  /\ UNCHANGED <<jobStatus, stale, workerVars, historyVars>>

\* A request ends early: a statement fails, or the API stops.
RequestEnds(r) ==
  /\ request[r] # Nothing
  /\ Fault
  /\ Reply(r)
  /\ UNCHANGED <<rowVars, workerVars, copies, late>>

-----------------------------------------------------------------------------
(***************************************************************************)
(* The worker.                                                             *)
(***************************************************************************)

\* Ten minutes pass over a job in processing.
GoStale(j) ==
  /\ jobStatus[j] = "processing"
  /\ j \notin stale
  /\ stale' = stale \cup {j}
  /\ UNCHANGED <<status, jobStatus, request, workerVars, historyVars>>

\* Mutant: jobs of a worker that ended are not taken up again.
RequeueNothing ==
  /\ phase = "requeue"
  /\ phase' = "fetch"
  /\ UNCHANGED <<rowVars, request, batch, sending, touched, verdict, historyVars>>

\* RequeueStaleAdminBroadcastJobs.
Requeue ==
  /\ phase = "requeue"
  /\ jobStatus' = [j \in Jobs |-> IF j \in stale THEN "pending" ELSE jobStatus[j]]
  /\ stale' = {}
  /\ phase' = "fetch"
  /\ UNCHANGED <<status, request, batch, sending, touched, verdict, historyVars>>

RequeueFails ==
  /\ phase = "requeue"
  /\ Fault
  /\ phase' = "fetch"
  /\ UNCHANGED <<rowVars, request, batch, sending, touched, verdict, copies, late>>

\* The jobs FetchPendingAdminBroadcastJobs may take.
Pending == {j \in Jobs : jobStatus[j] = "pending" /\ status[BroadcastOf[j]] = "processing"}

Claim(S) ==
  /\ S \subseteq Pending
  /\ Cardinality(S) = IF Cardinality(Pending) < BatchLimit THEN Cardinality(Pending) ELSE BatchLimit
  /\ jobStatus' = [j \in Jobs |-> IF j \in S THEN "processing" ELSE jobStatus[j]]

Fetch(S) ==
  /\ phase = "fetch"
  /\ Claim(S)
  /\ batch' = S
  /\ phase' = IF S = {} THEN "requeue" ELSE "work"
  /\ UNCHANGED <<status, stale, request, sending, touched, verdict, historyVars>>

\* The connection fails; the claim is committed or not.
FetchFails(S) ==
  /\ phase = "fetch"
  /\ Fault
  /\ Claim(S) \/ (S = {} /\ UNCHANGED jobStatus)
  /\ phase' = "requeue"
  /\ UNCHANGED <<status, stale, request, batch, sending, touched, verdict, copies, late>>

\* Mutant: a failing send is taken for one that went through.
HandleJobUnchecked(j, result) ==
  /\ phase = "work"
  /\ sending = Nothing
  /\ j \in batch
  /\ batch' = batch \ {j}
  /\ sending' = [job |-> j, result |-> "sent"]
  /\ copies' = IF result = "sent" THEN [copies EXCEPT ![j] = @ + 1] ELSE copies
  /\ touched' = touched \cup {BroadcastOf[j]}
  /\ UNCHANGED <<rowVars, request, phase, verdict, late, faults>>

\* Mutant: the plain text follows a message that went through.
HandleJobTwice(j, result) ==
  /\ phase = "work"
  /\ sending = Nothing
  /\ j \in batch
  /\ batch' = batch \ {j}
  /\ sending' = [job |-> j, result |-> result]
  /\ copies' = IF result = "sent" THEN [copies EXCEPT ![j] = @ + 2] ELSE copies
  /\ touched' = touched \cup {BroadcastOf[j]}
  /\ UNCHANGED <<rowVars, request, phase, verdict, late, faults>>

\* handleBroadcastJob: up to three sends, until one goes through; users who
\* are blocked or have no chat get none.
HandleJob(j, result) ==
  /\ phase = "work"
  /\ sending = Nothing
  /\ j \in batch
  /\ batch' = batch \ {j}
  /\ sending' = [job |-> j, result |-> result]
  /\ copies' = IF result = "sent" THEN [copies EXCEPT ![j] = @ + 1] ELSE copies
  /\ touched' = touched \cup {BroadcastOf[j]}
  /\ UNCHANGED <<rowVars, request, phase, verdict, late, faults>>

\* The answer to one of the sends is lost.
HandleJobDoubtful(j, result) ==
  /\ phase = "work"
  /\ sending = Nothing
  /\ j \in batch
  /\ Fault
  /\ batch' = batch \ {j}
  /\ sending' = [job |-> j, result |-> result]
  /\ copies' = [copies EXCEPT ![j] = @ + (IF result = "sent" THEN 2 ELSE 1)]
  /\ touched' = touched \cup {BroadcastOf[j]}
  /\ UNCHANGED <<rowVars, request, phase, verdict, late>>

\* The payload cannot be loaded: the job fails, and its broadcast is not put
\* on the list of those to finalize.
PayloadFails(j) ==
  /\ phase = "work"
  /\ sending = Nothing
  /\ j \in batch
  /\ Fault
  /\ batch' = batch \ {j}
  /\ sending' = [job |-> j, result |-> "failed"]
  /\ UNCHANGED <<rowVars, request, phase, touched, verdict, copies, late>>

GoOn ==
  /\ sending' = Nothing
  /\ phase' = IF batch # {} THEN "work" ELSE IF touched # {} THEN "finalize" ELSE "requeue"

\* UpdateAdminBroadcastJobStatus.
Record ==
  /\ sending # Nothing
  /\ jobStatus' = [jobStatus EXCEPT ![sending.job] = sending.result]
  /\ stale' = stale \ {sending.job}
  /\ GoOn
  /\ UNCHANGED <<status, request, batch, touched, verdict, historyVars>>

RecordFails ==
  /\ sending # Nothing
  /\ Fault
  /\ GoOn
  /\ UNCHANGED <<rowVars, request, batch, touched, verdict, copies, late>>

AfterFinalizing == phase' = IF touched' = {} THEN "requeue" ELSE "finalize"

\* FinalizeAdminBroadcast for each broadcast of the batch, in any order.
CountTouched(b) ==
  /\ phase = "finalize"
  /\ verdict = Nothing
  /\ b \in touched
  /\ touched' = touched \ {b}
  /\ IF Remaining(b) = {}
     THEN verdict' = [broadcast |-> b, outcome |-> Outcome(b)] /\ UNCHANGED phase
     ELSE UNCHANGED verdict /\ AfterFinalizing
  /\ UNCHANGED <<rowVars, request, batch, sending, historyVars>>

FinishTouched ==
  /\ verdict # Nothing
  /\ status' = [status EXCEPT ![verdict.broadcast] = verdict.outcome]
  /\ verdict' = Nothing
  /\ UNCHANGED touched
  /\ AfterFinalizing
  /\ UNCHANGED <<jobStatus, stale, request, batch, sending, historyVars>>

\* A statement of FinalizeAdminBroadcast fails.
FinalizeFails(b) ==
  /\ phase = "finalize"
  /\ Fault
  /\ \/ verdict # Nothing /\ UNCHANGED touched
     \/ verdict = Nothing /\ b \in touched /\ touched' = touched \ {b}
  /\ verdict' = Nothing
  /\ AfterFinalizing
  /\ UNCHANGED <<rowVars, request, batch, sending, copies, late>>

Crash ==
  /\ phase # "down"
  /\ Fault
  /\ phase' = "down"
  /\ batch' = {}
  /\ sending' = Nothing
  /\ touched' = {}
  /\ verdict' = Nothing
  /\ UNCHANGED <<rowVars, request, copies, late>>

Restart ==
  /\ phase = "down"
  /\ phase' = "requeue"
  /\ UNCHANGED <<rowVars, request, batch, sending, touched, verdict, historyVars>>

-----------------------------------------------------------------------------
Admin ==
  \E r \in Requests :
    \/ \E b \in Broadcasts : CreateRow(r, b) \/ Start(r, b)
    \/ \E S \in SUBSET Jobs : InsertFails(r, S)
    \/ RequestEnds(r)

Serve(r) ==
  \/ \E S \in SUBSET Jobs : InsertJobs(r, S)
  \/ MarkFailed(r) \/ Count(r) \/ Finish(r)

Work ==
  \/ Requeue
  \/ \E S \in SUBSET Jobs : Fetch(S)
  \/ \E j \in batch, result \in {"sent", "failed"} : HandleJob(j, result)
  \/ Record
  \/ \E b \in touched : CountTouched(b)
  \/ FinishTouched
  \/ Restart

Disturb ==
  \/ RequeueFails
  \/ \E S \in SUBSET Jobs : FetchFails(S)
  \/ \E j \in batch, result \in {"sent", "failed"} : HandleJobDoubtful(j, result)
  \/ \E j \in batch : PayloadFails(j)
  \/ RecordFails
  \/ \E b \in Broadcasts : FinalizeFails(b)
  \/ Crash

Next ==
  \/ Admin
  \/ \E r \in Requests : Serve(r)
  \/ Work
  \/ Disturb
  \/ \E j \in Jobs : GoStale(j)

Spec == Init /\ [][Next]_vars

\* The clock runs, requests are served and the worker goes on.
Fairness ==
  /\ \A j \in Jobs : WF_vars(GoStale(j))
  /\ \A r \in Requests : WF_vars(Serve(r))
  /\ WF_vars(Work)

FairSpec == Spec /\ Fairness

-----------------------------------------------------------------------------
(***************************************************************************)
(* Properties.                                                             *)
(***************************************************************************)

\* A broadcast that is done was sent to everybody: no job inserted before it was
\* started is left, or failed, although the API and the worker count jobs and
\* write the status in separate statements.  (Jobs inserted after the start may
\* be left behind: see the README.)
DoneMeansSent ==
  \A j \in Jobs \ late :
    status[BroadcastOf[j]] = "done" => jobStatus[j] \in {"none", "sent"}

\* The copies of each message after its first.
Duplicates == UNION {{j} \X (2..copies[j]) : j \in Jobs}

\* One worker: each fault costs at most one duplicate message, over all jobs.
OneDuplicatePerFault == Cardinality(Duplicates) <= faults

\* One worker: broadcast jobs keep the contract of notification jobs.
Contract ==
  INSTANCE NotificationContract WITH
    state <- [j \in Jobs |-> IF jobStatus[j] \in {"pending", "processing"}
                             THEN "owed" ELSE jobStatus[j]]

ImplementsContract == Contract!Spec

\* A job of a started broadcast does not stay in the queue, whatever fails.
JobsSettle ==
  \A j \in Jobs :
    jobStatus[j] = "pending" /\ status[BroadcastOf[j]] = "processing"
      ~> jobStatus[j] \in {"sent", "failed"} \/ status[BroadcastOf[j]] # "processing"

\* A started broadcast finishes, unless a fault hits the API or the worker: the
\* last count finds no job left, even if counts of several requests and of the
\* worker overlap.
BroadcastFinishes ==
  \A b \in Broadcasts :
    status[b] = "processing" ~> status[b] \in {"done", "failed"} \/ faults > 0
=============================================================================
