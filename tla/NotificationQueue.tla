------------------------- MODULE NotificationQueue -------------------------
(***************************************************************************)
(* The notification queue: the rows of notification_jobs and the loop of   *)
(* the worker (cmd/worker/main.go) that fetches, sends and records them.   *)
(*                                                                         *)
(* Every SQL statement is a step of its own, so that a crash, a failing    *)
(* statement, a lost answer of Telegram or another worker may come between *)
(* any two of them.                                                        *)
(***************************************************************************)
EXTENDS Naturals, FiniteSets

CONSTANTS
  Jobs,         \* the ids of notification_jobs rows
  Workers,      \* the worker processes; a deployment runs one
  BatchLimit,   \* jobs fetched at a time, 100 in the code
  MaxFaults,    \* bound on crashes, failing statements and lost answers
  MaxExcuses,   \* bound on the requeues and doubtful copies of one job
  NoJob         \* a worker that is not sending anything

ASSUME QueueAssumption ==
  /\ IsFiniteSet(Jobs)
  /\ BatchLimit \in Nat \ {0}
  /\ MaxFaults \in Nat
  /\ MaxExcuses \in Nat
  /\ NoJob \notin [job : Jobs, attempts : Nat, result : {"ok", "error", "nochat"}]

VARIABLES
  status,     \* status of the row, "none" before the insert, "gone" after it
  attempts,   \* attempts of the row
  due,        \* the jobs with run_at <= now()
  stale,      \* the jobs in processing whose updated_at is 10 minutes old
  phase,      \* of a worker: "requeue", "fetch", "work" or "down"
  batch,      \* of a worker: the jobs it fetched, with the attempts it read
  sending,    \* of a worker: the job it sent, and how that went
  copies,     \* how often the message of the job reached its user
  excuses,    \* history: requeues and copies whose answer was lost
  faults      \* history: how many faults there were

rowVars     == <<status, attempts, due, stale>>
workerVars  == <<phase, batch, sending>>
historyVars == <<copies, excuses, faults>>
vars == <<rowVars, workerVars, historyVars>>

\* A send is tried at most three times.
MaxAttempts == 3

\* A fetched job: the row as it was when it was fetched.
Fetched == [job : Jobs, attempts : 0..MaxAttempts]
Sent == [job : Jobs, attempts : 0..MaxAttempts, result : {"ok", "error", "nochat"}]

TypeOK ==
  /\ status \in [Jobs -> {"none", "pending", "processing", "sent", "failed", "gone"}]
  /\ attempts \in [Jobs -> 0..MaxAttempts]
  /\ due \subseteq Jobs
  /\ stale \subseteq Jobs
  /\ phase \in [Workers -> {"requeue", "fetch", "work", "down"}]
  /\ batch \in [Workers -> SUBSET Fetched]
  /\ sending \in [Workers -> Sent \cup {NoJob}]
  /\ copies \in [Jobs -> Nat]
  /\ excuses \in [Jobs -> Nat]
  /\ faults \in 0..MaxFaults

Init ==
  /\ status = [j \in Jobs |-> "none"]
  /\ attempts = [j \in Jobs |-> 0]
  /\ due = {}
  /\ stale = {}
  /\ phase = [w \in Workers |-> "requeue"]
  /\ batch = [w \in Workers |-> {}]
  /\ sending = [w \in Workers |-> NoJob]
  /\ copies = [j \in Jobs |-> 0]
  /\ excuses = [j \in Jobs |-> 0]
  /\ faults = 0

-----------------------------------------------------------------------------
(***************************************************************************)
(* The API and the clock.                                                  *)
(***************************************************************************)

\* CreateNotificationJob, for one job, and CreateNotificationJobsForAllUsers,
\* for one of every user; reminders are due later.
Enqueue(S, now) ==
  /\ S # {}
  /\ \A j \in S : status[j] = "none"
  /\ status' = [j \in Jobs |-> IF j \in S THEN "pending" ELSE status[j]]
  /\ due' = IF now THEN due \cup S ELSE due
  /\ UNCHANGED <<attempts, stale, workerVars, historyVars>>

\* DeleteEvent: the cascade erases the jobs of the event.
EraseJobs(S) ==
  /\ S # {}
  /\ \A j \in S : status[j] \notin {"none", "gone"}
  /\ status' = [j \in Jobs |-> IF j \in S THEN "gone" ELSE status[j]]
  /\ attempts' = [j \in Jobs |-> IF j \in S THEN 0 ELSE attempts[j]]
  /\ due' = due \ S
  /\ stale' = stale \ S
  /\ UNCHANGED <<workerVars, historyVars>>

BecomeDue(j) ==
  /\ status[j] = "pending"
  /\ j \notin due
  /\ due' = due \cup {j}
  /\ UNCHANGED <<status, attempts, stale, workerVars, historyVars>>

\* Ten minutes pass over a job in processing.
GoStale(j) ==
  /\ status[j] = "processing"
  /\ j \notin stale
  /\ excuses[j] < MaxExcuses
  /\ stale' = stale \cup {j}
  /\ UNCHANGED <<status, attempts, due, workerVars, historyVars>>

-----------------------------------------------------------------------------
(***************************************************************************)
(* The loop of a worker.                                                   *)
(***************************************************************************)
Fault ==
  /\ faults < MaxFaults
  /\ faults' = faults + 1

\* RequeueStaleProcessing.
Requeue(w) ==
  /\ phase[w] = "requeue"
  /\ status' = [j \in Jobs |-> IF j \in stale THEN "pending" ELSE status[j]]
  /\ stale' = {}
  /\ excuses' = [j \in Jobs |-> IF j \in stale THEN excuses[j] + 1 ELSE excuses[j]]
  /\ phase' = [phase EXCEPT ![w] = "fetch"]
  /\ UNCHANGED <<attempts, due, batch, sending, copies, faults>>

\* Its failure is only logged.
RequeueFails(w) ==
  /\ phase[w] = "requeue"
  /\ Fault
  /\ phase' = [phase EXCEPT ![w] = "fetch"]
  /\ UNCHANGED <<rowVars, batch, sending, copies, excuses>>

\* The jobs FetchDueNotificationJobs may take: as many due ones as the limit
\* allows.
Due == {j \in due : status[j] = "pending"}

Fetchable(S) ==
  /\ S \subseteq Due
  /\ Cardinality(S) = IF Cardinality(Due) < BatchLimit THEN Cardinality(Due) ELSE BatchLimit

Claim(S) ==
  /\ status' = [j \in Jobs |-> IF j \in S THEN "processing" ELSE status[j]]
  /\ stale' = stale \ S
  /\ UNCHANGED <<attempts, due>>

\* FetchDueNotificationJobs claims the jobs for this worker: one statement,
\* whose row locks other workers skip.
Fetch(w, S) ==
  /\ phase[w] = "fetch"
  /\ Fetchable(S)
  /\ Claim(S)
  /\ batch' = [batch EXCEPT ![w] = {[job |-> j, attempts |-> attempts[j]] : j \in S}]
  /\ phase' = [phase EXCEPT ![w] = IF S = {} THEN "requeue" ELSE "work"]
  /\ UNCHANGED <<sending, historyVars>>

\* The connection fails before the rows have arrived: the claim is committed
\* or not, the worker starts over.
FetchFails(w, S) ==
  /\ phase[w] = "fetch"
  /\ Fault
  /\ S = {} \/ Fetchable(S)
  /\ Claim(S)
  /\ phase' = [phase EXCEPT ![w] = "requeue"]
  /\ UNCHANGED <<batch, sending, copies, excuses>>

\* Mutant: the text follows a photo that went through.
SendTwice(w, f, result) ==
  /\ phase[w] = "work"
  /\ sending[w] = NoJob
  /\ f \in batch[w]
  /\ batch' = [batch EXCEPT ![w] = @ \ {f}]
  /\ sending' = [sending EXCEPT ![w] = [job |-> f.job, attempts |-> f.attempts, result |-> result]]
  /\ copies' = IF result = "ok" THEN [copies EXCEPT ![f.job] = @ + 2] ELSE copies
  /\ UNCHANGED <<rowVars, phase, excuses, faults>>

\* handleJob sends a photo, and a text if no photo went through.  A user
\* without a chat gets nothing.
Send(w, f, result) ==
  /\ phase[w] = "work"
  /\ sending[w] = NoJob
  /\ f \in batch[w]
  /\ batch' = [batch EXCEPT ![w] = @ \ {f}]
  /\ sending' = [sending EXCEPT ![w] = [job |-> f.job, attempts |-> f.attempts, result |-> result]]
  /\ copies' = IF result = "ok" THEN [copies EXCEPT ![f.job] = @ + 1] ELSE copies
  /\ UNCHANGED <<rowVars, phase, excuses, faults>>

\* One answer of Telegram is lost: the message arrived and the send counts as
\* failed, or a photo arrived and the text is sent as well.
SendDoubtful(w, f, result) ==
  /\ phase[w] = "work"
  /\ sending[w] = NoJob
  /\ f \in batch[w]
  /\ Fault
  /\ excuses[f.job] < MaxExcuses
  /\ batch' = [batch EXCEPT ![w] = @ \ {f}]
  /\ sending' = [sending EXCEPT ![w] = [job |-> f.job, attempts |-> f.attempts, result |-> result]]
  /\ copies' = [copies EXCEPT ![f.job] = @ + (IF result = "ok" THEN 2 ELSE 1)]
  /\ excuses' = [excuses EXCEPT ![f.job] = @ + 1]
  /\ UNCHANGED <<rowVars, phase>>

\* Mutants: a user without a chat counts as served; the attempt is not counted.
NewStatusNoChatSent(s) ==
  CASE s.result \in {"ok", "nochat"} -> "sent"
    [] s.result = "error" -> IF s.attempts + 1 >= MaxAttempts THEN "failed" ELSE "pending"

NewAttemptsSame(s) == s.attempts

\* What handleJob writes after a send: sent, or one more attempt and another
\* run later, or failed after the last attempt.
NewStatus(s) ==
  CASE s.result = "ok" -> "sent"
    [] s.result = "nochat" -> "failed"
    [] s.result = "error" -> IF s.attempts + 1 >= MaxAttempts THEN "failed" ELSE "pending"

NewAttempts(s) == IF s.result = "ok" THEN s.attempts ELSE s.attempts + 1

\* The worker goes on with its batch, or starts over after the last job.
GoOn(w) ==
  /\ sending' = [sending EXCEPT ![w] = NoJob]
  /\ phase' = [phase EXCEPT ![w] = IF batch[w] = {} THEN "requeue" ELSE "work"]

\* UpdateNotificationJobStatus, by id alone: whatever the row says meanwhile.
Record(w) ==
  LET s == sending[w]
      j == s.job IN
  /\ sending[w] # NoJob
  /\ IF status[j] = "gone" THEN UNCHANGED rowVars
     ELSE /\ status' = [status EXCEPT ![j] = NewStatus(s)]
          /\ attempts' = [attempts EXCEPT ![j] = NewAttempts(s)]
          /\ due' = IF NewStatus(s) = "pending" THEN due \ {j} ELSE due
          /\ stale' = stale \ {j}
  /\ GoOn(w)
  /\ UNCHANGED <<batch, historyVars>>

\* The write fails; the job stays in processing.
RecordFails(w) ==
  /\ sending[w] # NoJob
  /\ Fault
  /\ GoOn(w)
  /\ UNCHANGED <<rowVars, batch, copies, excuses>>

\* The process ends, and is started again.
Crash(w) ==
  /\ phase[w] # "down"
  /\ Fault
  /\ phase' = [phase EXCEPT ![w] = "down"]
  /\ batch' = [batch EXCEPT ![w] = {}]
  /\ sending' = [sending EXCEPT ![w] = NoJob]
  /\ UNCHANGED <<rowVars, copies, excuses>>

Restart(w) ==
  /\ phase[w] = "down"
  /\ phase' = [phase EXCEPT ![w] = "requeue"]
  /\ UNCHANGED <<rowVars, batch, sending, historyVars>>

-----------------------------------------------------------------------------
Results == {"ok", "error", "nochat"}

\* What a worker does by itself, unless a fault comes in its way.
Work(w) ==
  \/ Requeue(w)
  \/ \E S \in SUBSET Jobs : Fetch(w, S)
  \/ \E f \in batch[w], result \in Results : Send(w, f, result)
  \/ Record(w)
  \/ Restart(w)

Disturb(w) ==
  \/ RequeueFails(w)
  \/ \E S \in SUBSET Jobs : FetchFails(w, S)
  \/ \E f \in batch[w], result \in {"ok", "error"} : SendDoubtful(w, f, result)
  \/ RecordFails(w)
  \/ Crash(w)

Environment ==
  \/ \E S \in SUBSET Jobs, now \in BOOLEAN : Enqueue(S, now)
  \/ \E S \in SUBSET Jobs : EraseJobs(S)
  \/ \E j \in Jobs : BecomeDue(j) \/ GoStale(j)

Next == Environment \/ \E w \in Workers : Work(w) \/ Disturb(w)

Spec == Init /\ [][Next]_vars

\* The clock runs, and a worker that can go on does.
Fairness ==
  /\ \A j \in Jobs : WF_vars(BecomeDue(j)) /\ WF_vars(GoStale(j))
  /\ \A w \in Workers : WF_vars(Work(w))

FairSpec == Spec /\ Fairness

-----------------------------------------------------------------------------
(***************************************************************************)
(* Properties.                                                             *)
(***************************************************************************)

\* However many workers run, a message arrives a second time only for a requeue
\* of its job or for a lost answer of Telegram: FetchDueNotificationJobs and
\* UpdateNotificationJobStatus add no copies of their own, although the write
\* goes by id alone and may take back what another worker wrote.
DuplicatesExcused == \A j \in Jobs : copies[j] <= 1 + excuses[j]

\* The copies of each message after its first.
Duplicates == UNION {{j} \X (2..copies[j]) : j \in Jobs}

\* One worker: each fault costs at most one duplicate, over all jobs together.
\* A crash in the middle of a batch repeats the job whose write was lost and
\* no other, and a batch slower than the 10 minutes of RequeueStaleProcessing
\* repeats none.
OneDuplicatePerFault == Cardinality(Duplicates) <= faults

\* One worker: the queue keeps the contract, jobs in processing being owed.
Contract ==
  INSTANCE NotificationContract WITH
    state <- [j \in Jobs |-> IF status[j] \in {"pending", "processing"}
                             THEN "owed" ELSE status[j]]

ImplementsContract == Contract!Spec

\* A job does not stay in the queue: it ends as sent or failed, or its event is
\* erased, whatever crashes and failing statements came between.
EventuallySettled ==
  \A j \in Jobs : status[j] = "pending" ~> status[j] \in {"sent", "failed", "gone"}
=============================================================================
