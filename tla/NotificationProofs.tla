------------------------- MODULE NotificationProofs -------------------------
(***************************************************************************)
(* The duplicates of NotificationQueue are excused, for any number of      *)
(* workers, jobs and faults.  A copy may still come from wherever a job is *)
(* kept to be sent: the row that is pending, a batch in memory, or a       *)
(* failed send that has still to be written back as pending.  Copies and   *)
(* the places they may come from, together, grow only with the excuses.    *)
(* And a single worker, as it is deployed, keeps NotificationContract.     *)
(***************************************************************************)
EXTENDS NotificationQueue, Counting

JobStates == {"none", "pending", "processing", "sent", "failed", "gone"}
ReadJobs == [job : Jobs, attempts : Nat]
SentJobs == [job : Jobs, attempts : Nat, result : {"ok", "error", "nochat"}]

QueueTypes ==
  /\ status \in [Jobs -> JobStates]
  /\ attempts \in [Jobs -> Nat]
  /\ stale \subseteq {j \in Jobs : status[j] = "processing"}
  /\ phase \in [Workers -> {"requeue", "fetch", "work", "down"}]
  /\ batch \in [Workers -> SUBSET ReadJobs]
  /\ sending \in [Workers -> SentJobs \cup {NoJob}]
  /\ copies \in [Jobs -> Nat]
  /\ excuses \in [Jobs -> Nat]

\* A batch has a job once, and exists only while its worker works on it.
BatchInv ==
  \A w \in Workers :
    /\ phase[w] # "work" => batch[w] = {}
    /\ \A f, g \in batch[w] : f.job = g.job => f = g

InBatch(j) == {w \in Workers : \E f \in batch[w] : f.job = j}

Returning(j) ==
  {w \in Workers : /\ sending[w] # NoJob /\ sending[w].job = j
                   /\ NewStatus(sending[w]) = "pending"}

InQueue(j) == IF status[j] \in {"none", "pending"} THEN 1 ELSE 0

JobInv(j) ==
  /\ IsFiniteSet(InBatch(j)) /\ IsFiniteSet(Returning(j))
  /\ copies[j] + Cardinality(InBatch(j)) + Cardinality(Returning(j)) + InQueue(j)
       <= 1 + excuses[j]

QueueInv == QueueTypes /\ BatchInv /\ \A j \in Jobs : JobInv(j)

-----------------------------------------------------------------------------
\* Nothing of a job moves but what it is bound to lose.
LEMMA JobLoses ==
  ASSUME NEW j \in Jobs, QueueTypes, JobInv(j),
         copies'[j] = copies[j], excuses'[j] = excuses[j],
         InBatch(j)' \subseteq InBatch(j), Returning(j)' \subseteq Returning(j),
         InQueue(j)' <= InQueue(j), InQueue(j)' \in Nat
  PROVE  JobInv(j)'
<1>1. /\ IsFiniteSet(InBatch(j)') /\ Cardinality(InBatch(j)') <= Cardinality(InBatch(j))
      /\ Cardinality(InBatch(j)) \in Nat /\ Cardinality(InBatch(j)') \in Nat
  BY Fewer DEF JobInv
<1>2. /\ IsFiniteSet(Returning(j)') /\ Cardinality(Returning(j)') <= Cardinality(Returning(j))
      /\ Cardinality(Returning(j)) \in Nat /\ Cardinality(Returning(j)') \in Nat
  BY Fewer DEF JobInv
<1>3. copies[j] \in Nat /\ excuses[j] \in Nat /\ InQueue(j) \in Nat
  BY DEF QueueTypes, InQueue
<1>4. copies[j] + Cardinality(InBatch(j)) + Cardinality(Returning(j)) + InQueue(j)
        <= 1 + excuses[j]
  BY DEF JobInv
<1>5. copies'[j] + Cardinality(InBatch(j)') + Cardinality(Returning(j)') + InQueue(j)'
        <= 1 + excuses'[j]
  BY <1>1, <1>2, <1>3, <1>4
<1>. QED
  BY <1>1, <1>2, <1>5 DEF JobInv

\* The row alone moves, and asks for no more.
LEMMA RowMoves ==
  ASSUME NEW j \in Jobs, QueueInv, UNCHANGED <<workerVars, copies, excuses>>,
         status'[j] \in {"none", "pending"} => status[j] \in {"none", "pending"}
  PROVE  JobInv(j)'
<1>1. InBatch(j)' = InBatch(j) /\ Returning(j)' = Returning(j)
  BY DEF workerVars, InBatch, Returning, NewStatus
<1>2. InQueue(j)' <= InQueue(j) /\ InQueue(j)' \in Nat
  BY DEF InQueue
<1>. QED
  BY <1>1, <1>2, JobLoses DEF QueueInv

-----------------------------------------------------------------------------
LEMMA QueueInitial == Init => QueueInv
<1>1. SUFFICES ASSUME Init PROVE QueueInv
  OBVIOUS
<1>2. QueueTypes /\ BatchInv
  BY <1>1 DEF Init, QueueTypes, BatchInv, JobStates
<1>3. ASSUME NEW j \in Jobs PROVE JobInv(j)
  <2>1. InBatch(j) = {} /\ Returning(j) = {} /\ InQueue(j) = 1
    BY <1>1 DEF Init, InBatch, Returning, InQueue
  <2>2. copies[j] = 0 /\ excuses[j] = 0
    BY <1>1 DEF Init
  <2>. QED
    BY <2>1, <2>2, FS_EmptySet DEF JobInv
<1>. QED
  BY <1>2, <1>3 DEF QueueInv

\* The API, the clock and the failing statements around the batch.
LEMMA EnqueueKeeps ==
  ASSUME QueueInv, NEW S \in SUBSET Jobs, NEW now \in BOOLEAN, Enqueue(S, now)
  PROVE  QueueInv'
<1>1. QueueTypes' /\ BatchInv'
  BY DEF QueueInv, QueueTypes, BatchInv, Enqueue, workerVars, historyVars, JobStates
<1>2. ASSUME NEW j \in Jobs PROVE JobInv(j)'
  <2>1. status'[j] = status[j] \/ status[j] = "none"
    BY DEF QueueInv, QueueTypes, Enqueue
  <2>. QED
    BY <2>1, RowMoves DEF Enqueue, historyVars
<1>. QED
  BY <1>1, <1>2 DEF QueueInv

LEMMA EraseJobsKeeps ==
  ASSUME QueueInv, NEW S \in SUBSET Jobs, EraseJobs(S)
  PROVE  QueueInv'
<1>1. QueueTypes' /\ BatchInv'
  BY DEF QueueInv, QueueTypes, BatchInv, EraseJobs, workerVars, historyVars, JobStates
<1>2. ASSUME NEW j \in Jobs PROVE JobInv(j)'
  <2>1. status'[j] = status[j] \/ status'[j] = "gone"
    BY DEF QueueInv, QueueTypes, EraseJobs
  <2>. QED
    BY <2>1, RowMoves DEF EraseJobs, historyVars
<1>. QED
  BY <1>1, <1>2 DEF QueueInv

LEMMA ClockKeeps ==
  ASSUME QueueInv, NEW j \in Jobs, BecomeDue(j) \/ GoStale(j)
  PROVE  QueueInv'
<1>1. /\ UNCHANGED <<status, attempts, workerVars, historyVars>>
      /\ stale' \subseteq stale \cup {j} /\ (j \in stale' \ stale => status[j] = "processing")
  BY DEF BecomeDue, GoStale
<1>2. QueueTypes' /\ BatchInv'
  BY <1>1 DEF QueueInv, QueueTypes, BatchInv, workerVars, historyVars
<1>3. ASSUME NEW k \in Jobs PROVE JobInv(k)'
  BY <1>1, RowMoves DEF historyVars
<1>. QED
  BY <1>2, <1>3 DEF QueueInv

-----------------------------------------------------------------------------
\* A requeue is an excuse.
LEMMA RequeueKeeps ==
  ASSUME QueueInv, NEW w \in Workers, Requeue(w)
  PROVE  QueueInv'
<1>1. QueueTypes' /\ BatchInv'
  BY DEF QueueInv, QueueTypes, BatchInv, Requeue, JobStates
<1>2. ASSUME NEW j \in Jobs PROVE JobInv(j)'
  <2>1. /\ copies' = copies
        /\ excuses'[j] = IF j \in stale THEN excuses[j] + 1 ELSE excuses[j]
        /\ status'[j] = IF j \in stale THEN "pending" ELSE status[j]
        /\ copies[j] \in Nat /\ excuses[j] \in Nat
    BY DEF QueueInv, QueueTypes, Requeue
  <2>2. InBatch(j)' = InBatch(j) /\ Returning(j)' = Returning(j)
    BY DEF Requeue, InBatch, Returning, NewStatus
  <2>3. CASE j \in stale
    <3>1. InQueue(j) = 0 /\ InQueue(j)' = 1
      BY <2>1, <2>3 DEF QueueInv, QueueTypes, InQueue
    <3>2. /\ IsFiniteSet(InBatch(j)) /\ IsFiniteSet(Returning(j))
          /\ copies[j] + Cardinality(InBatch(j)) + Cardinality(Returning(j)) + InQueue(j)
               <= 1 + excuses[j]
      BY DEF QueueInv, JobInv
    <3>3. Cardinality(InBatch(j)) \in Nat /\ Cardinality(Returning(j)) \in Nat
      BY <3>2, FS_CardinalityType
    <3>4. copies'[j] + Cardinality(InBatch(j)') + Cardinality(Returning(j)') + InQueue(j)'
            <= 1 + excuses'[j]
      BY <2>1, <2>2, <2>3, <3>1, <3>2, <3>3
    <3>. QED
      BY <2>2, <3>2, <3>4 DEF JobInv
  <2>4. CASE j \notin stale
    <3>1. InQueue(j)' <= InQueue(j) /\ InQueue(j)' \in Nat
      BY <2>1, <2>4 DEF InQueue
    <3>. QED
      BY <2>1, <2>2, <2>4, <3>1, JobLoses DEF QueueInv
  <2>. QED
    BY <2>3, <2>4
<1>. QED
  BY <1>1, <1>2 DEF QueueInv

\* A fetched job leaves the queue for the batch.
LEMMA FetchKeeps ==
  ASSUME QueueInv, NEW w \in Workers, NEW S \in SUBSET Jobs, Fetch(w, S)
  PROVE  QueueInv'
<1>1. batch' = [batch EXCEPT ![w] = {[job |-> j, attempts |-> attempts[j]] : j \in S}]
  BY DEF Fetch
<1>2. /\ batch[w] = {}
      /\ status' = [j \in Jobs |-> IF j \in S THEN "processing" ELSE status[j]]
      /\ UNCHANGED <<sending, copies, excuses>>
      /\ \A j \in S : status[j] = "pending"
  BY DEF Fetch, Claim, Fetchable, Due, QueueInv, BatchInv, historyVars
<1>3. {[job |-> j, attempts |-> attempts[j]] : j \in S} \in SUBSET ReadJobs
  BY DEF QueueInv, QueueTypes, ReadJobs
<1>4. QueueTypes'
  BY <1>1, <1>3 DEF QueueInv, QueueTypes, Fetch, Claim, historyVars, JobStates
<1>5. BatchInv'
  <2>1. ASSUME NEW v \in Workers
        PROVE  /\ phase'[v] # "work" => batch'[v] = {}
               /\ \A f, g \in batch'[v] : f.job = g.job => f = g
    <3>1. CASE v = w
      BY <1>1, <3>1 DEF QueueInv, QueueTypes, Fetch
    <3>2. CASE v # w
      BY <1>1, <3>2 DEF QueueInv, QueueTypes, BatchInv, Fetch
    <3>. QED
      BY <3>1, <3>2
  <2>. QED
    BY <2>1 DEF BatchInv
<1>6. ASSUME NEW j \in Jobs PROVE JobInv(j)'
  <2>1. Returning(j)' = Returning(j)
    BY <1>2 DEF Returning, NewStatus
  <2>2. \A v \in Workers \ {w} : batch'[v] = batch[v]
    BY <1>1 DEF QueueInv, QueueTypes
  <2>3. batch'[w] = {[job |-> k, attempts |-> attempts[k]] : k \in S}
    BY <1>1 DEF QueueInv, QueueTypes
  <2>4. CASE j \in S
    <3>1. InQueue(j) = 1 /\ InQueue(j)' = 0
      BY <1>2, <2>4 DEF InQueue
    <3>2. InBatch(j)' \subseteq InBatch(j) \cup {w}
      BY <2>2 DEF InBatch
    <3>3. /\ IsFiniteSet(InBatch(j)) /\ IsFiniteSet(Returning(j))
          /\ copies[j] + Cardinality(InBatch(j)) + Cardinality(Returning(j)) + InQueue(j)
               <= 1 + excuses[j]
      BY DEF QueueInv, JobInv
    <3>4. /\ IsFiniteSet(InBatch(j)') /\ Cardinality(InBatch(j)') <= Cardinality(InBatch(j)) + 1
          /\ Cardinality(InBatch(j)) \in Nat /\ Cardinality(InBatch(j)') \in Nat
      BY <3>2, <3>3, OneMore
    <3>5. Cardinality(Returning(j)) \in Nat /\ copies[j] \in Nat /\ excuses[j] \in Nat
      BY <3>3, FS_CardinalityType DEF QueueInv, QueueTypes
    <3>6. copies'[j] + Cardinality(InBatch(j)') + Cardinality(Returning(j)') + InQueue(j)'
            <= 1 + excuses'[j]
      BY <1>2, <2>1, <3>1, <3>3, <3>4, <3>5
    <3>. QED
      BY <2>1, <3>3, <3>4, <3>6 DEF JobInv
  <2>5. CASE j \notin S
    <3>1. InBatch(j)' \subseteq InBatch(j)
      BY <2>2, <2>3, <2>5 DEF InBatch
    <3>2. InQueue(j)' <= InQueue(j) /\ InQueue(j)' \in Nat
      BY <1>2, <2>5 DEF InQueue
    <3>. QED
      BY <1>2, <2>1, <3>1, <3>2, JobLoses DEF QueueInv
  <2>. QED
    BY <2>4, <2>5
<1>. QED
  BY <1>4, <1>5, <1>6 DEF QueueInv

LEMMA FetchFailsKeeps ==
  ASSUME QueueInv, NEW w \in Workers, NEW S \in SUBSET Jobs, FetchFails(w, S)
  PROVE  QueueInv'
<1>1. /\ status' = [j \in Jobs |-> IF j \in S THEN "processing" ELSE status[j]]
      /\ UNCHANGED <<batch, sending, copies, excuses>>
  BY DEF FetchFails, Claim
<1>2. QueueTypes' /\ BatchInv'
  BY DEF QueueInv, QueueTypes, BatchInv, FetchFails, Claim, JobStates
<1>3. ASSUME NEW j \in Jobs PROVE JobInv(j)'
  <2>1. InBatch(j)' = InBatch(j) /\ Returning(j)' = Returning(j)
    BY <1>1 DEF InBatch, Returning, NewStatus
  <2>2. InQueue(j)' <= InQueue(j) /\ InQueue(j)' \in Nat
    BY <1>1 DEF InQueue
  <2>. QED
    BY <1>1, <2>1, <2>2, JobLoses DEF QueueInv
<1>. QED
  BY <1>2, <1>3 DEF QueueInv

-----------------------------------------------------------------------------
\* A job that is taken from the batch pays for a copy or for a return.
LEMMA SendingKeeps ==
  ASSUME QueueInv, NEW w \in Workers, NEW f \in batch[w],
         NEW result \in {"ok", "error", "nochat"},
         phase[w] = "work", sending[w] = NoJob,
         batch' = [batch EXCEPT ![w] = @ \ {f}],
         sending' = [sending EXCEPT ![w] =
                       [job |-> f.job, attempts |-> f.attempts, result |-> result]],
         UNCHANGED <<rowVars, phase>>,
         copies' \in [Jobs -> Nat], excuses' \in [Jobs -> Nat],
         \A j \in Jobs \ {f.job} : copies'[j] = copies[j] /\ excuses'[j] = excuses[j],
         copies'[f.job] + (IF result = "error" THEN 1 ELSE 0) + excuses[f.job]
           <= copies[f.job] + 1 + excuses'[f.job]
  PROVE  QueueInv'
<1>. DEFINE s == [job |-> f.job, attempts |-> f.attempts, result |-> result]
<1>1. f \in ReadJobs /\ s \in SentJobs /\ s.job = f.job /\ s.result = result
  BY DEF QueueInv, QueueTypes, ReadJobs, SentJobs
<1>2. /\ sending'[w] = s /\ batch'[w] = batch[w] \ {f}
      /\ \A v \in Workers \ {w} : sending'[v] = sending[v] /\ batch'[v] = batch[v]
  BY DEF QueueInv, QueueTypes
<1>3. NewStatus(s) = "pending" => result = "error"
  BY <1>1 DEF NewStatus
<1>. HIDE DEF s
<1>4. QueueTypes'
  BY <1>1 DEF QueueInv, QueueTypes, rowVars, s
<1>5. BatchInv'
  BY <1>2 DEF QueueInv, BatchInv
<1>6. ASSUME NEW j \in Jobs PROVE JobInv(j)'
  <2>1. InQueue(j)' = InQueue(j)
    BY DEF InQueue, rowVars
  <2>2. InBatch(j)' \subseteq InBatch(j)
    BY <1>2 DEF InBatch
  <2>3. CASE j = f.job
    <3>1. w \in InBatch(j)
      BY <2>3 DEF InBatch
    <3>2. \A g \in batch'[w] : g.job # j
      BY <1>2, <2>3 DEF QueueInv, BatchInv
    <3>3. InBatch(j)' \subseteq InBatch(j) \ {w}
      BY <2>2, <3>2 DEF InBatch
    <3>4. /\ IsFiniteSet(InBatch(j)) /\ IsFiniteSet(Returning(j))
          /\ copies[j] + Cardinality(InBatch(j)) + Cardinality(Returning(j)) + InQueue(j)
               <= 1 + excuses[j]
      BY DEF QueueInv, JobInv
    <3>5. /\ IsFiniteSet(InBatch(j)') /\ Cardinality(InBatch(j)') + 1 <= Cardinality(InBatch(j))
          /\ Cardinality(InBatch(j)) \in Nat /\ Cardinality(InBatch(j)') \in Nat
      BY <3>1, <3>3, <3>4, OneFewer
    <3>6. /\ copies[j] \in Nat /\ excuses[j] \in Nat /\ copies'[j] \in Nat /\ excuses'[j] \in Nat
          /\ InQueue(j) \in Nat
      BY DEF QueueInv, QueueTypes, InQueue
    <3>7. CASE result = "error"
      <4>1. Returning(j)' \subseteq Returning(j) \cup {w}
        BY <1>2 DEF Returning, NewStatus
      <4>2. /\ IsFiniteSet(Returning(j)')
            /\ Cardinality(Returning(j)') <= Cardinality(Returning(j)) + 1
            /\ Cardinality(Returning(j)) \in Nat /\ Cardinality(Returning(j)') \in Nat
        BY <3>4, <4>1, OneMore
      <4>3. copies'[j] + 1 + excuses[j] <= copies[j] + 1 + excuses'[j]
        BY <2>3, <3>7
      <4>4. copies'[j] + Cardinality(InBatch(j)') + Cardinality(Returning(j)') + InQueue(j)'
              <= 1 + excuses'[j]
        BY <2>1, <3>4, <3>5, <3>6, <4>2, <4>3
      <4>. QED
        BY <3>5, <4>2, <4>4 DEF JobInv
    <3>8. CASE result # "error"
      <4>1. Returning(j)' \subseteq Returning(j)
        BY <1>2, <1>3, <3>8 DEF Returning, NewStatus
      <4>2. /\ IsFiniteSet(Returning(j)')
            /\ Cardinality(Returning(j)') <= Cardinality(Returning(j))
            /\ Cardinality(Returning(j)) \in Nat /\ Cardinality(Returning(j)') \in Nat
        BY <3>4, <4>1, Fewer
      <4>3. copies'[j] + excuses[j] <= copies[j] + 1 + excuses'[j]
        BY <2>3, <3>6, <3>8
      <4>4. copies'[j] + Cardinality(InBatch(j)') + Cardinality(Returning(j)') + InQueue(j)'
              <= 1 + excuses'[j]
        BY <2>1, <3>4, <3>5, <3>6, <4>2, <4>3
      <4>. QED
        BY <3>5, <4>2, <4>4 DEF JobInv
    <3>. QED
      BY <3>7, <3>8
  <2>4. CASE j # f.job
    <3>1. Returning(j)' \subseteq Returning(j)
      BY <1>1, <1>2, <2>4, ZenonT(40) DEF Returning, NewStatus
    <3>2. InQueue(j)' <= InQueue(j) /\ InQueue(j)' \in Nat
      BY <2>1 DEF InQueue
    <3>. QED
      BY <2>2, <2>4, <3>1, <3>2, JobLoses DEF QueueInv
  <2>. QED
    BY <2>3, <2>4
<1>. QED
  BY <1>4, <1>5, <1>6 DEF QueueInv

LEMMA SendKeeps ==
  ASSUME QueueInv, NEW w \in Workers, NEW f \in batch[w],
         NEW result \in {"ok", "error", "nochat"}, Send(w, f, result)
  PROVE  QueueInv'
<1>1. f.job \in Jobs /\ copies \in [Jobs -> Nat] /\ excuses \in [Jobs -> Nat]
  BY DEF QueueInv, QueueTypes, ReadJobs
<1>2. /\ copies' = IF result = "ok" THEN [copies EXCEPT ![f.job] = @ + 1] ELSE copies
      /\ excuses' = excuses
  BY DEF Send
<1>3. /\ copies' \in [Jobs -> Nat] /\ excuses' \in [Jobs -> Nat]
      /\ \A j \in Jobs \ {f.job} : copies'[j] = copies[j] /\ excuses'[j] = excuses[j]
  BY <1>1, <1>2
<1>4. copies'[f.job] + (IF result = "error" THEN 1 ELSE 0) + excuses[f.job]
        <= copies[f.job] + 1 + excuses'[f.job]
  BY <1>1, <1>2
<1>. QED
  BY <1>3, <1>4, SendingKeeps DEF Send

\* A lost answer is an excuse.
LEMMA SendDoubtfulKeeps ==
  ASSUME QueueInv, NEW w \in Workers, NEW f \in batch[w],
         NEW result \in {"ok", "error"}, SendDoubtful(w, f, result)
  PROVE  QueueInv'
<1>1. f.job \in Jobs /\ copies \in [Jobs -> Nat] /\ excuses \in [Jobs -> Nat]
  BY DEF QueueInv, QueueTypes, ReadJobs
<1>2. /\ copies' = [copies EXCEPT ![f.job] = @ + (IF result = "ok" THEN 2 ELSE 1)]
      /\ excuses' = [excuses EXCEPT ![f.job] = @ + 1]
  BY DEF SendDoubtful
<1>3. /\ copies' \in [Jobs -> Nat] /\ excuses' \in [Jobs -> Nat]
      /\ \A j \in Jobs \ {f.job} : copies'[j] = copies[j] /\ excuses'[j] = excuses[j]
  BY <1>1, <1>2
<1>4. copies'[f.job] + (IF result = "error" THEN 1 ELSE 0) + excuses[f.job]
        <= copies[f.job] + 1 + excuses'[f.job]
  BY <1>1, <1>2
<1>. QED
  BY <1>3, <1>4, SendingKeeps DEF SendDoubtful

-----------------------------------------------------------------------------
\* What UpdateNotificationJobStatus puts back to pending was to be put back.
LEMMA RecordKeeps ==
  ASSUME QueueInv, NEW w \in Workers, Record(w)
  PROVE  QueueInv'
<1>. DEFINE s == sending[w]
            k == s.job
<1>1. /\ s \in SentJobs /\ k \in Jobs
      /\ sending' = [sending EXCEPT ![w] = NoJob]
      /\ UNCHANGED <<batch, copies, excuses>>
  BY DEF QueueInv, QueueTypes, SentJobs, Record, GoOn, historyVars
<1>2. /\ status' = [status EXCEPT ![k] = IF status[k] = "gone" THEN "gone" ELSE NewStatus(s)]
      /\ attempts' \in [Jobs -> Nat]
      /\ stale' \subseteq stale
      /\ k \in stale' => status[k] = "gone"
  <2>1. CASE status[k] = "gone"
    BY <2>1 DEF QueueInv, QueueTypes, Record, rowVars
  <2>2. CASE status[k] # "gone"
    <3>1. NewAttempts(s) \in Nat
      BY <1>1 DEF NewAttempts, SentJobs
    <3>2. /\ status' = [status EXCEPT ![k] = NewStatus(s)]
          /\ attempts' = [attempts EXCEPT ![k] = NewAttempts(s)]
          /\ stale' = stale \ {k}
      BY <2>2 DEF Record
    <3>. QED
      BY <1>1, <2>2, <3>1, <3>2 DEF QueueInv, QueueTypes
  <2>. QED
    BY <2>1, <2>2
<1>3. NewStatus(s) \in {"sent", "failed", "pending"}
  BY <1>1 DEF NewStatus, SentJobs
<1>4. QueueTypes'
  <2>1. status' \in [Jobs -> JobStates]
    BY <1>2, <1>3 DEF QueueInv, QueueTypes, JobStates
  <2>2. stale' \subseteq {j \in Jobs : status'[j] = "processing"}
    BY <1>1, <1>2 DEF QueueInv, QueueTypes
  <2>3. phase' \in [Workers -> {"requeue", "fetch", "work", "down"}]
    BY DEF QueueInv, QueueTypes, Record, GoOn
  <2>. QED
    BY <1>1, <1>2, <2>1, <2>2, <2>3 DEF QueueInv, QueueTypes
<1>5. BatchInv'
  BY <1>1 DEF QueueInv, QueueTypes, BatchInv, Record, GoOn
<1>6. ASSUME NEW j \in Jobs PROVE JobInv(j)'
  <2>1. InBatch(j)' = InBatch(j)
    BY <1>1 DEF InBatch
  <2>2. Returning(j)' = Returning(j) \ {w}
    BY <1>1 DEF QueueInv, QueueTypes, Returning, NewStatus
  <2>3. CASE j = k /\ status[k] # "gone" /\ NewStatus(s) = "pending"
    <3>1. w \in Returning(j)
      BY <2>3 DEF Returning, Record
    <3>2. InQueue(j)' <= InQueue(j) + 1 /\ InQueue(j)' \in Nat /\ InQueue(j) \in Nat
      BY DEF InQueue
    <3>3. /\ IsFiniteSet(InBatch(j)) /\ IsFiniteSet(Returning(j))
          /\ copies[j] + Cardinality(InBatch(j)) + Cardinality(Returning(j)) + InQueue(j)
               <= 1 + excuses[j]
      BY DEF QueueInv, JobInv
    <3>4. /\ IsFiniteSet(Returning(j)')
          /\ Cardinality(Returning(j)') + 1 <= Cardinality(Returning(j))
          /\ Cardinality(Returning(j)) \in Nat /\ Cardinality(Returning(j)') \in Nat
      BY <2>2, <3>1, <3>3, OneFewer
    <3>5. Cardinality(InBatch(j)) \in Nat /\ copies[j] \in Nat /\ excuses[j] \in Nat
      BY <3>3, FS_CardinalityType DEF QueueInv, QueueTypes
    <3>6. copies'[j] + Cardinality(InBatch(j)') + Cardinality(Returning(j)') + InQueue(j)'
            <= 1 + excuses'[j]
      BY <1>1, <2>1, <3>2, <3>3, <3>4, <3>5
    <3>. QED
      BY <2>1, <3>3, <3>4, <3>6 DEF JobInv
  <2>4. CASE ~ (j = k /\ status[k] # "gone" /\ NewStatus(s) = "pending")
    <3>1. status'[j] \in {"none", "pending"} => status[j] \in {"none", "pending"}
      BY <1>2, <1>3, <2>4 DEF QueueInv, QueueTypes
    <3>2. InQueue(j)' <= InQueue(j) /\ InQueue(j)' \in Nat
      BY <3>1 DEF InQueue
    <3>. QED
      BY <1>1, <2>1, <2>2, <3>2, JobLoses DEF QueueInv
  <2>. QED
    BY <2>3, <2>4
<1>. QED
  BY <1>4, <1>5, <1>6 DEF QueueInv

\* A worker that loses what it had, or waits, owes nothing more.
LEMMA WorkerLosesKeeps ==
  ASSUME QueueInv, NEW w \in Workers,
         RecordFails(w) \/ Crash(w) \/ Restart(w) \/ RequeueFails(w)
  PROVE  QueueInv'
<1>1. UNCHANGED <<rowVars, copies, excuses>>
  BY DEF RecordFails, Crash, Restart, RequeueFails, historyVars
<1>2. \A v \in Workers :
        /\ batch'[v] \subseteq batch[v]
        /\ sending'[v] = sending[v] \/ sending'[v] = NoJob
  BY DEF QueueInv, QueueTypes, RecordFails, GoOn, Crash, Restart, RequeueFails
<1>3. QueueTypes'
  <2>1. /\ phase' \in [Workers -> {"requeue", "fetch", "work", "down"}]
        /\ batch' \in [Workers -> SUBSET ReadJobs]
        /\ sending' \in [Workers -> SentJobs \cup {NoJob}]
    BY DEF QueueInv, QueueTypes, RecordFails, GoOn, Crash, Restart, RequeueFails
  <2>. QED
    BY <1>1, <2>1 DEF QueueInv, QueueTypes, rowVars
<1>4. BatchInv'
  <2>1. \A v \in Workers : phase'[v] # "work" => batch'[v] = {}
    BY DEF QueueInv, QueueTypes, BatchInv, RecordFails, GoOn, Crash, Restart, RequeueFails
  <2>. QED
    BY <1>2, <2>1 DEF QueueInv, BatchInv
<1>5. ASSUME NEW j \in Jobs PROVE JobInv(j)'
  <2>1. InBatch(j)' \subseteq InBatch(j) /\ Returning(j)' \subseteq Returning(j)
    BY <1>2 DEF InBatch, Returning, NewStatus
  <2>2. InQueue(j)' <= InQueue(j) /\ InQueue(j)' \in Nat
    BY <1>1 DEF InQueue, rowVars
  <2>. QED
    BY <1>1, <2>1, <2>2, JobLoses DEF QueueInv
<1>. QED
  BY <1>3, <1>4, <1>5 DEF QueueInv

LEMMA QueueStep == QueueInv /\ [Next]_vars => QueueInv'
<1>1. SUFFICES ASSUME QueueInv, [Next]_vars PROVE QueueInv'
  OBVIOUS
<1>2. CASE Environment
  BY <1>1, <1>2, EnqueueKeeps, EraseJobsKeeps, ClockKeeps DEF Environment
<1>3. ASSUME NEW w \in Workers, Work(w) PROVE QueueInv'
  BY <1>1, <1>3, RequeueKeeps, FetchKeeps, SendKeeps, RecordKeeps, WorkerLosesKeeps
     DEF Work, Results
<1>4. ASSUME NEW w \in Workers, Disturb(w) PROVE QueueInv'
  BY <1>1, <1>4, FetchFailsKeeps, SendDoubtfulKeeps, WorkerLosesKeeps DEF Disturb
<1>5. CASE UNCHANGED vars
  BY <1>1, <1>5 DEF vars, rowVars, workerVars, historyVars, QueueInv, QueueTypes,
                    BatchInv, JobInv, InBatch, Returning, InQueue, NewStatus
<1>. QED
  BY <1>1, <1>2, <1>3, <1>4, <1>5 DEF Next

LEMMA QueueConclusion == QueueInv => DuplicatesExcused
<1>1. SUFFICES ASSUME QueueInv, NEW j \in Jobs PROVE copies[j] <= 1 + excuses[j]
  BY DEF DuplicatesExcused
<1>2. /\ IsFiniteSet(InBatch(j)) /\ IsFiniteSet(Returning(j))
      /\ copies[j] + Cardinality(InBatch(j)) + Cardinality(Returning(j)) + InQueue(j)
           <= 1 + excuses[j]
  BY <1>1 DEF QueueInv, JobInv
<1>3. /\ Cardinality(InBatch(j)) \in Nat /\ Cardinality(Returning(j)) \in Nat
      /\ InQueue(j) \in Nat /\ copies[j] \in Nat /\ excuses[j] \in Nat
  BY <1>1, <1>2, FS_CardinalityType DEF QueueInv, QueueTypes, InQueue
<1>. QED
  BY <1>2, <1>3

\* However many workers share notification_jobs, crash, and write by id alone,
\* a message arrives again only for a requeue or a lost answer of its own job.
THEOREM DuplicatesTheorem == Spec => []DuplicatesExcused
<1>1. Init => QueueInv
  BY QueueInitial
<1>2. QueueInv /\ [Next]_vars => QueueInv'
  BY QueueStep
<1>3. QueueInv => DuplicatesExcused
  BY QueueConclusion
<1>. QED
  BY <1>1, <1>2, <1>3, PTL DEF Spec

-----------------------------------------------------------------------------
(***************************************************************************)
(* One worker keeps the contract.                                          *)
(***************************************************************************)
OneWorker == \A v, w \in Workers : v = w

Open(j) == status[j] \in {"pending", "processing", "gone"}

\* What the worker holds is owed or erased: while it works on a batch nobody
\* requeues, hence settles, a job of it.  A send that went well has reached its
\* user.
HoldsOpen(w) ==
  /\ \A f \in batch[w] : Open(f.job)
  /\ sending[w] # NoJob =>
       /\ phase[w] = "work"
       /\ Open(sending[w].job)
       /\ \A f \in batch[w] : f.job # sending[w].job
       /\ sending[w].result = "ok" => copies[sending[w].job] > 0

ContractInv == QueueInv /\ \A w \in Workers : HoldsOpen(w)

State(j) == IF status[j] \in {"pending", "processing"} THEN "owed" ELSE status[j]

\* The rows change, the worker does not: what was open stays open.
LEMMA OpenKept ==
  ASSUME ContractInv, UNCHANGED <<workerVars, copies>>,
         \A j \in Jobs : Open(j) => Open(j)', NEW w \in Workers
  PROVE  HoldsOpen(w)'
<1>1. \A f \in batch[w] : f.job \in Jobs
  BY DEF ContractInv, QueueInv, QueueTypes, ReadJobs
<1>2. sending[w] # NoJob => sending[w].job \in Jobs
  BY DEF ContractInv, QueueInv, QueueTypes, SentJobs
<1>3. HoldsOpen(w) /\ UNCHANGED <<phase, batch, sending, copies>>
  BY DEF ContractInv, workerVars
<1>. QED
  BY <1>1, <1>2, <1>3 DEF HoldsOpen

LEMMA HoldsOpenStep ==
  ASSUME OneWorker, ContractInv, [Next]_vars, NEW w \in Workers
  PROVE  HoldsOpen(w)'
<1>a. QueueTypes /\ BatchInv /\ HoldsOpen(w)
  BY DEF ContractInv, QueueInv
<1>b. /\ batch[w] \subseteq ReadJobs /\ batch \in [Workers -> SUBSET ReadJobs]
      /\ sending \in [Workers -> SentJobs \cup {NoJob}]
      /\ phase \in [Workers -> {"requeue", "fetch", "work", "down"}]
      /\ status \in [Jobs -> JobStates] /\ copies \in [Jobs -> Nat]
  BY <1>a DEF QueueTypes
<1>c. /\ \A f \in batch[w] : f.job \in Jobs
      /\ sending[w] # NoJob => sending[w].job \in Jobs
  BY <1>b DEF ReadJobs, SentJobs
<1>1. CASE Environment
  <2>1. /\ UNCHANGED <<workerVars, copies>>
        /\ \A j \in Jobs : Open(j) => Open(j)'
    BY <1>1, <1>b DEF Environment, Enqueue, EraseJobs, BecomeDue, GoStale, historyVars, Open
  <2>. QED
    BY <2>1, OpenKept
<1>2. ASSUME Requeue(w) \/ RequeueFails(w) \/ Crash(w) \/ Restart(w)
             \/ (\E S \in SUBSET Jobs : FetchFails(w, S))
      PROVE  HoldsOpen(w)'
  <2>1. Crash(w) \/ (batch[w] = {} /\ sending[w] = NoJob)
    BY <1>2, <1>a DEF Requeue, RequeueFails, Restart, FetchFails, BatchInv, HoldsOpen
  <2>2. batch'[w] = {} /\ sending'[w] = NoJob
    BY <1>2, <1>b, <2>1 DEF Requeue, RequeueFails, Restart, FetchFails, Crash
  <2>. QED
    BY <2>2 DEF HoldsOpen
<1>3. ASSUME NEW S \in SUBSET Jobs, Fetch(w, S)
      PROVE  HoldsOpen(w)'
  <2>1. sending[w] = NoJob /\ UNCHANGED sending
    BY <1>3, <1>a DEF Fetch, HoldsOpen
  <2>2. batch'[w] = {[job |-> j, attempts |-> attempts[j]] : j \in S}
    BY <1>3, <1>b DEF Fetch
  <2>3. \A j \in S : status'[j] = "processing"
    BY <1>3 DEF Fetch, Claim
  <2>4. \A f \in batch'[w] : f.job \in S
    BY <2>2
  <2>. QED
    BY <2>1, <2>3, <2>4 DEF HoldsOpen, Open
<1>4. ASSUME NEW f \in batch[w], NEW result \in Results,
             Send(w, f, result) \/ (result # "nochat" /\ SendDoubtful(w, f, result))
      PROVE  HoldsOpen(w)'
  <2>1. /\ batch'[w] = batch[w] \ {f} /\ UNCHANGED <<status, phase>> /\ phase[w] = "work"
        /\ sending'[w] = [job |-> f.job, attempts |-> f.attempts, result |-> result]
    BY <1>4, <1>b DEF Send, SendDoubtful, rowVars
  <2>2. sending'[w].job = f.job /\ sending'[w].result = result
    BY <2>1
  <2>3. \A g \in batch'[w] : g.job # f.job
    BY <1>a, <2>1 DEF BatchInv
  <2>4. result = "ok" => copies'[f.job] > 0
    BY <1>4, <1>b, <1>c DEF Send, SendDoubtful
  <2>. QED
    BY <1>a, <2>1, <2>2, <2>3, <2>4 DEF HoldsOpen, Open
<1>5. CASE Record(w) \/ RecordFails(w)
  <2>1. sending'[w] = NoJob /\ batch' = batch /\ sending[w] # NoJob
    BY <1>5, <1>b DEF Record, RecordFails, GoOn
  <2>2. \A j \in Jobs : j # sending[w].job => status'[j] = status[j]
    BY <1>5, <1>b DEF Record, RecordFails, rowVars
  <2>. QED
    BY <1>a, <1>c, <2>1, <2>2 DEF HoldsOpen, Open
<1>6. CASE UNCHANGED vars
  <2>1. UNCHANGED <<workerVars, copies>> /\ \A j \in Jobs : Open(j) => Open(j)'
    BY <1>6 DEF vars, rowVars, historyVars, Open
  <2>. QED
    BY <2>1, OpenKept
<1>7. CASE \E v \in Workers : Work(v) \/ Disturb(v)
  <2>1. Work(w) \/ Disturb(w)
    BY <1>7 DEF OneWorker
  <2>. QED
    BY <1>2, <1>3, <1>4, <1>5, <2>1 DEF Work, Disturb, Results
<1>. QED
  BY <1>1, <1>6, <1>7 DEF Next

-----------------------------------------------------------------------------
\* A step that changes the rows without the contract seeing it.
LEMMA RowsStutter ==
  ASSUME UNCHANGED copies, \A j \in Jobs : State(j)' = State(j)
  PROVE  UNCHANGED Contract!vars
  BY DEF Contract!vars, State

\* A job taken from the batch is delivered, or not.
LEMMA SendDelivers ==
  ASSUME ContractInv, NEW w \in Workers, NEW f \in batch[w], NEW result \in Results,
         Send(w, f, result) \/ (result # "nochat" /\ SendDoubtful(w, f, result))
  PROVE  [Contract!Next]_(Contract!vars)
<1>. DEFINE j == f.job
<1>1. j \in Jobs /\ Open(j)
  BY DEF ContractInv, HoldsOpen, QueueInv, QueueTypes, ReadJobs
<1>2. \A k \in Jobs : State(k)' = State(k)
  BY DEF Send, SendDoubtful, rowVars, State
<1>3. \/ UNCHANGED copies
      \/ \E n \in {1, 2} : copies' = [copies EXCEPT ![j] = @ + n]
  BY DEF Send, SendDoubtful
<1>4. ASSUME NEW n \in {1, 2}, copies' = [copies EXCEPT ![j] = @ + n]
      PROVE  Contract!Deliver(j, n)
  <2>1. State(j) \in {"owed", "gone"}
    BY <1>1 DEF State, Open
  <2>. QED
    BY <1>1, <1>2, <1>4, <2>1 DEF Contract!Deliver, State
<1>. QED
  BY <1>1, <1>2, <1>3, <1>4, RowsStutter DEF Contract!Next

\* What UpdateNotificationJobStatus writes settles the job, or leaves it owed.
LEMMA RecordSettles ==
  ASSUME ContractInv, NEW w \in Workers, Record(w)
  PROVE  [Contract!Next]_(Contract!vars)
<1>. DEFINE s == sending[w]
<1>1. PICK j \in Jobs : j = s.job
  BY DEF ContractInv, QueueInv, QueueTypes, SentJobs, Record
<1>2. /\ status \in [Jobs -> JobStates] /\ UNCHANGED copies
      /\ Open(j) /\ (s.result = "ok" => copies[j] > 0) /\ s \in SentJobs
  BY <1>1 DEF ContractInv, QueueInv, QueueTypes, HoldsOpen, Record, historyVars
<1>3. NewStatus(s) \in {"sent", "failed", "pending"} /\ (NewStatus(s) = "sent" => s.result = "ok")
  BY <1>2 DEF NewStatus, SentJobs
<1>4. CASE status[j] = "gone"
  <2>1. UNCHANGED status
    BY <1>1, <1>4 DEF Record, rowVars
  <2>. QED
    BY <1>2, <2>1, RowsStutter DEF State
<1>5. CASE status[j] # "gone"
  <2>1. status' = [status EXCEPT ![j] = NewStatus(s)] /\ State(j) = "owed"
    BY <1>1, <1>2, <1>5 DEF Record, Open, State
  <2>2. \A k \in Jobs \ {j} : State(k)' = State(k)
    BY <1>2, <2>1 DEF State
  <2>3. State(j)' = IF NewStatus(s) = "pending" THEN "owed" ELSE NewStatus(s)
    BY <1>2, <1>3, <2>1 DEF State
  <2>4. CASE NewStatus(s) = "pending"
    BY <1>2, <2>1, <2>2, <2>3, <2>4, RowsStutter
  <2>5. CASE NewStatus(s) # "pending"
    <3>1. [k \in Jobs |-> State(k)'] = [[k \in Jobs |-> State(k)] EXCEPT ![j] = NewStatus(s)]
      BY <2>2, <2>3, <2>5
    <3>2. Contract!Settle(j)
      BY <1>2, <1>3, <2>1, <2>5, <3>1 DEF Contract!Settle, State
    <3>. QED
      BY <3>2 DEF Contract!Next
  <2>. QED
    BY <2>4, <2>5
<1>. QED
  BY <1>4, <1>5

LEMMA ContractStep ==
  ASSUME OneWorker, ContractInv, [Next]_vars
  PROVE  [Contract!Next]_(Contract!vars)
<1>a. /\ status \in [Jobs -> JobStates]
      /\ stale \subseteq {j \in Jobs : status[j] = "processing"}
  BY DEF ContractInv, QueueInv, QueueTypes
<1>1. ASSUME NEW S \in SUBSET Jobs, NEW now \in BOOLEAN, Enqueue(S, now)
      PROVE  Contract!Enqueue(S)
  <2>1. \A j \in S : State(j) = "none"
    BY <1>1 DEF Enqueue, State
  <2>2. \A j \in Jobs : State(j)' = IF j \in S THEN "owed" ELSE State(j)
    BY <1>1 DEF Enqueue, State
  <2>. QED
    BY <1>1, <2>1, <2>2 DEF Contract!Enqueue, Enqueue, historyVars, State
<1>2. ASSUME NEW S \in SUBSET Jobs, EraseJobs(S)
      PROVE  Contract!Erase(S)
  <2>1. \A j \in S : State(j) # "none"
    BY <1>2 DEF EraseJobs, State
  <2>2. \A j \in Jobs : State(j)' = IF j \in S THEN "gone" ELSE State(j)
    BY <1>2 DEF EraseJobs, State
  <2>. QED
    BY <1>2, <2>1, <2>2 DEF Contract!Erase, EraseJobs, historyVars, State
\* Claiming and requeueing move a job between two statuses that both are owed.
<1>3. ASSUME NEW w \in Workers,
             \/ Requeue(w) \/ RequeueFails(w) \/ RecordFails(w) \/ Crash(w) \/ Restart(w)
             \/ \E S \in SUBSET Jobs : Fetch(w, S) \/ FetchFails(w, S)
      PROVE  UNCHANGED Contract!vars
  <2>1. UNCHANGED copies
    BY <1>3 DEF Requeue, RequeueFails, RecordFails, Crash, Restart, Fetch, FetchFails, historyVars
  <2>2. CASE Requeue(w) \/ RequeueFails(w) \/ RecordFails(w) \/ Crash(w) \/ Restart(w)
    BY <1>a, <2>1, <2>2, RowsStutter
       DEF Requeue, RequeueFails, RecordFails, Crash, Restart, rowVars, State
  <2>3. ASSUME NEW S \in SUBSET Jobs, Fetch(w, S) \/ FetchFails(w, S)
        PROVE  UNCHANGED Contract!vars
    <3>1. \A j \in S : status[j] = "pending"
      BY <2>3 DEF Fetch, FetchFails, Fetchable, Due
    <3>2. \A j \in Jobs : State(j)' = State(j)
      BY <2>3, <3>1 DEF Fetch, FetchFails, Claim, State
    <3>. QED
      BY <2>1, <3>2, RowsStutter
  <2>. QED
    BY <1>3, <2>2, <2>3
<1>4. ASSUME NEW j \in Jobs, BecomeDue(j) \/ GoStale(j)
      PROVE  UNCHANGED Contract!vars
  BY <1>4, RowsStutter DEF BecomeDue, GoStale, historyVars, State
<1>5. CASE UNCHANGED vars
  BY <1>5, RowsStutter DEF vars, rowVars, historyVars, State
<1>6. CASE Environment
  BY <1>1, <1>2, <1>4, <1>6 DEF Environment, Contract!Next
<1>7. ASSUME NEW w \in Workers, Work(w) \/ Disturb(w)
      PROVE  [Contract!Next]_(Contract!vars)
  BY <1>3, <1>7, SendDelivers, RecordSettles DEF Work, Disturb, Results
<1>. QED
  BY <1>5, <1>6, <1>7 DEF Next

\* A single worker, whatever it loses in crashes and failing statements, keeps
\* the contract of the queue: a job is owed until it is settled, a settled one
\* stays settled, and one settled as sent has reached its user.
THEOREM ContractTheorem ==
  ASSUME OneWorker
  PROVE  Spec => ImplementsContract
<1>1. Init => ContractInv /\ Contract!Init
  <2>1. ASSUME Init PROVE \A w \in Workers : HoldsOpen(w)
    BY <2>1 DEF Init, HoldsOpen
  <2>2. Init => Contract!Init
    BY DEF Init, Contract!Init
  <2>. QED
    BY <2>1, <2>2, QueueInitial DEF ContractInv
<1>2. ContractInv /\ [Next]_vars => ContractInv'
  BY QueueStep, HoldsOpenStep DEF ContractInv
<1>3. ContractInv /\ [Next]_vars => [Contract!Next]_(Contract!vars)
  BY ContractStep
<1>. QED
  BY <1>1, <1>2, <1>3, PTL DEF Spec, ImplementsContract, Contract!Spec

-----------------------------------------------------------------------------
(***************************************************************************)
(* One worker: each fault costs at most one duplicate.  A job that has     *)
(* reached its user and will be sent again was charged to the fault that   *)
(* left it there; the copy itself is then free.                            *)
(***************************************************************************)

\* A send that will be written as sent or failed.
Settling(j) ==
  \E w \in Workers : /\ sending[w] # NoJob /\ sending[w].job = j
                    /\ NewStatus(sending[w]) # "pending"

\* The jobs a worker may send again.
Waiting(j) ==
  status[j] \in {"pending", "processing"} \/ InBatch(j) # {} \/ Returning(j) # {}

Risk == {j \in Jobs : copies[j] > 0 /\ Waiting(j) /\ ~Settling(j)}

Charged == Charges(Jobs, copies, Risk)

ChargedInv ==
  /\ faults \in Nat
  /\ \A j \in Jobs : status[j] = "none" => copies[j] = 0
  /\ IsFiniteSet(Charged) /\ Cardinality(Charged) <= faults

\* The worker holds nothing: nothing is settling or returning.
LEMMA Idle ==
  ASSUME OneWorker, NEW w \in Workers, sending[w] = NoJob, NEW j \in Jobs
  PROVE  ~Settling(j) /\ Returning(j) = {}
BY DEF OneWorker, Settling, Returning

\* A step that makes no copy, and after which no other job will be sent again.
LEMMA NothingNew ==
  ASSUME ChargedInv, UNCHANGED copies, copies \in [Jobs -> Nat], Risk' \subseteq Risk,
         faults' \in Nat, faults' >= faults
  PROVE  IsFiniteSet(Charged') /\ Cardinality(Charged') <= faults'
<1>1. /\ Risk \in SUBSET Jobs /\ Risk' \in SUBSET Risk
      /\ IsFiniteSet(Charges(Jobs, copies, Risk))
  BY DEF ChargedInv, Charged, Risk
<1>2. /\ IsFiniteSet(Charges(Jobs, copies, Risk'))
      /\ Cardinality(Charges(Jobs, copies, Risk')) <= Cardinality(Charges(Jobs, copies, Risk))
      /\ Cardinality(Charges(Jobs, copies, Risk)) \in Nat
      /\ Cardinality(Charges(Jobs, copies, Risk')) \in Nat
  BY <1>1, NothingCharged
<1>3. Cardinality(Charges(Jobs, copies, Risk)) <= faults /\ faults \in Nat
  BY DEF ChargedInv, Charged
<1>. QED
  BY <1>2, <1>3 DEF Charged

LEMMA EnvironmentCharged ==
  ASSUME ContractInv, ChargedInv, Environment \/ UNCHANGED vars
  PROVE  Risk' \subseteq Risk /\ UNCHANGED <<copies, faults>>
<1>1. UNCHANGED <<batch, sending, copies, faults>>
  BY DEF Environment, Enqueue, EraseJobs, BecomeDue, GoStale, vars, workerVars, historyVars
<1>2. \A j \in Jobs : status'[j] \in {"pending", "processing"} =>
                      status[j] \in {"none", "pending", "processing"}
  BY DEF ContractInv, QueueInv, QueueTypes, Environment, Enqueue, EraseJobs, BecomeDue, GoStale, vars,
         rowVars
<1>3. ASSUME NEW j \in Risk' PROVE j \in Risk
  <2>1. j \in Jobs /\ copies[j] > 0 /\ Waiting(j)' /\ ~Settling(j)'
    BY <1>1, <1>3 DEF Risk
  <2>2. ~Settling(j) /\ InBatch(j)' = InBatch(j) /\ Returning(j)' = Returning(j)
    BY <1>1, <2>1 DEF Settling, InBatch, Returning, NewStatus
  <2>3. Waiting(j)
    BY <1>2, <2>1, <2>2 DEF Waiting, ChargedInv
  <2>. QED
    BY <2>1, <2>2, <2>3 DEF Risk
<1>. QED
  BY <1>1, <1>3

\* The worker between its batches.
LEMMA LoopCharged ==
  ASSUME OneWorker, ContractInv, NEW w \in Workers,
         \/ Requeue(w) \/ RequeueFails(w) \/ Restart(w)
         \/ \E S \in SUBSET Jobs : Fetch(w, S) \/ FetchFails(w, S)
  PROVE  Risk' \subseteq Risk /\ UNCHANGED copies /\ (faults' = faults \/ Fault)
<1>1. sending[w] = NoJob /\ UNCHANGED <<sending, copies>> /\ (faults' = faults \/ Fault)
  BY DEF ContractInv, HoldsOpen, Requeue, RequeueFails, Restart, Fetch, FetchFails, historyVars
<1>2. ASSUME NEW j \in Jobs, Waiting(j)' PROVE Waiting(j)
  <2>1. /\ status \in [Jobs -> JobStates] /\ stale \subseteq {k \in Jobs : status[k] = "processing"}
        /\ batch \in [Workers -> SUBSET ReadJobs]
    BY DEF ContractInv, QueueInv, QueueTypes
  <2>2. Returning(j)' = {}
    BY <1>1, Idle DEF OneWorker, Returning, NewStatus
  <2>3. status'[j] \in {"pending", "processing"} => status[j] \in {"pending", "processing"}
    BY <2>1 DEF Requeue, RequeueFails, Restart, Fetch, FetchFails, Claim, Fetchable, Due, rowVars
  <2>4. CASE UNCHANGED batch
    BY <1>2, <2>2, <2>3, <2>4 DEF Waiting, InBatch
  <2>5. ASSUME NEW S \in SUBSET Jobs, Fetch(w, S) PROVE Waiting(j)
    <3>1. batch'[w] = {[job |-> k, attempts |-> attempts[k]] : k \in S}
      BY <2>1, <2>5 DEF Fetch
    <3>2. InBatch(j)' # {} => j \in S
      BY <3>1 DEF OneWorker, InBatch
    <3>3. j \in S => status[j] = "pending"
      BY <2>5 DEF Fetch, Fetchable, Due
    <3>. QED
      BY <1>2, <2>2, <2>3, <3>2, <3>3 DEF Waiting
  <2>. QED
    BY <2>4, <2>5 DEF Requeue, RequeueFails, Restart, FetchFails
<1>. QED
  BY <1>1, <1>2, Idle DEF Risk

\* What was sent is written: it is settled, or goes back and was at risk before.
LEMMA RecordCharged ==
  ASSUME OneWorker, ContractInv, NEW w \in Workers, Record(w)
  PROVE  Risk' \subseteq Risk
<1>1. PICK k \in Jobs : k = sending[w].job
  BY DEF ContractInv, QueueInv, QueueTypes, SentJobs, Record
<1>2. /\ sending'[w] = NoJob /\ UNCHANGED <<batch, copies>> /\ sending[w] # NoJob
      /\ status \in [Jobs -> JobStates]
  BY DEF ContractInv, QueueInv, QueueTypes, Record, GoOn, historyVars
<1>3. InBatch(k) = {}
  BY <1>1, <1>2 DEF OneWorker, ContractInv, HoldsOpen, InBatch
<1>4. ASSUME NEW j \in Risk' PROVE j \in Risk
  <2>1. j \in Jobs /\ copies[j] > 0 /\ Waiting(j)' /\ Returning(j)' = {} /\ InBatch(j)' = InBatch(j)
    BY <1>2, <1>4 DEF OneWorker, Risk, Returning, InBatch
  <2>2. CASE j = k
    <3>1. status'[k] \in {"pending", "processing"}
      BY <1>3, <2>1, <2>2 DEF Waiting
    <3>2. NewStatus(sending[w]) = "pending"
      <4>1. status[k] # "gone"
        BY <1>1, <3>1 DEF Record, rowVars
      <4>2. status'[k] = NewStatus(sending[w]) /\ sending[w] \in SentJobs
        BY <1>1, <1>2, <4>1 DEF ContractInv, QueueInv, QueueTypes, Record
      <4>. QED
        BY <3>1, <4>2 DEF NewStatus, SentJobs
    <3>3. w \in Returning(k) /\ ~Settling(k)
      BY <1>1, <1>2, <3>2 DEF OneWorker, Returning, Settling
    <3>. QED
      BY <2>1, <2>2, <3>3 DEF Risk, Waiting
  <2>3. CASE j # k
    <3>1. status'[j] = status[j]
      BY <1>1, <1>2, <2>1, <2>3 DEF Record, rowVars
    <3>2. ~Settling(j)
      BY <1>1, <2>3 DEF OneWorker, Settling
    <3>. QED
      BY <2>1, <3>1, <3>2 DEF Risk, Waiting
  <2>. QED
    BY <2>2, <2>3
<1>. QED
  BY <1>4

\* A write that fails, or a crash, leaves at most the job that was just sent.
LEMMA LossCharged ==
  ASSUME OneWorker, ContractInv, ChargedInv, NEW w \in Workers, RecordFails(w) \/ Crash(w)
  PROVE  IsFiniteSet(Charged') /\ Cardinality(Charged') <= faults'
<1>1. /\ Fault /\ UNCHANGED <<status, copies>> /\ copies \in [Jobs -> Nat]
      /\ sending'[w] = NoJob /\ batch'[w] \subseteq batch[w]
  BY DEF ContractInv, QueueInv, QueueTypes, RecordFails, Crash, GoOn, rowVars
<1>2. faults' = faults + 1 /\ faults \in Nat
  BY <1>1 DEF Fault, ChargedInv
<1>3. \A j \in Jobs : ~Settling(j)' /\ (Waiting(j)' => Waiting(j))
  BY <1>1 DEF OneWorker, Settling, Waiting, InBatch, Returning
<1>4. CASE sending[w] = NoJob
  <2>1. Risk' \subseteq Risk
    BY <1>1, <1>3, <1>4, Idle DEF Risk
  <2>. QED
    BY <1>1, <1>2, <2>1, NothingNew
<1>5. CASE sending[w] # NoJob
  <2>1. PICK k \in Jobs : k = sending[w].job
    BY <1>5 DEF ContractInv, QueueInv, QueueTypes, SentJobs
  <2>2. \A j \in Jobs \ {k} : ~Settling(j)
    BY <2>1 DEF OneWorker, Settling
  <2>3. Risk' \subseteq Risk \cup {k} /\ Risk \in SUBSET Jobs /\ Risk' \in SUBSET Jobs
    BY <1>1, <1>3, <2>2 DEF Risk
  <2>4. IsFiniteSet(Charges(Jobs, copies, Risk)) /\ Cardinality(Charges(Jobs, copies, Risk)) <= faults
    BY DEF ChargedInv, Charged
  <2>5. /\ IsFiniteSet(Charges(Jobs, copies, Risk'))
        /\ Cardinality(Charges(Jobs, copies, Risk')) <= Cardinality(Charges(Jobs, copies, Risk)) + 1
        /\ Cardinality(Charges(Jobs, copies, Risk)) \in Nat
        /\ Cardinality(Charges(Jobs, copies, Risk')) \in Nat
    BY <1>1, <2>3, <2>4, RiskCharged
  <2>. QED
    BY <1>1, <1>2, <2>4, <2>5 DEF Charged
<1>. QED
  BY <1>4, <1>5

\* A send is free if it is settled, and a second copy is charged to the fault.
LEMMA SendingCharged ==
  ASSUME OneWorker, ContractInv, ChargedInv, NEW w \in Workers, NEW f \in batch[w],
         NEW result \in Results,
         Send(w, f, result) \/ (result # "nochat" /\ SendDoubtful(w, f, result))
  PROVE  IsFiniteSet(Charged') /\ Cardinality(Charged') <= faults'
<1>. DEFINE s == [job |-> f.job, attempts |-> f.attempts, result |-> result]
<1>1. PICK j \in Jobs : j = f.job
  BY DEF ContractInv, QueueInv, QueueTypes, ReadJobs
<1>2. /\ copies \in [Jobs -> Nat] /\ copies' \in [Jobs -> Nat] /\ UNCHANGED status
      /\ sending[w] = NoJob /\ sending'[w] = s /\ batch'[w] = batch[w] \ {f}
      /\ s \in SentJobs /\ s.job = j /\ s.result = result
  BY <1>1 DEF ContractInv, QueueInv, QueueTypes, Send, SendDoubtful, rowVars, Results, ReadJobs, SentJobs
<1>3. s # NoJob
  BY <1>2, QueueAssumption DEF SentJobs
<1>. HIDE DEF s
<1>4. InBatch(j) # {} /\ InBatch(j)' = {} /\ \A k \in Jobs : InBatch(k)' \subseteq InBatch(k)
  BY <1>1, <1>2 DEF OneWorker, ContractInv, QueueInv, BatchInv, InBatch
<1>5. /\ copies[j] > 0 => j \in Risk
      /\ \A k \in Jobs \ {j} : k \in Risk' /\ copies'[k] = copies[k] => k \in Risk
  <2>1. \A k \in Jobs : ~Settling(k) /\ Returning(k) = {}
    BY <1>2, Idle
  <2>2. \A k \in Jobs \ {j} : Returning(k)' = {}
    BY <1>2 DEF OneWorker, Returning, NewStatus
  <2>. QED
    BY <1>2, <1>4, <2>1, <2>2 DEF Risk, Waiting
<1>6. NewStatus(s) # "pending" => j \notin Risk'
  BY <1>2, <1>3 DEF Risk, Settling, NewStatus
<1>7. result # "error" => NewStatus(s) # "pending"
  BY <1>2 DEF NewStatus, SentJobs
<1>8. /\ Risk \in SUBSET Jobs /\ Risk' \in SUBSET Jobs
      /\ IsFiniteSet(Charges(Jobs, copies, Risk)) /\ faults \in Nat
  BY DEF Risk, ChargedInv, Charged
<1>9. Cardinality(Charges(Jobs, copies, Risk)) <= faults
  BY DEF ChargedInv, Charged
<1>10. CASE UNCHANGED <<copies, faults>>
  <2>1. Risk' \subseteq Risk
    BY <1>5, <1>10 DEF Risk
  <2>. QED
    BY <1>2, <1>8, <1>10, <2>1, NothingNew
<1>11. ASSUME NEW n \in Nat, n <= 2, copies'[j] = copies[j] + n, result # "error",
              \A k \in Jobs \ {j} : copies'[k] = copies[k],
              faults' = faults + (IF n = 2 THEN 1 ELSE 0)
       PROVE  IsFiniteSet(Charged') /\ Cardinality(Charged') <= faults'
  <2>1. j \notin Risk' /\ Risk' \in SUBSET Risk
    BY <1>5, <1>6, <1>7, <1>8, <1>11
  <2>2. /\ IsFiniteSet(Charges(Jobs, copies', Risk'))
        /\ Cardinality(Charges(Jobs, copies', Risk'))
             <= Cardinality(Charges(Jobs, copies, Risk)) + (IF n = 2 THEN 1 ELSE 0)
        /\ Cardinality(Charges(Jobs, copies, Risk)) \in Nat
        /\ Cardinality(Charges(Jobs, copies', Risk')) \in Nat
    BY <1>2, <1>5, <1>8, <1>11, <2>1, SendCharged
  <2>. QED
    BY <1>8, <1>9, <1>11, <2>2 DEF Charged
<1>12. ASSUME copies'[j] = copies[j] + 1, \A k \in Jobs \ {j} : copies'[k] = copies[k],
              faults' = faults + 1
       PROVE  IsFiniteSet(Charged') /\ Cardinality(Charged') <= faults'
  <2>1. Risk' \subseteq Risk \cup {j}
    BY <1>5, <1>8, <1>12
  <2>2. /\ IsFiniteSet(Charges(Jobs, copies', Risk'))
        /\ Cardinality(Charges(Jobs, copies', Risk')) <= Cardinality(Charges(Jobs, copies, Risk)) + 1
        /\ Cardinality(Charges(Jobs, copies, Risk)) \in Nat
        /\ Cardinality(Charges(Jobs, copies', Risk')) \in Nat
    BY <1>2, <1>5, <1>8, <1>12, <2>1, CopyCharged
  <2>. QED
    BY <1>8, <1>9, <1>12, <2>2 DEF Charged
<1>13. CASE Send(w, f, result)
  <2>1. CASE result = "ok"
    <3>1. copies'[j] = copies[j] + 1 /\ \A k \in Jobs \ {j} : copies'[k] = copies[k]
      BY <1>1, <1>2, <1>13, <2>1 DEF Send
    <3>2. faults' = faults + 0
      BY <1>8, <1>13 DEF Send
    <3>. QED
      BY <1>11, <2>1, <3>1, <3>2
  <2>2. CASE result # "ok"
    BY <1>10, <1>13, <2>2 DEF Send
  <2>. QED
    BY <2>1, <2>2
<1>14. CASE result # "nochat" /\ SendDoubtful(w, f, result)
  <2>1. faults' = faults + 1
    BY <1>14 DEF SendDoubtful, Fault
  <2>2. CASE result = "ok"
    <3>1. copies'[j] = copies[j] + 2 /\ \A k \in Jobs \ {j} : copies'[k] = copies[k]
      BY <1>1, <1>2, <1>14, <2>2 DEF SendDoubtful
    <3>. QED
      BY <1>11, <2>1, <2>2, <3>1
  <2>3. CASE result # "ok"
    <3>1. copies'[j] = copies[j] + 1 /\ \A k \in Jobs \ {j} : copies'[k] = copies[k]
      BY <1>1, <1>2, <1>14, <2>3 DEF SendDoubtful
    <3>. QED
      BY <1>12, <2>1, <3>1
  <2>. QED
    BY <2>2, <2>3
<1>. QED
  BY <1>13, <1>14

\* Only a send makes copies, and of an open job; no job is unwritten.
LEMMA CopiesMove ==
  ASSUME ContractInv, [Next]_vars, NEW j \in Jobs
  PROVE  /\ copies'[j] = copies[j] \/ Open(j)
         /\ status'[j] = "none" => status[j] = "none"
<1>1. /\ status \in [Jobs -> JobStates] /\ copies \in [Jobs -> Nat]
      /\ \A w \in Workers : \A f \in batch[w] : Open(f.job)
  BY DEF ContractInv, HoldsOpen, QueueInv, QueueTypes
<1>2. CASE Environment \/ UNCHANGED vars
  BY <1>1, <1>2 DEF Environment, Enqueue, EraseJobs, BecomeDue, GoStale, vars, rowVars, historyVars
<1>3. ASSUME NEW w \in Workers,
             \/ Requeue(w) \/ RequeueFails(w) \/ RecordFails(w) \/ Crash(w) \/ Restart(w)
             \/ \E S \in SUBSET Jobs : Fetch(w, S) \/ FetchFails(w, S)
      PROVE  copies' = copies /\ (status'[j] = "none" => status[j] = "none")
  BY <1>1, <1>3 DEF Requeue, RequeueFails, RecordFails, Crash, Restart, Fetch, FetchFails, Claim,
                    rowVars, historyVars
<1>4. ASSUME NEW w \in Workers, Record(w)
      PROVE  copies' = copies /\ (status'[j] = "none" => status[j] = "none")
  <2>1. NewStatus(sending[w]) # "none"
    BY <1>4 DEF ContractInv, QueueInv, QueueTypes, SentJobs, Record, NewStatus
  <2>. QED
    BY <1>1, <1>4, <2>1 DEF Record, rowVars, historyVars
<1>5. ASSUME NEW w \in Workers, NEW f \in batch[w], NEW result \in Results,
             Send(w, f, result) \/ (result # "nochat" /\ SendDoubtful(w, f, result))
      PROVE  (copies'[j] = copies[j] \/ Open(j)) /\ status' = status
  BY <1>1, <1>5 DEF Send, SendDoubtful, rowVars
<1>. QED
  BY <1>2, <1>3, <1>4, <1>5 DEF Next, Work, Disturb, Results

LEMMA ChargedStep ==
  ASSUME OneWorker, ContractInv, ChargedInv, [Next]_vars
  PROVE  ChargedInv'
<1>1. \A j \in Jobs : status'[j] = "none" => copies'[j] = 0
  BY CopiesMove DEF ChargedInv, Open
<1>2. faults' \in Nat
  BY DEF ChargedInv, Next, Environment, Enqueue, EraseJobs, BecomeDue, GoStale, Work, Requeue, Fetch,
         Send, Record, Restart, Disturb, RequeueFails, FetchFails, SendDoubtful, RecordFails, Crash,
         Fault, vars, historyVars
<1>3. copies \in [Jobs -> Nat] /\ faults \in Nat
  BY DEF ContractInv, QueueInv, QueueTypes, ChargedInv
<1>4. CASE Environment \/ UNCHANGED vars
  BY <1>1, <1>2, <1>3, <1>4, EnvironmentCharged, NothingNew DEF ChargedInv
<1>5. ASSUME NEW w \in Workers,
             \/ Requeue(w) \/ RequeueFails(w) \/ Restart(w)
             \/ \E S \in SUBSET Jobs : Fetch(w, S) \/ FetchFails(w, S)
      PROVE  ChargedInv'
  <2>1. Risk' \subseteq Risk /\ UNCHANGED copies /\ (faults' = faults \/ Fault)
    BY <1>5, LoopCharged
  <2>2. faults' >= faults
    BY <1>3, <2>1 DEF Fault
  <2>. QED
    BY <1>1, <1>2, <1>3, <2>1, <2>2, NothingNew DEF ChargedInv
<1>6. ASSUME NEW w \in Workers, Record(w)
      PROVE  ChargedInv'
  <2>1. UNCHANGED <<copies, faults>> /\ Risk' \subseteq Risk
    BY <1>6, RecordCharged DEF Record, historyVars
  <2>. QED
    BY <1>1, <1>2, <1>3, <2>1, NothingNew DEF ChargedInv
<1>7. ASSUME NEW w \in Workers, RecordFails(w) \/ Crash(w)
      PROVE  ChargedInv'
  BY <1>1, <1>2, <1>7, LossCharged DEF ChargedInv
<1>8. ASSUME NEW w \in Workers, NEW f \in batch[w], NEW result \in Results,
             Send(w, f, result) \/ (result # "nochat" /\ SendDoubtful(w, f, result))
      PROVE  ChargedInv'
  BY <1>1, <1>2, <1>8, SendingCharged DEF ChargedInv
<1>. QED
  BY <1>4, <1>5, <1>6, <1>7, <1>8 DEF Next, Work, Disturb, Results

\* A single worker: each crash, failing statement or lost answer costs at most
\* one duplicate message, over all jobs.  A crash in the middle of a batch
\* repeats the job whose write was lost and no other, and requeueing after ten
\* minutes repeats none (handleJob of cmd/worker/main.go).
THEOREM OneDuplicateTheorem ==
  ASSUME OneWorker
  PROVE  Spec => []OneDuplicatePerFault
<1>1. Init => ContractInv /\ ChargedInv
  <2>1. SUFFICES ASSUME Init PROVE ContractInv /\ ChargedInv
    OBVIOUS
  <2>2. ContractInv
    BY <2>1, QueueInitial DEF Init, ContractInv, HoldsOpen
  <2>3. Risk = {} /\ copies \in [Jobs -> Nat] /\ \A j \in Jobs : copies[j] = 0
    BY <2>1 DEF Init, Risk
  <2>4. Charged = {}
    BY <2>3, ChargesElements DEF Charged
  <2>. QED
    BY <2>1, <2>2, <2>4, FS_EmptySet DEF Init, ChargedInv
<1>2. ContractInv /\ ChargedInv /\ [Next]_vars => ContractInv' /\ ChargedInv'
  BY QueueStep, HoldsOpenStep, ChargedStep DEF ContractInv
<1>3. ChargedInv => OneDuplicatePerFault
  <2>1. SUFFICES ASSUME ChargedInv PROVE OneDuplicatePerFault
    OBVIOUS
  <2>2. Duplicates \subseteq Charged
    BY DEF Duplicates, Charged, Charges, Extra
  <2>3. IsFiniteSet(Charged) /\ Cardinality(Charged) <= faults /\ faults \in Nat
    BY <2>1 DEF ChargedInv
  <2>4. /\ Cardinality(Duplicates) <= Cardinality(Charged)
        /\ Cardinality(Duplicates) \in Nat /\ Cardinality(Charged) \in Nat
    BY <2>2, <2>3, Fewer
  <2>. QED
    BY <2>3, <2>4 DEF OneDuplicatePerFault
<1>. QED
  BY <1>1, <1>2, <1>3, PTL DEF Spec
=============================================================================
