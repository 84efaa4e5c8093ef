------------------------------- MODULE Events -------------------------------
(***************************************************************************)
(* Events and their participants: the handlers CreateEvent, JoinEvent and  *)
(* LeaveEvent of internal/http/handlers/events.go and HideEvent,           *)
(* UpdateEventAdmin and DeleteEventAdmin of handlers/admin.go, the rows of *)
(* events and event_participants, and the notification jobs they enqueue.  *)
(*                                                                         *)
(* Every SQL statement is a step.  What is counted and what is inserted    *)
(* are separate statements, and no lock is held between them.              *)
(***************************************************************************)
EXTENDS Naturals, FiniteSets

CONSTANTS
  Users,
  Events,       \* the ids of events rows
  Requests,     \* requests the API works on at the same time
  HourLimit,    \* maxEventsPerHour, 3 in the code
  Capacities,   \* the capacities requests name, 0 for none
  Starts,       \* the starts they name, and "kept" for a patch without one
  Privacy,      \* the values of isPrivate they name
  MaxFaults,    \* bound on failing statements and stops of the API
  Nobody,       \* the creator of an event that does not exist yet
  NoRequest     \* a free slot of Requests

ASSUME EventsAssumption ==
  /\ IsFiniteSet(Users)
  /\ IsFiniteSet(Events)
  /\ IsFiniteSet(Requests)
  /\ HourLimit \in Nat
  /\ Capacities \subseteq Nat
  /\ 0 \in Capacities
  /\ Starts \subseteq {"kept", "ahead", "near"}
  /\ Privacy \subseteq BOOLEAN
  /\ MaxFaults \in Nat
  /\ Nobody \notin Users

VARIABLES
  eventRow,      \* "none", "live" or "gone"
  creator,       \* creator_user_id
  capacity,      \* capacity, 0 for NULL
  hidden,        \* the events with is_hidden
  private,       \* the events with is_private
  young,         \* the events with created_at within the last hour
  distant,       \* the events with starts_at more than an hour ahead
  participants,  \* event_participants: the users who joined
  reminders,     \* notification_jobs: who has a job reminder_60m
  request,       \* what each request is doing, with what it has read
  peak,          \* history: the largest capacity there was, 0 for unlimited
  moved,         \* history: the events whose starts_at was patched
  keyed,         \* history: who presented the access key of which event
  faults         \* history: how many faults there were

eventVars   == <<eventRow, creator, capacity, hidden, private, young, distant>>
historyVars == <<peak, moved, keyed, faults>>
vars == <<eventVars, participants, reminders, request, historyVars>>

JoinStages ==
  {"joinCreator", "tellAll", "access", "count", "insert", "tell", "start", "remind"}

\* limit and ahead are the capacity and the start a request works with.
CreateRequests == [stage : {"create"}, user : Users]
JoinRequests   == [stage : JoinStages, user : Users, event : Events,
                   limit : Capacities, ahead : BOOLEAN]
UpdateRequests == [stage : {"write"}, event : Events, limit : Capacities,
                   start : Starts]

RequestStates == CreateRequests \cup JoinRequests \cup UpdateRequests

ASSUME RequestAssumption == NoRequest \notin RequestStates

TypeOK ==
  /\ eventRow \in [Events -> {"none", "live", "gone"}]
  /\ creator \in [Events -> Users \cup {Nobody}]
  /\ capacity \in [Events -> Capacities]
  /\ hidden \subseteq Events
  /\ private \subseteq Events
  /\ young \subseteq Events
  /\ distant \subseteq Events
  /\ participants \in [Events -> SUBSET Users]
  /\ reminders \in [Events -> SUBSET Users]
  /\ request \in [Requests -> RequestStates \cup {NoRequest}]
  /\ peak \in [Events -> Capacities]
  /\ moved \subseteq Events
  /\ keyed \subseteq Events \X Users
  /\ faults \in 0..MaxFaults

Init ==
  /\ eventRow = [e \in Events |-> "none"]
  /\ creator = [e \in Events |-> Nobody]
  /\ capacity = [e \in Events |-> 0]
  /\ hidden = {}
  /\ private = {}
  /\ young = {}
  /\ distant = {}
  /\ participants = [e \in Events |-> {}]
  /\ reminders = [e \in Events |-> {}]
  /\ request = [r \in Requests |-> NoRequest]
  /\ peak = [e \in Events |-> 0]
  /\ moved = {}
  /\ keyed = {}
  /\ faults = 0

Reply(r) == request' = [request EXCEPT ![r] = NoRequest]

GoTo(r, stage) == request' = [request EXCEPT ![r].stage = stage]

At(r, stage) == request[r] # NoRequest /\ request[r].stage = stage

\* The foreign keys of event_participants and notification_jobs.
Exists(e) == eventRow[e] = "live"

-----------------------------------------------------------------------------
(***************************************************************************)
(* CreateEvent                                                             *)
(***************************************************************************)
CreatedLastHour(u) == {e \in young : creator[e] = u}

\* Mutant: compares with the limit as if the new event had been counted.
CountHourOneMore(r, u) ==
  /\ request[r] = NoRequest
  /\ Cardinality(CreatedLastHour(u)) <= HourLimit
  /\ request' = [request EXCEPT ![r] = [stage |-> "create", user |-> u]]
  /\ UNCHANGED <<eventVars, participants, reminders, historyVars>>

\* A request over the limit is refused, which changes nothing.
CountHour(r, u) ==
  /\ request[r] = NoRequest
  /\ Cardinality(CreatedLastHour(u)) < HourLimit
  /\ request' = [request EXCEPT ![r] = [stage |-> "create", user |-> u]]
  /\ UNCHANGED <<eventVars, participants, reminders, historyVars>>

\* CreateEventWithMedia; cap is 0 when the request names no capacity.
InsertRow(e, u, cap, isPrivate, ahead) ==
  /\ eventRow' = [eventRow EXCEPT ![e] = "live"]
  /\ creator' = [creator EXCEPT ![e] = u]
  /\ capacity' = [capacity EXCEPT ![e] = cap]
  /\ private' = IF isPrivate THEN private \cup {e} ELSE private
  /\ young' = young \cup {e}
  /\ distant' = IF ahead THEN distant \cup {e} ELSE distant
  /\ peak' = [peak EXCEPT ![e] = cap]
  /\ UNCHANGED <<hidden, moved, keyed, faults>>

InsertEvent(r, e, cap, isPrivate, ahead) ==
  /\ At(r, "create")
  /\ eventRow[e] = "none"
  /\ InsertRow(e, request[r].user, cap, isPrivate, ahead)
  /\ request' = [request EXCEPT ![r] =
       [stage |-> "joinCreator", user |-> request[r].user, event |-> e,
        limit |-> cap, ahead |-> ahead]]
  /\ UNCHANGED <<participants, reminders>>

\* JoinEvent of the repository; joining twice is one row.
InsertParticipant(e, u) ==
  participants' = [participants EXCEPT ![e] =
                     IF Exists(e) THEN @ \cup {u} ELSE @]

\* The creator joins whatever the capacity is; an error is ignored.
JoinCreator(r) ==
  /\ At(r, "joinCreator")
  /\ InsertParticipant(request[r].event, request[r].user)
  /\ GoTo(r, "tellAll")
  /\ UNCHANGED <<eventVars, reminders, historyVars>>

\* startsAt is the one the request named: the row may have changed since.
MayRemindCreator(q) == q.ahead /\ q.event \in distant \cup moved
MaySkipCreator(q)   == q.ahead => q.event \notin distant \ moved

AfterTelling(r) ==
  \/ MayRemindCreator(request[r]) /\ GoTo(r, "remind")
  \/ MaySkipCreator(request[r]) /\ Reply(r)

\* Mutant: nobody is told of a private event, and the handler returns there.
TellAllReturns(r) ==
  /\ At(r, "tellAll")
  /\ IF request[r].event \in private THEN Reply(r) ELSE AfterTelling(r)
  /\ UNCHANGED <<eventVars, participants, reminders, historyVars>>

\* One event_created job for every user, unless the event is private: rows
\* that nothing here reads.  NotificationQueue follows what becomes of them.
TellAll(r) ==
  /\ At(r, "tellAll")
  /\ AfterTelling(r)
  /\ UNCHANGED <<eventVars, participants, reminders, historyVars>>

-----------------------------------------------------------------------------
(***************************************************************************)
(* JoinEvent and LeaveEvent                                                *)
(***************************************************************************)
\* GetEventByID: what the request knows of the event from now on.
ReadEvent(r, u, e) ==
  /\ request[r] = NoRequest
  /\ Exists(e)
  /\ e \notin hidden
  /\ request' = [request EXCEPT ![r] =
       [stage |-> "access", user |-> u, event |-> e, limit |-> capacity[e],
        ahead |-> FALSE]]
  /\ UNCHANGED <<eventVars, participants, reminders, historyVars>>

\* Mutant: the answer of IsUserJoined is taken for granted without an error.
AllowedUnlessError(q, hasKey) == TRUE

\* allowPrivateEvent; hasKey says whether the request presents the key.
Allowed(q, hasKey) ==
  \/ q.event \notin private
  \/ q.user = creator[q.event]
  \/ hasKey
  \/ q.user \in participants[q.event]

Access(r, hasKey) ==
  /\ At(r, "access")
  /\ IF Allowed(request[r], hasKey)
     THEN GoTo(r, IF request[r].limit = 0 THEN "insert" ELSE "count")
     ELSE Reply(r)
  /\ keyed' = IF hasKey THEN keyed \cup {<<request[r].event, request[r].user>>}
                        ELSE keyed
  /\ UNCHANGED <<eventVars, participants, reminders, peak, moved, faults>>

\* Mutant: count > capacity instead of count >= capacity.
HasRoomOneMore(q) == Cardinality(participants[q.event]) <= q.limit

\* CountParticipants against the capacity read before.
HasRoom(q) == Cardinality(participants[q.event]) < q.limit

Count(r) ==
  /\ At(r, "count")
  /\ IF HasRoom(request[r]) THEN GoTo(r, "insert") ELSE Reply(r)
  /\ UNCHANGED <<eventVars, participants, reminders, historyVars>>

Insert(r) ==
  /\ At(r, "insert")
  /\ InsertParticipant(request[r].event, request[r].user)
  /\ IF Exists(request[r].event) THEN GoTo(r, "tell") ELSE Reply(r)
  /\ UNCHANGED <<eventVars, reminders, historyVars>>

\* GetEventTitle fails when the row is gone.  The job joined is, like those
\* of TellAll, a row that nothing here reads.
Tell(r) ==
  /\ At(r, "tell")
  /\ IF Exists(request[r].event) THEN GoTo(r, "start") ELSE Reply(r)
  /\ UNCHANGED <<eventVars, participants, reminders, historyVars>>

\* GetEventStart: the start is read again, not the one of GetEventByID.
Start(r) ==
  /\ At(r, "start")
  /\ IF Exists(request[r].event) /\ request[r].event \in distant
     THEN GoTo(r, "remind")
     ELSE Reply(r)
  /\ UNCHANGED <<eventVars, participants, reminders, historyVars>>

\* CreateNotificationJob.
InsertReminder(e, u) ==
  reminders' = [reminders EXCEPT ![e] = IF Exists(e) THEN @ \cup {u} ELSE @]

\* The last statement of CreateEvent and of JoinEvent.
Remind(r) ==
  /\ At(r, "remind")
  /\ InsertReminder(request[r].event, request[r].user)
  /\ Reply(r)
  /\ UNCHANGED <<eventVars, participants, historyVars>>

\* Jobs stay in the queue.
LeaveEvent(u, e) ==
  /\ u \in participants[e]
  /\ participants' = [participants EXCEPT ![e] = @ \ {u}]
  /\ UNCHANGED <<eventVars, reminders, request, historyVars>>

-----------------------------------------------------------------------------
(***************************************************************************)
(* Administration                                                          *)
(***************************************************************************)
HideEvent(e, isHidden) ==
  /\ Exists(e)
  /\ hidden' = IF isHidden THEN hidden \cup {e} ELSE hidden \ {e}
  /\ UNCHANGED <<eventRow, creator, capacity, private, young, distant,
                 participants, reminders, request, historyVars>>

\* Mutant: the patch is added to the capacity.
ReadForUpdateAdds(r, e, cap, start) ==
  /\ request[r] = NoRequest
  /\ Exists(e)
  /\ request' = [request EXCEPT ![r] =
       [stage |-> "write", event |-> e, start |-> start,
        limit |-> capacity[e] + cap]]
  /\ UNCHANGED <<eventVars, participants, reminders, historyVars>>

\* UpdateEventAdmin reads the row and patches its copy.  A patch can set a
\* capacity but not take it away, so cap = 0 is a patch without one.
ReadForUpdate(r, e, cap, start) ==
  /\ request[r] = NoRequest
  /\ Exists(e)
  /\ request' = [request EXCEPT ![r] =
       [stage |-> "write", event |-> e, start |-> start,
        limit |-> IF cap = 0 THEN capacity[e] ELSE cap]]
  /\ UNCHANGED <<eventVars, participants, reminders, historyVars>>

Larger(a, b) == IF a = 0 \/ b = 0 THEN 0 ELSE IF a < b THEN b ELSE a

\* The start that is written back may be older than the one in the row.
WriteStart(e, start) ==
  /\ moved' = IF start = "kept" THEN moved ELSE moved \cup {e}
  /\ \/ start = "ahead" /\ distant' = distant \cup {e}
     \/ start = "near" /\ distant' = distant \ {e}
     \/ start = "kept" /\ distant' = distant
     \/ start = "kept" /\ e \in moved
          /\ distant' \in {distant \cup {e}, distant \ {e}}

\* UpdateEventWithMedia writes every column of the copy, changed or not.
WriteRow(e, cap, start) ==
  /\ capacity' = [capacity EXCEPT ![e] = cap]
  /\ WriteStart(e, start)
  /\ peak' = [peak EXCEPT ![e] = Larger(@, cap)]
  /\ UNCHANGED <<eventRow, creator, hidden, private, young, keyed, faults>>

WriteEvent(r) ==
  /\ At(r, "write")
  /\ IF Exists(request[r].event)
     THEN WriteRow(request[r].event, request[r].limit, request[r].start)
     ELSE UNCHANGED <<eventVars, historyVars>>
  /\ Reply(r)
  /\ UNCHANGED <<participants, reminders>>

\* DeleteEventAdmin: the cascade erases participants and jobs.
DeleteEvent(e) ==
  /\ Exists(e)
  /\ eventRow' = [eventRow EXCEPT ![e] = "gone"]
  /\ participants' = [participants EXCEPT ![e] = {}]
  /\ reminders' = [reminders EXCEPT ![e] = {}]
  /\ young' = young \ {e}
  /\ UNCHANGED <<creator, capacity, hidden, private, distant, request,
                 historyVars>>

-----------------------------------------------------------------------------
(***************************************************************************)
(* Faults and time                                                         *)
(***************************************************************************)
Fault ==
  /\ faults < MaxFaults
  /\ faults' = faults + 1

\* A statement fails or times out and the handler returns, the client goes
\* away, or the API stops.
RequestEnds(r) ==
  /\ Fault
  /\ request[r] # NoRequest
  /\ Reply(r)
  /\ UNCHANGED <<eventVars, participants, reminders, peak, moved, keyed>>

\* Errors the handlers ignore: those of joining the creator, of telling all
\* users, and of the message to the one who joined.
ErrorIgnored(r) ==
  /\ Fault
  /\ \/ At(r, "joinCreator") /\ GoTo(r, "tellAll")
     \/ At(r, "tellAll") /\ AfterTelling(r)
     \/ At(r, "tell") /\ GoTo(r, "start")
  /\ UNCHANGED <<eventVars, participants, reminders, peak, moved, keyed>>

\* created_at leaves the window of CountUserEventsLastHour.
AnHourPasses(e) ==
  /\ e \in young
  /\ young' = young \ {e}
  /\ UNCHANGED <<eventRow, creator, capacity, hidden, private, distant,
                 participants, reminders, request, historyVars>>

\* From now on the event is less than an hour ahead.
StartNears(e) ==
  /\ Exists(e)
  /\ e \in distant
  /\ distant' = distant \ {e}
  /\ UNCHANGED <<eventRow, creator, capacity, hidden, private, young,
                 participants, reminders, request, historyVars>>

-----------------------------------------------------------------------------
Creating(r) ==
  \/ \E u \in Users : CountHour(r, u)
  \/ \E e \in Events, cap \in Capacities, isPrivate \in Privacy,
        start \in Starts \ {"kept"} :
       InsertEvent(r, e, cap, isPrivate, start = "ahead")
  \/ JoinCreator(r)
  \/ TellAll(r)

Joining(r) ==
  \/ \E u \in Users, e \in Events : ReadEvent(r, u, e)
  \/ \E hasKey \in BOOLEAN : Access(r, hasKey)
  \/ Count(r)
  \/ Insert(r)
  \/ Tell(r)
  \/ Start(r)
  \/ Remind(r)

Updating(r) ==
  \/ \E e \in Events, cap \in Capacities, start \in Starts :
       ReadForUpdate(r, e, cap, start)
  \/ WriteEvent(r)

Next ==
  \/ \E r \in Requests :
       Creating(r) \/ Joining(r) \/ Updating(r) \/ RequestEnds(r) \/ ErrorIgnored(r)
  \/ \E e \in Events :
       \/ \E u \in Users : LeaveEvent(u, e)
       \/ \E isHidden \in BOOLEAN : HideEvent(e, isHidden)
       \/ DeleteEvent(e)
       \/ AnHourPasses(e)
       \/ StartNears(e)

Spec == Init /\ [][Next]_vars

-----------------------------------------------------------------------------
(***************************************************************************)
(* Properties                                                              *)
(***************************************************************************)
\* The requests that are about to insert a participant of e.
Inserting(e) ==
  {r \in Requests : /\ request[r] # NoRequest
                    /\ request[r].stage \in {"joinCreator", "insert"}
                    /\ request[r].event = e}

\* JoinEvent counts and then inserts, and the creator is not counted at all:
\* an event may be overbooked.  But by how much is bounded: over the largest
\* capacity it ever had there is at most one participant for every other
\* request, however joins, leaves, updates and failures interleave.
OverrunBounded ==
  \A e \in Events : peak[e] # 0 =>
    Cardinality(participants[e]) + Cardinality(Inserting(e))
      < peak[e] + Cardinality(Requests)

CreatingFor(u) ==
  {r \in Requests : /\ request[r] # NoRequest
                    /\ request[r].stage = "create"
                    /\ request[r].user = u}

\* CreateEvent counts the events of the last hour and then inserts, so a user
\* may pass maxEventsPerHour, but only by the requests that ran side by side.
HourlyLimitBounded ==
  \A u \in Users : HourLimit > 0 =>
    Cardinality(CreatedLastHour(u)) + Cardinality(CreatingFor(u))
      < HourLimit + Cardinality(Requests)

\* JoinEvent and CreateEvent enqueue the reminder by hand, several statements
\* after the row.  Without faults every participant of an event more than an
\* hour ahead, whose start nobody changed, has the job or a request that will
\* enqueue it.
RemindersReach ==
  faults = 0 =>
    \A e \in distant \ moved : \A u \in participants[e] :
      \/ u \in reminders[e]
      \/ \E r \in Requests :
           /\ request[r] # NoRequest
           /\ request[r].stage \in {"tellAll", "tell", "start", "remind"}
           /\ request[r].event = e
           /\ request[r].user = u

\* A private event is joined by its creator and by who presented its access
\* key, although allowPrivateEvent also lets in who is already a participant.
PrivateGuarded ==
  \A e \in private : \A u \in participants[e] :
    u = creator[e] \/ <<e, u>> \in keyed
=============================================================================
