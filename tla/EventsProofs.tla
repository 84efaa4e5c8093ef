---------------------------- MODULE EventsProofs ----------------------------
(***************************************************************************)
(* Theorems about Events: how far concurrent requests can pass the         *)
(* capacity of an event and the hourly limit of its creator, who enters a  *)
(* private event, and who is reminded.                                     *)
(***************************************************************************)
EXTENDS Events, FiniteSetTheorems, TLAPS

-----------------------------------------------------------------------------
(***************************************************************************)
(* Types                                                                   *)
(***************************************************************************)
\* The stage of a request tells which fields it has.
LEMMA RequestType ==
  ASSUME TypeOK, NEW r \in Requests, request[r] # NoRequest
  PROVE  /\ request[r].stage = "create" => request[r] \in CreateRequests
         /\ request[r].stage \in JoinStages => request[r] \in JoinRequests
         /\ request[r].stage = "write" => request[r] \in UpdateRequests
<1>1. request[r] \in RequestStates
  BY DEF TypeOK
<1>. QED
  BY <1>1 DEF RequestStates, CreateRequests, JoinRequests, UpdateRequests, JoinStages

\* A joining request that goes to another stage of joining keeps the rest.
LEMMA GoToType ==
  ASSUME TypeOK, NEW r \in Requests, request[r] # NoRequest,
         request[r].stage \in JoinStages, NEW s \in JoinStages, GoTo(r, s)
  PROVE  /\ request' \in [Requests -> RequestStates \cup {NoRequest}]
         /\ request'[r] \in JoinRequests
         /\ request'[r].stage = s
         /\ request'[r].user = request[r].user
         /\ request'[r].event = request[r].event
         /\ request'[r].limit = request[r].limit
         /\ \A q \in Requests \ {r} : request'[q] = request[q]
<1>1. request[r] \in JoinRequests
  BY RequestType
<1>2. [request[r] EXCEPT !.stage = s] \in JoinRequests
  BY <1>1 DEF JoinRequests
<1>3. request' = [request EXCEPT ![r] = [request[r] EXCEPT !.stage = s]]
  BY DEF GoTo
<1>4. request \in [Requests -> RequestStates \cup {NoRequest}]
  BY DEF TypeOK
<1>5. request'[r] = [request[r] EXCEPT !.stage = s]
  BY <1>3, <1>4
<1>6. request' \in [Requests -> RequestStates \cup {NoRequest}]
  BY <1>2, <1>3, <1>4 DEF RequestStates
<1>7. \A q \in Requests \ {r} : request'[q] = request[q]
  BY <1>3, <1>4
<1>. QED
  BY <1>1, <1>2, <1>5, <1>6, <1>7 DEF JoinRequests

LEMMA ReplyType ==
  ASSUME TypeOK, NEW r \in Requests, Reply(r)
  PROVE  /\ request' \in [Requests -> RequestStates \cup {NoRequest}]
         /\ request'[r] = NoRequest
         /\ \A q \in Requests \ {r} : request'[q] = request[q]
  BY DEF TypeOK, Reply

\* A request that comes in takes a free slot.
LEMMA EnterType ==
  ASSUME TypeOK, NEW r \in Requests, NEW q \in RequestStates,
         request' = [request EXCEPT ![r] = q]
  PROVE  /\ request' \in [Requests -> RequestStates \cup {NoRequest}]
         /\ request'[r] = q
         /\ \A p \in Requests \ {r} : request'[p] = request[p]
  BY DEF TypeOK

\* Type correctness is inductive.
LEMMA TypeStep ==
  ASSUME TypeOK, [Next]_vars
  PROVE  TypeOK'
<1>. USE DEF vars, eventVars, historyVars
<1>1. ASSUME NEW r \in Requests, Creating(r)
      PROVE  TypeOK'
  <2>1. ASSUME NEW u \in Users, CountHour(r, u)
        PROVE  TypeOK'
    <3>1. [stage |-> "create", user |-> u] \in RequestStates
      BY DEF RequestStates, CreateRequests
    <3>. QED
      BY <2>1, <3>1 DEF CountHour, TypeOK
  <2>2. ASSUME NEW e \in Events, NEW cap \in Capacities, NEW isPrivate \in Privacy,
               NEW ahead \in BOOLEAN, InsertEvent(r, e, cap, isPrivate, ahead)
        PROVE  TypeOK'
    <3>1. request[r].user \in Users
      BY <2>2, RequestType DEF InsertEvent, At, CreateRequests
    <3>2. [stage |-> "joinCreator", user |-> request[r].user, event |-> e,
           limit |-> cap, ahead |-> ahead] \in RequestStates
      BY <3>1 DEF RequestStates, JoinRequests, JoinStages
    <3>3. request' \in [Requests -> RequestStates \cup {NoRequest}]
      BY <2>2, <3>2, EnterType DEF InsertEvent
    <3>. QED
      BY <2>2, <3>1, <3>3 DEF InsertEvent, InsertRow, TypeOK
  <2>3. CASE JoinCreator(r)
    <3>1. request[r] \in JoinRequests
      BY <2>3, RequestType DEF JoinCreator, At, JoinStages
    <3>2. request' \in [Requests -> RequestStates \cup {NoRequest}]
      BY <2>3, GoToType DEF JoinCreator, At, JoinStages
    <3>. QED
      BY <2>3, <3>1, <3>2 DEF JoinCreator, InsertParticipant, JoinRequests, TypeOK
  <2>4. CASE TellAll(r)
    <3>1. request' \in [Requests -> RequestStates \cup {NoRequest}]
      BY <2>4, GoToType, ReplyType DEF TellAll, AfterTelling, At, JoinStages
    <3>. QED
      BY <2>4, <3>1 DEF TellAll, TypeOK
  <2>. QED
    BY <1>1, <2>1, <2>2, <2>3, <2>4 DEF Creating
<1>2. ASSUME NEW r \in Requests, Joining(r)
      PROVE  TypeOK'
  <2>1. ASSUME NEW u \in Users, NEW e \in Events, ReadEvent(r, u, e)
        PROVE  TypeOK'
    <3>1. [stage |-> "access", user |-> u, event |-> e, limit |-> capacity[e],
           ahead |-> FALSE] \in RequestStates
      BY DEF RequestStates, JoinRequests, JoinStages, TypeOK
    <3>. QED
      BY <2>1, <3>1, EnterType DEF ReadEvent, TypeOK
  <2>2. ASSUME NEW hasKey \in BOOLEAN, Access(r, hasKey)
        PROVE  TypeOK'
    <3>1. request[r] \in JoinRequests
      BY <2>2, RequestType DEF Access, At, JoinStages
    <3>2. request' \in [Requests -> RequestStates \cup {NoRequest}]
      BY <2>2, GoToType, ReplyType DEF Access, At, JoinStages
    <3>3. <<request[r].event, request[r].user>> \in Events \X Users
      BY <3>1 DEF JoinRequests
    <3>4. keyed' \subseteq Events \X Users
      BY <2>2, <3>3 DEF Access, TypeOK
    <3>. QED
      BY <2>2, <3>2, <3>4 DEF Access, TypeOK
  <2>3. CASE Count(r)
    <3>1. request' \in [Requests -> RequestStates \cup {NoRequest}]
      BY <2>3, GoToType, ReplyType DEF Count, At, JoinStages
    <3>. QED
      BY <2>3, <3>1 DEF Count, TypeOK
  <2>4. CASE Insert(r)
    <3>1. request[r] \in JoinRequests
      BY <2>4, RequestType DEF Insert, At, JoinStages
    <3>2. request' \in [Requests -> RequestStates \cup {NoRequest}]
      BY <2>4, GoToType, ReplyType DEF Insert, At, JoinStages
    <3>. QED
      BY <2>4, <3>1, <3>2 DEF Insert, InsertParticipant, JoinRequests, TypeOK
  <2>5. CASE Tell(r) \/ Start(r)
    <3>1. request' \in [Requests -> RequestStates \cup {NoRequest}]
      BY <2>5, GoToType, ReplyType DEF Tell, Start, At, JoinStages
    <3>. QED
      BY <2>5, <3>1 DEF Tell, Start, TypeOK
  <2>6. CASE Remind(r)
    <3>1. request[r] \in JoinRequests
      BY <2>6, RequestType DEF Remind, At, JoinStages
    <3>2. request' \in [Requests -> RequestStates \cup {NoRequest}]
      BY <2>6, ReplyType DEF Remind
    <3>. QED
      BY <2>6, <3>1, <3>2 DEF Remind, InsertReminder, JoinRequests, TypeOK
  <2>. QED
    BY <1>2, <2>1, <2>2, <2>3, <2>4, <2>5, <2>6 DEF Joining
<1>3. ASSUME NEW r \in Requests, Updating(r)
      PROVE  TypeOK'
  <2>1. ASSUME NEW e \in Events, NEW cap \in Capacities, NEW start \in Starts,
               ReadForUpdate(r, e, cap, start)
        PROVE  TypeOK'
    <3>1. [stage |-> "write", event |-> e, start |-> start,
           limit |-> IF cap = 0 THEN capacity[e] ELSE cap] \in RequestStates
      BY DEF RequestStates, UpdateRequests, TypeOK
    <3>. QED
      BY <2>1, <3>1, EnterType DEF ReadForUpdate, TypeOK
  <2>2. CASE WriteEvent(r)
    <3>1. request[r] \in UpdateRequests
      BY <2>2, RequestType DEF WriteEvent, At
    <3>2. request' \in [Requests -> RequestStates \cup {NoRequest}]
      BY <2>2, ReplyType DEF WriteEvent
    <3>3. /\ request[r].event \in Events
          /\ request[r].limit \in Capacities
      BY <3>1 DEF UpdateRequests
    <3>4. CASE ~Exists(request[r].event)
      BY <2>2, <3>2, <3>4 DEF WriteEvent, TypeOK
    <3>5. CASE Exists(request[r].event)
      <4>1. WriteRow(request[r].event, request[r].limit, request[r].start)
        BY <2>2, <3>5 DEF WriteEvent
      <4>2. moved' \subseteq Events /\ distant' \subseteq Events
        BY <3>3, <4>1 DEF WriteRow, WriteStart, TypeOK
      <4>3. peak' \in [Events -> Capacities]
        BY <3>3, <4>1, EventsAssumption DEF WriteRow, Larger, TypeOK
      <4>. QED
        BY <2>2, <3>2, <3>3, <4>1, <4>2, <4>3 DEF WriteEvent, WriteRow, TypeOK
    <3>. QED
      BY <3>4, <3>5
  <2>. QED
    BY <1>3, <2>1, <2>2 DEF Updating
<1>4. ASSUME NEW r \in Requests, RequestEnds(r) \/ ErrorIgnored(r)
      PROVE  TypeOK'
  <2>1. faults' \in 0..MaxFaults
    BY <1>4, EventsAssumption DEF RequestEnds, ErrorIgnored, Fault, TypeOK
  <2>2. request' \in [Requests -> RequestStates \cup {NoRequest}]
    BY <1>4, GoToType, ReplyType
       DEF RequestEnds, ErrorIgnored, AfterTelling, At, JoinStages
  <2>. QED
    BY <1>4, <2>1, <2>2 DEF RequestEnds, ErrorIgnored, TypeOK
<1>5. ASSUME NEW e \in Events, NEW u \in Users, LeaveEvent(u, e)
      PROVE  TypeOK'
  BY <1>5 DEF LeaveEvent, TypeOK
<1>6. ASSUME NEW e \in Events, NEW isHidden \in BOOLEAN, HideEvent(e, isHidden)
      PROVE  TypeOK'
  BY <1>6 DEF HideEvent, TypeOK
<1>7. ASSUME NEW e \in Events, DeleteEvent(e) \/ AnHourPasses(e) \/ StartNears(e)
      PROVE  TypeOK'
  BY <1>7 DEF DeleteEvent, AnHourPasses, StartNears, TypeOK
<1>8. CASE UNCHANGED vars
  BY <1>8 DEF TypeOK
<1>. QED
  BY <1>1, <1>2, <1>3, <1>4, <1>5, <1>6, <1>7, <1>8 DEF Next

\* Every variable keeps its type, for every number of users, events and
\* requests.
THEOREM EventsTypeCorrect == Spec => []TypeOK
<1>1. Init => TypeOK
  BY EventsAssumption DEF Init, TypeOK
<1>2. TypeOK /\ [Next]_vars => TypeOK'
  BY TypeStep
<1>. QED
  BY <1>1, <1>2, PTL DEF Spec

-----------------------------------------------------------------------------
(***************************************************************************)
(* The capacity of an event                                                *)
(***************************************************************************)
\* An event has participants only while its row exists.
Cascaded == \A e \in Events : ~Exists(e) => participants[e] = {}

\* c is a capacity the event may have, or once had.
Within(c, e) == peak[e] # 0 => c \in 1..peak[e]

\* A request that still has to count works with a capacity the event had; one
\* that will write a capacity takes none away.
LimitsHeld ==
  /\ \A e \in Events : Within(capacity[e], e)
  /\ \A r \in Requests : request[r] # NoRequest =>
       /\ request[r].stage \in {"access", "count"}
            => Within(request[r].limit, request[r].event)
       /\ request[r].stage = "write"
            => (request[r].limit = 0 => peak[request[r].event] = 0)

\* Requests know only of rows that were inserted.
Known ==
  \A r \in Requests :
    request[r] # NoRequest /\ request[r].stage # "create"
      => eventRow[request[r].event] # "none"

RoomInv == TypeOK /\ Known /\ Cascaded /\ LimitsHeld /\ OverrunBounded

\* As long as no row goes back to "none", only the request that moved has to
\* be looked at.
LEMMA KnownFrame ==
  ASSUME TypeOK, Known, NEW r \in Requests,
         \A e \in Events : eventRow[e] # "none" => eventRow'[e] # "none",
         \A q \in Requests \ {r} : request'[q] = request[q],
         request'[r] # NoRequest /\ request'[r].stage # "create"
           => eventRow'[request'[r].event] # "none"
  PROVE  Known'
<1>1. \A q \in Requests : request[q] # NoRequest /\ request[q].stage # "create"
        => request[q].event \in Events
  BY RequestType DEF TypeOK, RequestStates, CreateRequests, JoinRequests, UpdateRequests
<1>. QED
  BY <1>1 DEF Known

LEMMA KnownStep ==
  ASSUME TypeOK, Known, [Next]_vars
  PROVE  Known'
<1>. USE DEF vars, eventVars, historyVars
<1>1. ASSUME NEW r \in Requests, Creating(r)
      PROVE  Known'
  <2>1. ASSUME NEW u \in Users, CountHour(r, u)
        PROVE  Known'
    <3>1. [stage |-> "create", user |-> u] \in RequestStates
      BY DEF RequestStates, CreateRequests
    <3>. QED
      BY <2>1, <3>1, EnterType, KnownFrame DEF CountHour
  <2>2. ASSUME NEW e \in Events, NEW cap \in Capacities, NEW isPrivate \in Privacy,
               NEW ahead \in BOOLEAN, InsertEvent(r, e, cap, isPrivate, ahead)
        PROVE  Known'
    <3>1. /\ request'[r].event = e
          /\ \A q \in Requests \ {r} : request'[q] = request[q]
      BY <2>2 DEF InsertEvent, TypeOK
    <3>2. eventRow' = [eventRow EXCEPT ![e] = "live"]
      BY <2>2 DEF InsertEvent, InsertRow
    <3>. QED
      BY <3>1, <3>2, KnownFrame DEF TypeOK
  <2>3. CASE JoinCreator(r) \/ TellAll(r)
    <3>1. /\ request[r] # NoRequest
          /\ request[r].stage \in JoinStages
          /\ request[r].stage # "create"
          /\ UNCHANGED eventRow
      BY <2>3 DEF JoinCreator, TellAll, At, JoinStages
    <3>2. \/ Reply(r)
          \/ \E s \in JoinStages : GoTo(r, s)
      BY <2>3 DEF JoinCreator, TellAll, AfterTelling, JoinStages
    <3>. QED
      BY <3>1, <3>2, GoToType, ReplyType, KnownFrame DEF Known
  <2>. QED
    BY <1>1, <2>1, <2>2, <2>3 DEF Creating
<1>2. ASSUME NEW r \in Requests, Joining(r)
      PROVE  Known'
  <2>1. ASSUME NEW u \in Users, NEW e \in Events, ReadEvent(r, u, e)
        PROVE  Known'
    <3>1. /\ request'[r].event = e
          /\ \A q \in Requests \ {r} : request'[q] = request[q]
      BY <2>1 DEF ReadEvent, TypeOK
    <3>. QED
      BY <2>1, <3>1, KnownFrame DEF ReadEvent, Exists
  <2>2. CASE ~\E u \in Users, e \in Events : ReadEvent(r, u, e)
    <3>1. /\ request[r] # NoRequest
          /\ request[r].stage \in JoinStages
          /\ request[r].stage # "create"
          /\ UNCHANGED eventRow
      BY <1>2, <2>2 DEF Joining, Access, Count, Insert, Tell, Start, Remind, At, JoinStages
    <3>2. \/ Reply(r)
          \/ \E s \in JoinStages : GoTo(r, s)
      BY <1>2, <2>2 DEF Joining, Access, Count, Insert, Tell, Start, Remind, JoinStages
    <3>. QED
      BY <3>1, <3>2, GoToType, ReplyType, KnownFrame DEF Known
  <2>. QED
    BY <2>1, <2>2
<1>3. ASSUME NEW r \in Requests, Updating(r)
      PROVE  Known'
  <2>1. ASSUME NEW e \in Events, NEW cap \in Capacities, NEW start \in Starts,
               ReadForUpdate(r, e, cap, start)
        PROVE  Known'
    <3>1. /\ request'[r].event = e
          /\ \A q \in Requests \ {r} : request'[q] = request[q]
      BY <2>1 DEF ReadForUpdate, TypeOK
    <3>. QED
      BY <2>1, <3>1, KnownFrame DEF ReadForUpdate, Exists
  <2>2. CASE WriteEvent(r)
    <3>1. UNCHANGED eventRow
      BY <2>2 DEF WriteEvent, WriteRow
    <3>. QED
      BY <2>2, <3>1, ReplyType, KnownFrame DEF WriteEvent
  <2>. QED
    BY <1>3, <2>1, <2>2 DEF Updating
<1>4. ASSUME NEW r \in Requests, RequestEnds(r) \/ ErrorIgnored(r)
      PROVE  Known'
  <2>1. CASE Reply(r)
    BY <1>4, <2>1, ReplyType, KnownFrame DEF RequestEnds, ErrorIgnored
  <2>2. CASE ~Reply(r)
    <3>1. /\ request[r] # NoRequest
          /\ request[r].stage \in JoinStages
          /\ request[r].stage # "create"
          /\ UNCHANGED eventRow
      BY <1>4, <2>2 DEF RequestEnds, ErrorIgnored, At, JoinStages
    <3>2. \E s \in JoinStages : GoTo(r, s)
      BY <1>4, <2>2 DEF RequestEnds, ErrorIgnored, AfterTelling, JoinStages
    <3>. QED
      BY <3>1, <3>2, GoToType, KnownFrame DEF Known
  <2>. QED
    BY <2>1, <2>2
<1>5. ASSUME NEW e \in Events, DeleteEvent(e)
      PROVE  Known'
  <2>1. eventRow' = [eventRow EXCEPT ![e] = "gone"] /\ UNCHANGED request
    BY <1>5 DEF DeleteEvent
  <2>. QED
    BY <2>1 DEF Known, TypeOK
<1>6. ASSUME NEW e \in Events,
             \/ \E u \in Users : LeaveEvent(u, e)
             \/ \E isHidden \in BOOLEAN : HideEvent(e, isHidden)
             \/ AnHourPasses(e)
             \/ StartNears(e)
      PROVE  Known'
  BY <1>6 DEF LeaveEvent, HideEvent, AnHourPasses, StartNears, Known
<1>7. CASE UNCHANGED vars
  BY <1>7 DEF Known
<1>. QED
  BY <1>1, <1>2, <1>3, <1>4, <1>5, <1>6, <1>7 DEF Next

LEMMA CascadedStep ==
  ASSUME TypeOK, Cascaded, [Next]_vars
  PROVE  Cascaded'
<1>. USE DEF vars, eventVars, historyVars, Cascaded, Exists
<1>1. ASSUME NEW r \in Requests, Creating(r)
      PROVE  Cascaded'
  BY <1>1 DEF Creating, CountHour, InsertEvent, InsertRow, JoinCreator,
              InsertParticipant, TellAll, TypeOK
<1>2. ASSUME NEW r \in Requests, Joining(r)
      PROVE  Cascaded'
  BY <1>2 DEF Joining, ReadEvent, Access, Count, Insert, InsertParticipant,
              Tell, Start, Remind, TypeOK
<1>3. ASSUME NEW r \in Requests, Updating(r)
      PROVE  Cascaded'
  BY <1>3 DEF Updating, ReadForUpdate, WriteEvent, WriteRow, TypeOK
<1>4. ASSUME NEW r \in Requests, RequestEnds(r) \/ ErrorIgnored(r)
      PROVE  Cascaded'
  BY <1>4 DEF RequestEnds, ErrorIgnored
<1>5. ASSUME NEW e \in Events, NEW u \in Users, LeaveEvent(u, e)
      PROVE  Cascaded'
  BY <1>5 DEF LeaveEvent, TypeOK
<1>6. ASSUME NEW e \in Events, NEW isHidden \in BOOLEAN, HideEvent(e, isHidden)
      PROVE  Cascaded'
  BY <1>6 DEF HideEvent
<1>7. ASSUME NEW e \in Events, DeleteEvent(e) \/ AnHourPasses(e) \/ StartNears(e)
      PROVE  Cascaded'
  BY <1>7 DEF DeleteEvent, AnHourPasses, StartNears, TypeOK
<1>8. CASE UNCHANGED vars
  BY <1>8
<1>. QED
  BY <1>1, <1>2, <1>3, <1>4, <1>5, <1>6, <1>7, <1>8 DEF Next

\* No step but the insert of the row and the write of an update touches what
\* LimitsHeld compares requests with; then each request has to be looked at
\* only if the step moved it.
LEMMA LimitsFrame ==
  ASSUME TypeOK, LimitsHeld, UNCHANGED <<capacity, peak>>, NEW r \in Requests,
         \A q \in Requests \ {r} : request'[q] = request[q],
         request'[r] # NoRequest =>
           /\ request'[r].stage \in {"access", "count"}
                => Within(request'[r].limit, request'[r].event)
           /\ request'[r].stage = "write"
                => (request'[r].limit = 0 => peak[request'[r].event] = 0)
  PROVE  LimitsHeld'
  BY DEF LimitsHeld, Within

LEMMA LimitsStep ==
  ASSUME TypeOK, Known, LimitsHeld, [Next]_vars
  PROVE  LimitsHeld'
<1>. USE DEF vars, eventVars, historyVars
<1>1. ASSUME NEW r \in Requests, Creating(r)
      PROVE  LimitsHeld'
  <2>1. ASSUME NEW u \in Users, CountHour(r, u)
        PROVE  LimitsHeld'
    <3>1. [stage |-> "create", user |-> u] \in RequestStates
      BY DEF RequestStates, CreateRequests
    <3>. QED
      BY <2>1, <3>1, EnterType, LimitsFrame DEF CountHour
  <2>2. ASSUME NEW e \in Events, NEW cap \in Capacities, NEW isPrivate \in Privacy,
               NEW ahead \in BOOLEAN, InsertEvent(r, e, cap, isPrivate, ahead)
        PROVE  LimitsHeld'
    <3>1. /\ request'[r].stage = "joinCreator"
          /\ \A q \in Requests \ {r} : request'[q] = request[q]
      BY <2>2 DEF InsertEvent, TypeOK
    <3>2. /\ capacity' = [capacity EXCEPT ![e] = cap]
          /\ peak' = [peak EXCEPT ![e] = cap]
          /\ eventRow[e] = "none"
      BY <2>2 DEF InsertEvent, InsertRow
    <3>3. \A f \in Events : Within(capacity[f], f)'
      BY <3>2, EventsAssumption DEF LimitsHeld, Within, TypeOK
    <3>4. \A q \in Requests : request[q] # NoRequest /\ request[q].stage # "create"
            => peak'[request[q].event] = peak[request[q].event]
      BY <3>2 DEF Known, TypeOK
    <3>. QED
      BY <3>1, <3>3, <3>4 DEF LimitsHeld, Within
  <2>3. CASE JoinCreator(r)
    BY <2>3, GoToType, LimitsFrame DEF JoinCreator, At, JoinStages
  <2>4. CASE TellAll(r)
    BY <2>4, GoToType, ReplyType, LimitsFrame DEF TellAll, AfterTelling, At, JoinStages
  <2>. QED
    BY <1>1, <2>1, <2>2, <2>3, <2>4 DEF Creating
<1>2. ASSUME NEW r \in Requests, Joining(r)
      PROVE  LimitsHeld'
  <2>1. ASSUME NEW u \in Users, NEW e \in Events, ReadEvent(r, u, e)
        PROVE  LimitsHeld'
    <3>1. /\ request'[r].stage = "access"
          /\ request'[r].event = e
          /\ request'[r].limit = capacity[e]
          /\ \A q \in Requests \ {r} : request'[q] = request[q]
      BY <2>1 DEF ReadEvent, TypeOK
    <3>2. Within(capacity[e], e)
      BY DEF LimitsHeld
    <3>. QED
      BY <2>1, <3>1, <3>2, LimitsFrame DEF ReadEvent
  <2>2. ASSUME NEW hasKey \in BOOLEAN, Access(r, hasKey)
        PROVE  LimitsHeld'
    <3>1. /\ request[r] # NoRequest
          /\ request[r].stage = "access"
      BY <2>2 DEF Access, At
    <3>2. Within(request[r].limit, request[r].event)
      BY <3>1 DEF LimitsHeld
    <3>3. \A q \in Requests \ {r} : request'[q] = request[q]
      BY <2>2, <3>1, GoToType, ReplyType DEF Access, JoinStages
    <3>4. \/ request'[r] = NoRequest
          \/ /\ request'[r].stage \in {"insert", "count"}
             /\ request'[r].event = request[r].event
             /\ request'[r].limit = request[r].limit
      BY <2>2, <3>1, GoToType, ReplyType DEF Access, JoinStages
    <3>. QED
      BY <2>2, <3>2, <3>3, <3>4, LimitsFrame DEF Access
  <2>3. CASE Count(r)
    BY <2>3, GoToType, ReplyType, LimitsFrame DEF Count, At, JoinStages
  <2>4. CASE Insert(r)
    BY <2>4, GoToType, ReplyType, LimitsFrame DEF Insert, At, JoinStages
  <2>5. CASE Tell(r) \/ Start(r)
    BY <2>5, GoToType, ReplyType, LimitsFrame DEF Tell, Start, At, JoinStages
  <2>6. CASE Remind(r)
    BY <2>6, ReplyType, LimitsFrame DEF Remind
  <2>. QED
    BY <1>2, <2>1, <2>2, <2>3, <2>4, <2>5, <2>6 DEF Joining
<1>3. ASSUME NEW r \in Requests, Updating(r)
      PROVE  LimitsHeld'
  <2>1. ASSUME NEW e \in Events, NEW cap \in Capacities, NEW start \in Starts,
               ReadForUpdate(r, e, cap, start)
        PROVE  LimitsHeld'
    <3>1. /\ request'[r].stage = "write"
          /\ request'[r].event = e
          /\ request'[r].limit = IF cap = 0 THEN capacity[e] ELSE cap
          /\ \A q \in Requests \ {r} : request'[q] = request[q]
      BY <2>1 DEF ReadForUpdate, TypeOK
    <3>2. capacity[e] = 0 => peak[e] = 0
      BY EventsAssumption DEF LimitsHeld, Within, TypeOK
    <3>. QED
      BY <2>1, <3>1, <3>2, LimitsFrame DEF ReadForUpdate
  <2>2. CASE WriteEvent(r)
    <3>1. CASE ~Exists(request[r].event)
      BY <2>2, <3>1, ReplyType, LimitsFrame DEF WriteEvent
    <3>2. CASE Exists(request[r].event)
      <4> DEFINE e == request[r].event
                 c == request[r].limit
      <4>1. /\ request[r] \in UpdateRequests
            /\ request[r] # NoRequest
            /\ request[r].stage = "write"
        BY <2>2, RequestType DEF WriteEvent, At
      <4>2. e \in Events /\ c \in Nat
        BY <4>1, EventsAssumption DEF UpdateRequests
      <4>3. c = 0 => peak[e] = 0
        BY <4>1 DEF LimitsHeld
      <4>4. /\ capacity' = [capacity EXCEPT ![e] = c]
            /\ peak' = [peak EXCEPT ![e] = Larger(peak[e], c)]
        BY <2>2, <3>2 DEF WriteEvent, WriteRow
      <4>5. peak \in [Events -> Nat] /\ capacity \in [Events -> Capacities]
        BY EventsAssumption DEF TypeOK
      <4>6. \A f \in Events :
              /\ peak'[f] \in Nat
              /\ peak'[f] # 0 => peak[f] # 0 /\ peak[f] <= peak'[f]
              /\ peak[f] = 0 => peak'[f] = 0
        BY <4>2, <4>4, <4>5 DEF Larger
      <4>7. ASSUME NEW f \in Events, NEW n \in 1..peak[f], peak'[f] # 0
            PROVE  n \in 1..peak'[f]
        <5>1. peak[f] \in Nat
          BY <4>5
        <5>2. peak'[f] \in Nat /\ peak[f] <= peak'[f]
          BY <4>6, <4>7
        <5>. QED
          BY <5>1, <5>2
      <4>8. \A f \in Events : Within(capacity[f], f)'
        BY <4>2, <4>3, <4>4, <4>5, <4>6 DEF Larger, Within, LimitsHeld
      <4>9. \A q \in Requests : request[q] # NoRequest /\ request[q].stage # "create"
               => request[q].event \in Events
        BY RequestType DEF TypeOK, RequestStates, CreateRequests, JoinRequests, UpdateRequests
      <4>10. /\ request'[r] = NoRequest
             /\ \A q \in Requests \ {r} : request'[q] = request[q]
        BY <2>2, ReplyType DEF WriteEvent
      <4>. QED
        BY <4>6, <4>7, <4>8, <4>9, <4>10 DEF LimitsHeld, Within
    <3>. QED
      BY <3>1, <3>2
  <2>. QED
    BY <1>3, <2>1, <2>2 DEF Updating
<1>4. ASSUME NEW r \in Requests, RequestEnds(r) \/ ErrorIgnored(r)
      PROVE  LimitsHeld'
  BY <1>4, GoToType, ReplyType, LimitsFrame
     DEF RequestEnds, ErrorIgnored, AfterTelling, At, JoinStages
<1>5. ASSUME NEW e \in Events,
             \/ \E u \in Users : LeaveEvent(u, e)
             \/ \E isHidden \in BOOLEAN : HideEvent(e, isHidden)
             \/ DeleteEvent(e)
             \/ AnHourPasses(e)
             \/ StartNears(e)
      PROVE  LimitsHeld'
  BY <1>5 DEF LeaveEvent, HideEvent, DeleteEvent, AnHourPasses, StartNears,
              LimitsHeld, Within
<1>6. CASE UNCHANGED vars
  BY <1>6 DEF LimitsHeld, Within
<1>. QED
  BY <1>1, <1>2, <1>3, <1>4, <1>5, <1>6 DEF Next

LEMMA Counts ==
  ASSUME TypeOK, NEW e \in Events
  PROVE  /\ IsFiniteSet(participants[e])
         /\ IsFiniteSet(Inserting(e))
         /\ Cardinality(participants[e]) \in Nat
         /\ Cardinality(Inserting(e)) \in Nat
         /\ Cardinality(Requests) \in Nat
         /\ Cardinality(Inserting(e)) <= Cardinality(Requests)
         /\ peak[e] \in Nat
<1>1. participants[e] \subseteq Users /\ peak[e] \in Nat
  BY EventsAssumption DEF TypeOK
<1>2. Inserting(e) \subseteq Requests
  BY DEF Inserting
<1>3. IsFiniteSet(participants[e])
  BY <1>1, FS_Subset, EventsAssumption
<1>4. IsFiniteSet(Inserting(e)) /\ Cardinality(Inserting(e)) <= Cardinality(Requests)
  BY <1>2, FS_Subset, EventsAssumption
<1>. QED
  BY <1>1, <1>3, <1>4, FS_CardinalityType, EventsAssumption

LEMMA CountsPrime ==
  ASSUME TypeOK', NEW e \in Events
  PROVE  /\ IsFiniteSet(participants'[e])
         /\ IsFiniteSet(Inserting(e)')
         /\ Cardinality(participants'[e]) \in Nat
         /\ Cardinality(Inserting(e)') \in Nat
         /\ Cardinality(Requests) \in Nat
         /\ Cardinality(Inserting(e)') <= Cardinality(Requests)
         /\ peak'[e] \in Nat
<1>1. participants'[e] \subseteq Users /\ peak'[e] \in Nat
  BY EventsAssumption DEF TypeOK
<1>2. Inserting(e)' \subseteq Requests
  BY DEF Inserting
<1>3. IsFiniteSet(participants'[e])
  BY <1>1, FS_Subset, EventsAssumption
<1>4. IsFiniteSet(Inserting(e)') /\ Cardinality(Inserting(e)') <= Cardinality(Requests)
  BY <1>2, FS_Subset, EventsAssumption
<1>. QED
  BY <1>1, <1>3, <1>4, FS_CardinalityType, EventsAssumption

\* OverrunBounded, for one event.
RoomAt(e) ==
  peak[e] # 0 =>
    Cardinality(participants[e]) + Cardinality(Inserting(e))
      < peak[e] + Cardinality(Requests)

\* Nobody joins, no request passes the count, the capacity is not cut.
LEMMA RoomShrinks ==
  ASSUME TypeOK, TypeOK', NEW e \in Events, RoomAt(e),
         peak'[e] # 0 => peak[e] # 0 /\ peak[e] <= peak'[e],
         participants'[e] \subseteq participants[e],
         Inserting(e)' \subseteq Inserting(e)
  PROVE  RoomAt(e)'
<1>1. Cardinality(participants'[e]) <= Cardinality(participants[e])
  BY Counts, FS_Subset
<1>2. Cardinality(Inserting(e)') <= Cardinality(Inserting(e))
  BY Counts, FS_Subset
<1>. QED
  BY <1>1, <1>2, Counts, CountsPrime DEF RoomAt

\* A request inserts a participant and is done inserting.
LEMMA RoomMoves ==
  ASSUME TypeOK, TypeOK', NEW e \in Events, RoomAt(e),
         peak'[e] = peak[e],
         NEW u, participants'[e] \subseteq participants[e] \cup {u},
         NEW r \in Inserting(e), Inserting(e)' \subseteq Inserting(e) \ {r}
  PROVE  RoomAt(e)'
<1>a. IsFiniteSet(participants[e])
  BY Counts
<1>b. /\ IsFiniteSet(participants[e] \cup {u})
      /\ Cardinality(participants[e] \cup {u}) =
           IF u \in participants[e] THEN Cardinality(participants[e])
                                    ELSE Cardinality(participants[e]) + 1
  BY <1>a, FS_AddElement
<1>1. /\ IsFiniteSet(participants[e] \cup {u})
      /\ Cardinality(participants[e] \cup {u}) <= Cardinality(participants[e]) + 1
  BY <1>b, Counts
<1>2. Cardinality(participants'[e]) <= Cardinality(participants[e] \cup {u})
  BY <1>1, FS_Subset
<1>3. /\ IsFiniteSet(Inserting(e) \ {r})
      /\ Cardinality(Inserting(e) \ {r}) = Cardinality(Inserting(e)) - 1
  BY Counts, FS_RemoveElement
<1>4. Cardinality(Inserting(e)') <= Cardinality(Inserting(e) \ {r})
  BY <1>3, FS_Subset
<1>5. Cardinality(participants[e] \cup {u}) \in Nat
  BY <1>1, FS_CardinalityType
<1>6. Cardinality(participants'[e]) <= Cardinality(participants[e]) + 1
  BY <1>1, <1>2, <1>5, Counts, CountsPrime
<1>7. Cardinality(Inserting(e)') <= Cardinality(Inserting(e)) - 1
  BY <1>3, <1>4
<1>. QED
  BY <1>6, <1>7, Counts, CountsPrime DEF RoomAt

\* A request has found less participants than the event once had room for:
\* even if all requests were inserting now, the bound would hold.
LEMMA RoomFound ==
  ASSUME TypeOK, TypeOK', NEW e \in Events,
         peak'[e] # 0 => Cardinality(participants'[e]) < peak'[e]
  PROVE  RoomAt(e)'
  BY CountsPrime DEF RoomAt

\* Which requests are inserting changes only with the request that moved.
LEMMA InsertingFrame ==
  ASSUME NEW e \in Events, NEW r \in Requests,
         \A q \in Requests \ {r} : request'[q] = request[q]
  PROVE  /\ Inserting(e)' \subseteq Inserting(e) \cup {r}
         /\ (request'[r] = NoRequest \/ request'[r].stage \notin {"joinCreator", "insert"}
               \/ request'[r].event # e)
              => Inserting(e)' \subseteq Inserting(e) \ {r}
  BY DEF Inserting

LEMMA RoomStep ==
  ASSUME RoomInv, TypeOK', [Next]_vars
  PROVE  OverrunBounded'
<1>. USE DEF vars, eventVars, historyVars
<1>a. SUFFICES ASSUME NEW e \in Events PROVE RoomAt(e)'
  BY DEF OverrunBounded, RoomAt
<1>b. TypeOK /\ LimitsHeld /\ Cascaded /\ RoomAt(e)
  BY DEF RoomInv, OverrunBounded, RoomAt
<1>1. ASSUME NEW r \in Requests, Creating(r)
      PROVE  RoomAt(e)'
  <2>1. ASSUME NEW u \in Users, CountHour(r, u)
        PROVE  RoomAt(e)'
    <3>1. [stage |-> "create", user |-> u] \in RequestStates
      BY DEF RequestStates, CreateRequests
    <3>2. Inserting(e)' \subseteq Inserting(e)
      BY <1>b, <2>1, <3>1, EnterType, InsertingFrame DEF CountHour
    <3>. QED
      BY <1>b, <2>1, <3>2, RoomShrinks, Counts DEF CountHour
  <2>2. ASSUME NEW f \in Events, NEW cap \in Capacities, NEW isPrivate \in Privacy,
               NEW ahead \in BOOLEAN, InsertEvent(r, f, cap, isPrivate, ahead)
        PROVE  RoomAt(e)'
    <3>1. /\ peak' = [peak EXCEPT ![f] = cap]
          /\ participants' = participants
          /\ eventRow[f] = "none"
      BY <2>2 DEF InsertEvent, InsertRow
    <3>2. /\ request'[r].event = f
          /\ \A q \in Requests \ {r} : request'[q] = request[q]
      BY <1>b, <2>2 DEF InsertEvent, TypeOK
    <3>3. CASE e = f
      <4>1. participants'[e] = {}
        BY <1>b, <3>1, <3>3 DEF Cascaded, Exists
      <4>2. Cardinality(participants'[e]) = 0
        BY <4>1, FS_EmptySet
      <4>. QED
        BY <1>b, <4>2, RoomFound, CountsPrime
    <3>4. CASE e # f
      <4>1. Inserting(e)' \subseteq Inserting(e)
        BY <3>2, <3>4, InsertingFrame
      <4>2. peak'[e] = peak[e]
        BY <1>b, <3>1, <3>4 DEF TypeOK
      <4>. QED
        BY <1>b, <3>1, <4>1, <4>2, RoomShrinks, Counts
    <3>. QED
      BY <3>3, <3>4
  <2>3. CASE JoinCreator(r)
    <3>1. /\ request[r] # NoRequest
          /\ request[r].stage = "joinCreator"
      BY <2>3 DEF JoinCreator, At
    <3>2. /\ request'[r].stage = "tellAll"
          /\ \A q \in Requests \ {r} : request'[q] = request[q]
      BY <1>b, <2>3, <3>1, GoToType DEF JoinCreator, JoinStages
    <3>3. Inserting(e)' \subseteq Inserting(e) \ {r}
      BY <3>2, InsertingFrame
    <3>4. CASE request[r].event = e
      <4>1. r \in Inserting(e)
        BY <3>1, <3>4 DEF Inserting
      <4>2. participants'[e] \subseteq participants[e] \cup {request[r].user}
        BY <1>b, <2>3, <3>4 DEF JoinCreator, InsertParticipant, TypeOK
      <4>. QED
        BY <1>b, <2>3, <3>3, <4>1, <4>2, RoomMoves DEF JoinCreator
    <3>5. CASE request[r].event # e
      <4>1. participants'[e] = participants[e]
        BY <1>b, <2>3, <3>5 DEF JoinCreator, InsertParticipant, TypeOK
      <4>. QED
        BY <1>b, <2>3, <3>3, <4>1, RoomShrinks, Counts DEF JoinCreator
    <3>. QED
      BY <3>4, <3>5
  <2>4. CASE TellAll(r)
    <3>1. Inserting(e)' \subseteq Inserting(e)
      BY <1>b, <2>4, GoToType, ReplyType, InsertingFrame
         DEF TellAll, AfterTelling, At, JoinStages
    <3>. QED
      BY <1>b, <2>4, <3>1, RoomShrinks, Counts DEF TellAll
  <2>. QED
    BY <1>1, <2>1, <2>2, <2>3, <2>4 DEF Creating
<1>2. ASSUME NEW r \in Requests, Joining(r)
      PROVE  RoomAt(e)'
  <2>1. ASSUME NEW u \in Users, NEW f \in Events, ReadEvent(r, u, f)
        PROVE  RoomAt(e)'
    <3>1. /\ request'[r].stage = "access"
          /\ \A q \in Requests \ {r} : request'[q] = request[q]
      BY <1>b, <2>1 DEF ReadEvent, TypeOK
    <3>2. Inserting(e)' \subseteq Inserting(e)
      BY <3>1, InsertingFrame
    <3>. QED
      BY <1>b, <2>1, <3>2, RoomShrinks, Counts DEF ReadEvent
  <2>2. ASSUME NEW hasKey \in BOOLEAN, Access(r, hasKey)
        PROVE  RoomAt(e)'
    <3>1. /\ request[r] # NoRequest
          /\ request[r].stage = "access"
          /\ participants' = participants
          /\ peak' = peak
      BY <2>2 DEF Access, At
    <3>2. \A q \in Requests \ {r} : request'[q] = request[q]
      BY <1>b, <2>2, <3>1, GoToType, ReplyType DEF Access, JoinStages
    <3>3. CASE peak[e] = 0
      BY <3>1, <3>3 DEF RoomAt
    <3>4. CASE peak[e] # 0
      <4>1. request[r].event = e => request[r].limit # 0
        BY <1>b, <3>1, <3>4 DEF LimitsHeld, Within
      <4>2. \/ request'[r] = NoRequest
            \/ request'[r].stage = "count"
            \/ request'[r].event # e
        BY <1>b, <2>2, <3>1, <4>1, GoToType, ReplyType DEF Access, JoinStages
      <4>3. Inserting(e)' \subseteq Inserting(e)
        BY <3>2, <4>2, InsertingFrame
      <4>. QED
        BY <1>b, <3>1, <4>3, RoomShrinks, Counts
    <3>. QED
      BY <3>3, <3>4
  <2>3. CASE Count(r)
    <3>1. /\ request[r] # NoRequest
          /\ request[r].stage = "count"
          /\ participants' = participants
          /\ peak' = peak
      BY <2>3 DEF Count, At
    <3>2. /\ \A q \in Requests \ {r} : request'[q] = request[q]
          /\ request'[r] = NoRequest \/ request'[r].event = request[r].event
      BY <1>b, <2>3, <3>1, GoToType, ReplyType DEF Count, JoinStages
    <3>3. CASE request[r].event = e /\ HasRoom(request[r])
      <4>1. request[r].limit \in Nat
        BY <1>b, <3>1, RequestType, EventsAssumption DEF JoinStages, JoinRequests
      <4>2. peak[e] # 0 => request[r].limit <= peak[e]
        BY <1>b, <3>1, <3>3, <4>1 DEF LimitsHeld, Within
      <4>3. peak[e] # 0 => Cardinality(participants[e]) < peak[e]
        BY <1>b, <3>3, <4>1, <4>2, Counts DEF HasRoom
      <4>. QED
        BY <1>b, <3>1, <4>3, RoomFound
    <3>4. CASE ~(request[r].event = e /\ HasRoom(request[r]))
      <4>1. Inserting(e)' \subseteq Inserting(e)
        BY <1>b, <2>3, <3>2, <3>4, ReplyType, InsertingFrame DEF Count
      <4>. QED
        BY <1>b, <3>1, <4>1, RoomShrinks, Counts
    <3>. QED
      BY <3>3, <3>4
  <2>4. CASE Insert(r)
    <3>1. /\ request[r] # NoRequest
          /\ request[r].stage = "insert"
      BY <2>4 DEF Insert, At
    <3>2. /\ request'[r] = NoRequest \/ request'[r].stage = "tell"
          /\ \A q \in Requests \ {r} : request'[q] = request[q]
      BY <1>b, <2>4, <3>1, GoToType, ReplyType DEF Insert, JoinStages
    <3>3. Inserting(e)' \subseteq Inserting(e) \ {r}
      BY <3>2, InsertingFrame
    <3>4. CASE request[r].event = e
      <4>1. r \in Inserting(e)
        BY <3>1, <3>4 DEF Inserting
      <4>2. participants'[e] \subseteq participants[e] \cup {request[r].user}
        BY <1>b, <2>4, <3>4 DEF Insert, InsertParticipant, TypeOK
      <4>. QED
        BY <1>b, <2>4, <3>3, <4>1, <4>2, RoomMoves DEF Insert
    <3>5. CASE request[r].event # e
      <4>1. participants'[e] = participants[e]
        BY <1>b, <2>4, <3>5 DEF Insert, InsertParticipant, TypeOK
      <4>. QED
        BY <1>b, <2>4, <3>3, <4>1, RoomShrinks, Counts DEF Insert
    <3>. QED
      BY <3>4, <3>5
  <2>5. CASE Tell(r) \/ Start(r) \/ Remind(r)
    <3>1. Inserting(e)' \subseteq Inserting(e)
      BY <1>b, <2>5, GoToType, ReplyType, InsertingFrame
         DEF Tell, Start, Remind, At, JoinStages
    <3>. QED
      BY <1>b, <2>5, <3>1, RoomShrinks, Counts DEF Tell, Start, Remind
  <2>. QED
    BY <1>2, <2>1, <2>2, <2>3, <2>4, <2>5 DEF Joining
<1>3. ASSUME NEW r \in Requests, Updating(r)
      PROVE  RoomAt(e)'
  <2>1. ASSUME NEW f \in Events, NEW cap \in Capacities, NEW start \in Starts,
               ReadForUpdate(r, f, cap, start)
        PROVE  RoomAt(e)'
    <3>1. /\ request'[r].stage = "write"
          /\ \A q \in Requests \ {r} : request'[q] = request[q]
      BY <1>b, <2>1 DEF ReadForUpdate, TypeOK
    <3>2. Inserting(e)' \subseteq Inserting(e)
      BY <3>1, InsertingFrame
    <3>. QED
      BY <1>b, <2>1, <3>2, RoomShrinks, Counts DEF ReadForUpdate
  <2>2. CASE WriteEvent(r)
    <3>1. Inserting(e)' \subseteq Inserting(e)
      BY <1>b, <2>2, ReplyType, InsertingFrame DEF WriteEvent
    <3>2. peak'[e] # 0 => peak[e] # 0 /\ peak[e] <= peak'[e]
      <4>1. request[r].limit \in Nat
        BY <1>b, <2>2, RequestType, EventsAssumption DEF WriteEvent, At, UpdateRequests
      <4>2. \/ peak' = peak
            \/ peak' = [peak EXCEPT ![request[r].event] =
                          Larger(peak[request[r].event], request[r].limit)]
        BY <2>2 DEF WriteEvent, WriteRow
      <4>. QED
        BY <1>b, <4>1, <4>2, Counts DEF Larger, TypeOK
    <3>. QED
      BY <1>b, <2>2, <3>1, <3>2, RoomShrinks DEF WriteEvent
  <2>. QED
    BY <1>3, <2>1, <2>2 DEF Updating
<1>4. ASSUME NEW r \in Requests, RequestEnds(r) \/ ErrorIgnored(r)
      PROVE  RoomAt(e)'
  <2>1. Inserting(e)' \subseteq Inserting(e)
    BY <1>b, <1>4, GoToType, ReplyType, InsertingFrame
       DEF RequestEnds, ErrorIgnored, AfterTelling, At, JoinStages
  <2>. QED
    BY <1>b, <1>4, <2>1, RoomShrinks, Counts DEF RequestEnds, ErrorIgnored
<1>5. ASSUME NEW f \in Events,
             \/ \E u \in Users : LeaveEvent(u, f)
             \/ \E isHidden \in BOOLEAN : HideEvent(f, isHidden)
             \/ DeleteEvent(f)
             \/ AnHourPasses(f)
             \/ StartNears(f)
      PROVE  RoomAt(e)'
  <2>1. /\ UNCHANGED <<request, peak>>
        /\ participants'[e] \subseteq participants[e]
    BY <1>b, <1>5 DEF LeaveEvent, HideEvent, DeleteEvent, AnHourPasses, StartNears, TypeOK
  <2>2. Inserting(e)' \subseteq Inserting(e)
    BY <2>1 DEF Inserting
  <2>. QED
    BY <1>b, <2>1, <2>2, RoomShrinks, Counts
<1>6. CASE UNCHANGED vars
  BY <1>b, <1>6 DEF RoomAt, Inserting
<1>. QED
  BY <1>1, <1>2, <1>3, <1>4, <1>5, <1>6 DEF Next

\* However many users, events and requests there are, an event that never was
\* unlimited has at most one participant too many for every other request.
THEOREM Overrun == Spec => []OverrunBounded
<1>1. Init => RoomInv
  BY EventsAssumption
     DEF Init, RoomInv, TypeOK, Known, Cascaded, LimitsHeld, Within, OverrunBounded
<1>2. RoomInv /\ [Next]_vars => RoomInv'
  BY TypeStep, KnownStep, CascadedStep, LimitsStep, RoomStep DEF RoomInv
<1>3. RoomInv => OverrunBounded
  BY DEF RoomInv
<1>. QED
  BY <1>1, <1>2, <1>3, PTL DEF Spec

-----------------------------------------------------------------------------
(***************************************************************************)
(* The hourly limit of a creator                                           *)
(***************************************************************************)
\* HourlyLimitBounded, for one user.
HourAt(u) ==
  HourLimit > 0 =>
    Cardinality(CreatedLastHour(u)) + Cardinality(CreatingFor(u))
      < HourLimit + Cardinality(Requests)

LEMMA HourCounts ==
  ASSUME TypeOK, NEW u \in Users
  PROVE  /\ IsFiniteSet(CreatedLastHour(u))
         /\ IsFiniteSet(CreatingFor(u))
         /\ Cardinality(CreatedLastHour(u)) \in Nat
         /\ Cardinality(CreatingFor(u)) \in Nat
         /\ Cardinality(CreatingFor(u)) <= Cardinality(Requests)
         /\ Cardinality(Requests) \in Nat
<1>1. CreatedLastHour(u) \subseteq Events
  BY DEF CreatedLastHour, TypeOK
<1>2. CreatingFor(u) \subseteq Requests
  BY DEF CreatingFor
<1>. QED
  BY <1>1, <1>2, FS_Subset, FS_CardinalityType, EventsAssumption

LEMMA HourCountsPrime ==
  ASSUME TypeOK', NEW u \in Users
  PROVE  /\ Cardinality(CreatedLastHour(u)') \in Nat
         /\ Cardinality(CreatingFor(u)') \in Nat
         /\ Cardinality(CreatingFor(u)') <= Cardinality(Requests)
<1>1. CreatedLastHour(u)' \subseteq Events
  BY DEF CreatedLastHour, TypeOK
<1>2. CreatingFor(u)' \subseteq Requests
  BY DEF CreatingFor
<1>. QED
  BY <1>1, <1>2, FS_Subset, FS_CardinalityType, EventsAssumption

\* No row comes in and no request passes the count.
LEMMA HourShrinks ==
  ASSUME TypeOK, TypeOK', NEW u \in Users, HourAt(u),
         CreatedLastHour(u)' \subseteq CreatedLastHour(u),
         CreatingFor(u)' \subseteq CreatingFor(u)
  PROVE  HourAt(u)'
<1>1. Cardinality(CreatedLastHour(u)') <= Cardinality(CreatedLastHour(u))
  BY HourCounts, FS_Subset
<1>2. Cardinality(CreatingFor(u)') <= Cardinality(CreatingFor(u))
  BY HourCounts, FS_Subset
<1>. QED
  BY <1>1, <1>2, HourCounts, HourCountsPrime, EventsAssumption DEF HourAt

\* A request inserts a row and is done creating.
LEMMA HourMoves ==
  ASSUME TypeOK, TypeOK', NEW u \in Users, HourAt(u),
         NEW e, CreatedLastHour(u)' \subseteq CreatedLastHour(u) \cup {e},
         NEW r \in CreatingFor(u), CreatingFor(u)' \subseteq CreatingFor(u) \ {r}
  PROVE  HourAt(u)'
<1>1. /\ IsFiniteSet(CreatedLastHour(u) \cup {e})
      /\ Cardinality(CreatedLastHour(u) \cup {e}) =
           IF e \in CreatedLastHour(u) THEN Cardinality(CreatedLastHour(u))
                                       ELSE Cardinality(CreatedLastHour(u)) + 1
  <2>1. IsFiniteSet(CreatedLastHour(u))
    BY HourCounts
  <2>. QED
    BY <2>1, FS_AddElement
<1>2. Cardinality(CreatedLastHour(u)') <= Cardinality(CreatedLastHour(u) \cup {e})
  BY <1>1, FS_Subset
<1>3. /\ IsFiniteSet(CreatingFor(u) \ {r})
      /\ Cardinality(CreatingFor(u) \ {r}) = Cardinality(CreatingFor(u)) - 1
  BY HourCounts, FS_RemoveElement
<1>4. Cardinality(CreatingFor(u)') <= Cardinality(CreatingFor(u) \ {r})
  BY <1>3, FS_Subset
<1>5. Cardinality(CreatedLastHour(u)') <= Cardinality(CreatedLastHour(u)) + 1
  BY <1>1, <1>2, HourCounts, HourCountsPrime
<1>6. Cardinality(CreatingFor(u)') <= Cardinality(CreatingFor(u)) - 1
  BY <1>3, <1>4
<1>. QED
  BY <1>5, <1>6, HourCounts, HourCountsPrime, EventsAssumption DEF HourAt

LEMMA CreatingFrame ==
  ASSUME NEW u \in Users, NEW r \in Requests,
         \A q \in Requests \ {r} : request'[q] = request[q],
         request'[r] = NoRequest \/ request'[r].stage # "create"
  PROVE  CreatingFor(u)' \subseteq CreatingFor(u) \ {r}
  BY DEF CreatingFor

LEMMA HourStep ==
  ASSUME TypeOK, HourlyLimitBounded, TypeOK', [Next]_vars
  PROVE  HourlyLimitBounded'
<1>. USE DEF vars, eventVars, historyVars
<1>a. SUFFICES ASSUME NEW u \in Users PROVE HourAt(u)'
  BY DEF HourlyLimitBounded, HourAt
<1>b. HourAt(u)
  BY DEF HourlyLimitBounded, HourAt
<1>c. \A r \in Requests : Reply(r) => CreatingFor(u)' \subseteq CreatingFor(u)
  BY ReplyType, CreatingFrame
<1>d. \A r \in Requests, s \in JoinStages :
        request[r] # NoRequest /\ request[r].stage \in JoinStages /\ GoTo(r, s)
          => CreatingFor(u)' \subseteq CreatingFor(u)
  BY GoToType, CreatingFrame DEF JoinStages
<1>e. ASSUME UNCHANGED <<young, creator>>
      PROVE  CreatedLastHour(u)' \subseteq CreatedLastHour(u)
  BY <1>e DEF CreatedLastHour
<1>1. ASSUME NEW r \in Requests, NEW v \in Users, CountHour(r, v)
      PROVE  HourAt(u)'
  <2>1. UNCHANGED <<young, creator>>
    BY <1>1 DEF CountHour
  <2>2. CASE u = v
    <3>1. Cardinality(CreatedLastHour(u)) < HourLimit
      BY <1>1, <2>2 DEF CountHour
    <3>2. CreatedLastHour(u)' = CreatedLastHour(u)
      BY <2>1 DEF CreatedLastHour
    <3>. QED
      BY <3>1, <3>2, HourCounts, HourCountsPrime, EventsAssumption DEF HourAt
  <2>3. CASE u # v
    <3>1. /\ request'[r].user = v
          /\ \A q \in Requests \ {r} : request'[q] = request[q]
      BY <1>1 DEF CountHour, TypeOK
    <3>2. CreatingFor(u)' \subseteq CreatingFor(u)
      BY <2>3, <3>1 DEF CreatingFor
    <3>. QED
      BY <1>b, <1>e, <2>1, <3>2, HourShrinks
  <2>. QED
    BY <2>2, <2>3
<1>2. ASSUME NEW r \in Requests, NEW e \in Events, NEW cap \in Capacities,
             NEW isPrivate \in Privacy, NEW ahead \in BOOLEAN,
             InsertEvent(r, e, cap, isPrivate, ahead)
      PROVE  HourAt(u)'
  <2>1. /\ request[r] # NoRequest
        /\ request[r].stage = "create"
        /\ young' = young \cup {e}
        /\ creator' = [creator EXCEPT ![e] = request[r].user]
    BY <1>2 DEF InsertEvent, InsertRow, At
  <2>2. CreatingFor(u)' \subseteq CreatingFor(u) \ {r}
    <3>1. /\ request'[r].stage = "joinCreator"
          /\ \A q \in Requests \ {r} : request'[q] = request[q]
      BY <1>2 DEF InsertEvent, TypeOK
    <3>. QED
      BY <3>1, CreatingFrame
  <2>3. CASE request[r].user = u
    <3>1. r \in CreatingFor(u)
      BY <2>1, <2>3 DEF CreatingFor
    <3>2. CreatedLastHour(u)' \subseteq CreatedLastHour(u) \cup {e}
      BY <2>1 DEF CreatedLastHour, TypeOK
    <3>. QED
      BY <1>b, <2>2, <3>1, <3>2, HourMoves
  <2>4. CASE request[r].user # u
    <3>1. CreatedLastHour(u)' \subseteq CreatedLastHour(u)
      BY <2>1, <2>4 DEF CreatedLastHour, TypeOK
    <3>. QED
      BY <1>b, <2>2, <3>1, HourShrinks
  <2>. QED
    BY <2>3, <2>4
<1>3. ASSUME NEW r \in Requests, JoinCreator(r) \/ TellAll(r)
      PROVE  HourAt(u)'
  <2>1. CreatingFor(u)' \subseteq CreatingFor(u)
    BY <1>3, <1>c, <1>d DEF JoinCreator, TellAll, AfterTelling, At, JoinStages
  <2>. QED
    BY <1>3, <1>b, <1>e, <2>1, HourShrinks DEF JoinCreator, TellAll
<1>4. ASSUME NEW r \in Requests, Joining(r)
      PROVE  HourAt(u)'
  <2>1. CreatingFor(u)' \subseteq CreatingFor(u)
    <3>1. ASSUME NEW v \in Users, NEW e \in Events, ReadEvent(r, v, e)
          PROVE  CreatingFor(u)' \subseteq CreatingFor(u)
      <4>1. /\ request'[r].stage = "access"
            /\ \A q \in Requests \ {r} : request'[q] = request[q]
        BY <3>1 DEF ReadEvent, TypeOK
      <4>. QED
        BY <4>1, CreatingFrame
    <3>2. CASE ~\E v \in Users, e \in Events : ReadEvent(r, v, e)
      BY <1>4, <1>c, <1>d, <3>2
         DEF Joining, Access, Count, Insert, Tell, Start, Remind, At, JoinStages
    <3>. QED
      BY <3>1, <3>2
  <2>2. UNCHANGED <<young, creator>>
    BY <1>4 DEF Joining, ReadEvent, Access, Count, Insert, Tell, Start, Remind
  <2>. QED
    BY <1>b, <1>e, <2>1, <2>2, HourShrinks
<1>5. ASSUME NEW r \in Requests, Updating(r)
      PROVE  HourAt(u)'
  <2>1. CreatingFor(u)' \subseteq CreatingFor(u)
    <3>1. ASSUME NEW e \in Events, NEW cap \in Capacities, NEW start \in Starts,
                 ReadForUpdate(r, e, cap, start)
          PROVE  CreatingFor(u)' \subseteq CreatingFor(u)
      <4>1. /\ request'[r].stage = "write"
            /\ \A q \in Requests \ {r} : request'[q] = request[q]
        BY <3>1 DEF ReadForUpdate, TypeOK
      <4>. QED
        BY <4>1, CreatingFrame
    <3>2. CASE WriteEvent(r)
      BY <1>c, <3>2 DEF WriteEvent
    <3>. QED
      BY <1>5, <3>1, <3>2 DEF Updating
  <2>2. UNCHANGED <<young, creator>>
    BY <1>5 DEF Updating, ReadForUpdate, WriteEvent, WriteRow
  <2>. QED
    BY <1>b, <1>e, <2>1, <2>2, HourShrinks
<1>6. ASSUME NEW r \in Requests, RequestEnds(r) \/ ErrorIgnored(r)
      PROVE  HourAt(u)'
  <2>1. CreatingFor(u)' \subseteq CreatingFor(u)
    BY <1>6, <1>c, <1>d DEF RequestEnds, ErrorIgnored, AfterTelling, At, JoinStages
  <2>. QED
    BY <1>6, <1>b, <1>e, <2>1, HourShrinks DEF RequestEnds, ErrorIgnored
<1>7. ASSUME NEW e \in Events,
             \/ \E v \in Users : LeaveEvent(v, e)
             \/ \E isHidden \in BOOLEAN : HideEvent(e, isHidden)
             \/ DeleteEvent(e)
             \/ AnHourPasses(e)
             \/ StartNears(e)
      PROVE  HourAt(u)'
  <2>1. /\ UNCHANGED <<request, creator>>
        /\ young' \subseteq young
    BY <1>7 DEF LeaveEvent, HideEvent, DeleteEvent, AnHourPasses, StartNears
  <2>2. /\ CreatedLastHour(u)' \subseteq CreatedLastHour(u)
        /\ CreatingFor(u)' \subseteq CreatingFor(u)
    BY <2>1 DEF CreatedLastHour, CreatingFor
  <2>. QED
    BY <1>b, <2>2, HourShrinks
<1>8. CASE UNCHANGED vars
  BY <1>b, <1>8 DEF HourAt, CreatedLastHour, CreatingFor
<1>. QED
  BY <1>1, <1>2, <1>3, <1>4, <1>5, <1>6, <1>7, <1>8 DEF Next, Creating

\* A user passes the hourly limit at most by the requests that run beside one
\* another, whatever fails and however long an hour lasts.
THEOREM HourlyLimit == Spec => []HourlyLimitBounded
<1>1. Init => TypeOK /\ HourlyLimitBounded
  <2>1. ASSUME Init, NEW u \in Users
        PROVE  Cardinality(CreatedLastHour(u)) = 0 /\ Cardinality(CreatingFor(u)) = 0
    <3>1. CreatedLastHour(u) = {} /\ CreatingFor(u) = {}
      BY <2>1 DEF Init, CreatedLastHour, CreatingFor
    <3>. QED
      BY <3>1, FS_EmptySet
  <2>2. Cardinality(Requests) \in Nat
    BY FS_CardinalityType, EventsAssumption
  <2>3. Init => TypeOK
    BY EventsAssumption DEF Init, TypeOK
  <2>. QED
    BY <2>1, <2>2, <2>3, EventsAssumption DEF HourlyLimitBounded
<1>2. TypeOK /\ HourlyLimitBounded /\ [Next]_vars => (TypeOK /\ HourlyLimitBounded)'
  BY TypeStep, HourStep
<1>. QED
  BY <1>1, <1>2, PTL DEF Spec

-----------------------------------------------------------------------------
(***************************************************************************)
(* The key of a private event                                              *)
(***************************************************************************)
Vouched(e, u) == u = creator[e] \/ <<e, u>> \in keyed

\* What a request that will insert a participant has already shown.
Welcome(r) ==
  request[r] # NoRequest =>
    /\ request[r].stage = "joinCreator" => request[r].user = creator[request[r].event]
    /\ request[r].stage \in {"count", "insert"} /\ request[r].event \in private
         => Vouched(request[r].event, request[r].user)

GuardInv ==
  TypeOK /\ Known /\ Cascaded /\ PrivateGuarded /\ \A r \in Requests : Welcome(r)

\* Only the request that moved and the participants it added have to be
\* looked at.
LEMMA GuardFrame ==
  ASSUME GuardInv, NEW r \in Requests,
         \A q \in Requests \ {r} : request'[q] = request[q],
         UNCHANGED <<creator, private>>, keyed \subseteq keyed',
         \A e \in Events : \A u \in participants'[e] :
           u \in participants[e] \/ (e \in private => Vouched(e, u)'),
         Welcome(r)'
  PROVE  PrivateGuarded' /\ \A q \in Requests : Welcome(q)'
<1>1. PrivateGuarded'
  BY DEF GuardInv, PrivateGuarded, Vouched, TypeOK
<1>2. ASSUME NEW q \in Requests \ {r} PROVE Welcome(q)'
  BY <1>2 DEF GuardInv, Welcome, Vouched
<1>. QED
  BY <1>1, <1>2

\* The creator's own row: nobody can have known of the event before.
LEMMA GuardInsertEvent ==
  ASSUME GuardInv, NEW r \in Requests, NEW e \in Events, NEW cap \in Capacities,
         NEW isPrivate \in Privacy, NEW ahead \in BOOLEAN,
         InsertEvent(r, e, cap, isPrivate, ahead)
  PROVE  PrivateGuarded' /\ \A q \in Requests : Welcome(q)'
<1>1. /\ eventRow[e] = "none"
      /\ creator' = [creator EXCEPT ![e] = request[r].user]
      /\ private \subseteq private' /\ private' \subseteq private \cup {e}
      /\ UNCHANGED <<participants, keyed>>
  BY DEF InsertEvent, InsertRow
<1>2. participants[e] = {}
  BY <1>1 DEF GuardInv, Cascaded, Exists
<1>3. PrivateGuarded'
  BY <1>1, <1>2 DEF GuardInv, PrivateGuarded, TypeOK
<1>4. ASSUME NEW q \in Requests \ {r} PROVE Welcome(q)'
  <2>1. request'[q] = request[q]
    BY <1>4 DEF InsertEvent, GuardInv, TypeOK
  <2>2. request[q] # NoRequest /\ request[q].stage # "create"
          => request[q].event # e
    BY <1>1, <1>4 DEF GuardInv, Known
  <2>3. request[q] # NoRequest /\ request[q].stage # "create"
          => request[q].event \in Events
    BY <1>4, RequestType DEF GuardInv, TypeOK, RequestStates, CreateRequests,
                             JoinRequests, UpdateRequests
  <2>. QED
    BY <1>1, <1>4, <2>1, <2>2, <2>3 DEF GuardInv, Welcome, Vouched, TypeOK
<1>5. Welcome(r)'
  <2>1. /\ request'[r].stage = "joinCreator"
        /\ request'[r].event = e
        /\ request'[r].user = request[r].user
    BY DEF InsertEvent, GuardInv, TypeOK
  <2>. QED
    BY <1>1, <2>1 DEF Welcome, GuardInv, TypeOK
<1>. QED
  BY <1>3, <1>4, <1>5

LEMMA GuardStep ==
  ASSUME GuardInv, [Next]_vars
  PROVE  PrivateGuarded' /\ \A q \in Requests : Welcome(q)'
<1>. DEFINE Guarded == PrivateGuarded /\ \A q \in Requests : Welcome(q)
<1>. USE DEF vars, eventVars, historyVars
<1>a. TypeOK
  BY DEF GuardInv
<1>1. ASSUME NEW r \in Requests, Creating(r)
      PROVE  Guarded'
  <2>1. ASSUME NEW u \in Users, CountHour(r, u)
        PROVE  Guarded'
    <3>1. [stage |-> "create", user |-> u] \in RequestStates
      BY DEF RequestStates, CreateRequests
    <3>2. /\ request'[r].stage = "create"
          /\ \A q \in Requests \ {r} : request'[q] = request[q]
      BY <1>a, <2>1, <3>1, EnterType DEF CountHour
    <3>. QED
      BY <2>1, <3>2, GuardFrame DEF CountHour, Welcome
  <2>2. ASSUME NEW e \in Events, NEW cap \in Capacities, NEW isPrivate \in Privacy,
               NEW ahead \in BOOLEAN, InsertEvent(r, e, cap, isPrivate, ahead)
        PROVE  Guarded'
    BY <2>2, GuardInsertEvent
  <2>3. CASE JoinCreator(r)
    <3>1. /\ request[r] # NoRequest /\ request[r].stage = "joinCreator"
          /\ request[r] \in JoinRequests
      BY <1>a, <2>3, RequestType DEF JoinCreator, At, JoinStages
    <3>2. request[r].user = creator[request[r].event]
      BY <3>1 DEF GuardInv, Welcome
    <3>3. \A e \in Events : \A u \in participants'[e] :
            u \in participants[e] \/ (e \in private => Vouched(e, u)')
      BY <2>3, <3>1, <3>2 DEF JoinCreator, InsertParticipant, Vouched, GuardInv, TypeOK
    <3>4. /\ request'[r].stage = "tellAll"
          /\ \A q \in Requests \ {r} : request'[q] = request[q]
      BY <1>a, <2>3, <3>1, GoToType DEF JoinCreator, JoinStages
    <3>. QED
      BY <2>3, <3>3, <3>4, GuardFrame DEF JoinCreator, Welcome
  <2>4. CASE TellAll(r)
    <3>1. /\ request'[r] = NoRequest \/ request'[r].stage = "remind"
          /\ \A q \in Requests \ {r} : request'[q] = request[q]
      BY <1>a, <2>4, GoToType, ReplyType DEF TellAll, AfterTelling, At, JoinStages
    <3>. QED
      BY <2>4, <3>1, GuardFrame DEF TellAll, Welcome
  <2>. QED
    BY <1>1, <2>1, <2>2, <2>3, <2>4 DEF Creating
<1>2. ASSUME NEW r \in Requests, Joining(r)
      PROVE  Guarded'
  <2>1. ASSUME NEW u \in Users, NEW e \in Events, ReadEvent(r, u, e)
        PROVE  Guarded'
    <3>1. /\ request'[r].stage = "access"
          /\ \A q \in Requests \ {r} : request'[q] = request[q]
      BY <1>a, <2>1 DEF ReadEvent, TypeOK
    <3>. QED
      BY <2>1, <3>1, GuardFrame DEF ReadEvent, Welcome
  <2>2. ASSUME NEW hasKey \in BOOLEAN, Access(r, hasKey)
        PROVE  Guarded'
    <3>1. /\ request[r] # NoRequest /\ request[r].stage = "access"
          /\ request[r] \in JoinRequests
      BY <1>a, <2>2, RequestType DEF Access, At, JoinStages
    <3>2. keyed \subseteq keyed'
      BY <2>2 DEF Access
    <3>3. Allowed(request[r], hasKey) /\ request[r].event \in private
            => \/ request[r].user = creator[request[r].event]
               \/ <<request[r].event, request[r].user>> \in keyed'
      BY <2>2, <3>1 DEF Access, Allowed, GuardInv, PrivateGuarded
    <3>4. /\ \/ request'[r] = NoRequest
             \/ /\ Allowed(request[r], hasKey)
                /\ request'[r].stage \in {"insert", "count"}
                /\ request'[r].event = request[r].event
                /\ request'[r].user = request[r].user
          /\ \A q \in Requests \ {r} : request'[q] = request[q]
      BY <1>a, <2>2, <3>1, GoToType, ReplyType DEF Access, JoinStages
    <3>5. Welcome(r)'
      BY <2>2, <3>3, <3>4 DEF Access, Welcome, Vouched
    <3>. QED
      BY <2>2, <3>2, <3>4, <3>5, GuardFrame DEF Access
  <2>3. CASE Count(r)
    <3>1. /\ request[r] # NoRequest /\ request[r].stage = "count"
      BY <2>3 DEF Count, At
    <3>2. /\ \/ request'[r] = NoRequest
             \/ /\ request'[r].stage = "insert"
                /\ request'[r].event = request[r].event
                /\ request'[r].user = request[r].user
          /\ \A q \in Requests \ {r} : request'[q] = request[q]
      BY <1>a, <2>3, <3>1, GoToType, ReplyType DEF Count, JoinStages
    <3>3. Welcome(r)'
      BY <2>3, <3>1, <3>2 DEF Count, Welcome, Vouched, GuardInv
    <3>. QED
      BY <2>3, <3>2, <3>3, GuardFrame DEF Count
  <2>4. CASE Insert(r)
    <3>1. /\ request[r] # NoRequest /\ request[r].stage = "insert"
          /\ request[r] \in JoinRequests
      BY <1>a, <2>4, RequestType DEF Insert, At, JoinStages
    <3>2. request[r].event \in private => Vouched(request[r].event, request[r].user)
      BY <3>1 DEF GuardInv, Welcome
    <3>3. \A e \in Events : \A u \in participants'[e] :
            u \in participants[e] \/ (e \in private => Vouched(e, u)')
      BY <2>4, <3>1, <3>2 DEF Insert, InsertParticipant, Vouched, GuardInv, TypeOK
    <3>4. /\ request'[r] = NoRequest \/ request'[r].stage = "tell"
          /\ \A q \in Requests \ {r} : request'[q] = request[q]
      BY <1>a, <2>4, <3>1, GoToType, ReplyType DEF Insert, JoinStages
    <3>. QED
      BY <2>4, <3>3, <3>4, GuardFrame DEF Insert, Welcome
  <2>5. CASE Tell(r) \/ Start(r) \/ Remind(r)
    <3>1. /\ request'[r] = NoRequest \/ request'[r].stage \in {"start", "remind"}
          /\ \A q \in Requests \ {r} : request'[q] = request[q]
      BY <1>a, <2>5, GoToType, ReplyType DEF Tell, Start, Remind, At, JoinStages
    <3>2. UNCHANGED <<creator, private, keyed, participants>>
      BY <2>5 DEF Tell, Start, Remind
    <3>. QED
      BY <3>1, <3>2, GuardFrame DEF Welcome
  <2>. QED
    BY <1>2, <2>1, <2>2, <2>3, <2>4, <2>5 DEF Joining
<1>3. ASSUME NEW r \in Requests, Updating(r)
      PROVE  Guarded'
  <2>1. /\ request'[r] = NoRequest \/ request'[r].stage = "write"
        /\ \A q \in Requests \ {r} : request'[q] = request[q]
    BY <1>a, <1>3, ReplyType DEF Updating, ReadForUpdate, WriteEvent, TypeOK
  <2>2. UNCHANGED <<creator, private, keyed, participants>>
    BY <1>3 DEF Updating, ReadForUpdate, WriteEvent, WriteRow
  <2>. QED
    BY <2>1, <2>2, GuardFrame DEF Welcome
<1>4. ASSUME NEW r \in Requests, RequestEnds(r) \/ ErrorIgnored(r)
      PROVE  Guarded'
  <2>1. /\ request'[r] = NoRequest \/ request'[r].stage \in {"tellAll", "remind", "start"}
        /\ \A q \in Requests \ {r} : request'[q] = request[q]
    BY <1>a, <1>4, GoToType, ReplyType
       DEF RequestEnds, ErrorIgnored, AfterTelling, At, JoinStages
  <2>2. UNCHANGED <<creator, private, keyed, participants>>
    BY <1>4 DEF RequestEnds, ErrorIgnored
  <2>. QED
    BY <2>1, <2>2, GuardFrame DEF Welcome
<1>5. ASSUME NEW e \in Events,
             \/ \E u \in Users : LeaveEvent(u, e)
             \/ \E isHidden \in BOOLEAN : HideEvent(e, isHidden)
             \/ DeleteEvent(e)
             \/ AnHourPasses(e)
             \/ StartNears(e)
      PROVE  Guarded'
  <2>1. UNCHANGED <<creator, private, keyed, request>>
    BY <1>5 DEF LeaveEvent, HideEvent, DeleteEvent, AnHourPasses, StartNears
  <2>2. \A f \in Events : participants'[f] \subseteq participants[f]
    BY <1>a, <1>5 DEF LeaveEvent, HideEvent, DeleteEvent, AnHourPasses, StartNears, TypeOK
  <2>. QED
    BY <1>a, <2>1, <2>2 DEF GuardInv, PrivateGuarded, Welcome, Vouched, TypeOK
<1>6. CASE UNCHANGED vars
  BY <1>6 DEF GuardInv, PrivateGuarded, Welcome, Vouched
<1>. QED
  BY <1>1, <1>2, <1>3, <1>4, <1>5, <1>6 DEF Next

\* Nobody takes part in a private event without its key but its creator, for
\* any number of users, events and requests.
THEOREM KeyNeeded == Spec => []PrivateGuarded
<1>1. Init => GuardInv
  BY EventsAssumption DEF Init, GuardInv, TypeOK, Known, Cascaded, PrivateGuarded, Welcome
<1>2. GuardInv /\ [Next]_vars => GuardInv'
  BY TypeStep, KnownStep, CascadedStep, GuardStep DEF GuardInv
<1>3. GuardInv => PrivateGuarded
  BY DEF GuardInv
<1>. QED
  BY <1>1, <1>2, <1>3, PTL DEF Spec

-----------------------------------------------------------------------------
(***************************************************************************)
(* The reminder of who takes part                                          *)
(***************************************************************************)
\* r will still enqueue the reminder of u.
Enqueues(r, e, u) ==
  /\ request[r] # NoRequest
  /\ request[r].stage \in {"tellAll", "tell", "start", "remind"}
  /\ request[r].event = e
  /\ request[r].user = u

\* A creation that has still to enqueue knows that its event is far ahead.
KnowsAhead(r) ==
  request[r] # NoRequest /\ request[r].stage \in {"joinCreator", "tellAll"}
    => (request[r].event \in distant \ moved => request[r].ahead)

NoStart == \A e \in distant : eventRow[e] # "none"

RemindInv ==
  /\ TypeOK /\ Known /\ Cascaded /\ NoStart /\ RemindersReach
  /\ \A r \in Requests : KnowsAhead(r)

\* A step without a fault, which moves one request: each participant it leaves
\* or adds has its reminder, or a request that will enqueue it.
LEMMA ReachFrame ==
  ASSUME RemindInv, NEW r \in Requests,
         \A q \in Requests \ {r} : request'[q] = request[q],
         distant' \ moved' \subseteq distant \ moved,
         faults' = 0 => faults = 0,
         \A e \in distant' \ moved' : \A u \in participants'[e] :
           /\ u \in participants[e] \/ u \in reminders'[e] \/ Enqueues(r, e, u)'
           /\ u \in reminders[e] => u \in reminders'[e]
           /\ Enqueues(r, e, u) => u \in reminders'[e] \/ Enqueues(r, e, u)',
         KnowsAhead(r)'
  PROVE  RemindersReach' /\ \A q \in Requests : KnowsAhead(q)'
<1>1. RemindersReach'
  <2>. SUFFICES ASSUME faults' = 0, NEW e \in distant' \ moved', NEW u \in participants'[e]
                PROVE  u \in reminders'[e] \/ \E q \in Requests : Enqueues(q, e, u)'
    BY DEF RemindersReach, Enqueues
  <2>1. CASE u \notin participants[e]
    BY <2>1
  <2>2. CASE u \in participants[e]
    <3>1. u \in reminders[e] \/ \E q \in Requests : Enqueues(q, e, u)
      BY <2>2 DEF RemindInv, RemindersReach, Enqueues
    <3>2. ASSUME NEW q \in Requests, Enqueues(q, e, u)
          PROVE  u \in reminders'[e] \/ \E p \in Requests : Enqueues(p, e, u)'
      <4>1. CASE q = r
        BY <3>2, <4>1
      <4>2. CASE q # r
        BY <3>2, <4>2 DEF Enqueues
      <4>. QED
        BY <4>1, <4>2
    <3>. QED
      BY <3>1, <3>2
  <2>. QED
    BY <2>1, <2>2
<1>2. ASSUME NEW q \in Requests \ {r} PROVE KnowsAhead(q)'
  BY <1>2 DEF RemindInv, KnowsAhead
<1>. QED
  BY <1>1, <1>2

\* A step that leaves events, participants and reminders alone and takes no
\* enqueuing request away.
LEMMA ReachStays ==
  ASSUME RemindInv, NEW r \in Requests,
         \A q \in Requests \ {r} : request'[q] = request[q],
         UNCHANGED <<distant, moved, participants, reminders>>,
         faults' = 0 => faults = 0,
         request[r] # NoRequest => request[r].stage \notin {"tellAll", "tell", "start", "remind"},
         request'[r] # NoRequest => request'[r].stage \notin {"joinCreator", "tellAll"}
  PROVE  RemindersReach' /\ \A q \in Requests : KnowsAhead(q)'
<1>1. KnowsAhead(r)'
  BY DEF KnowsAhead
<1>2. \A e, u : ~ Enqueues(r, e, u)
  BY DEF Enqueues
<1>. QED
  BY <1>1, <1>2, ReachFrame

LEMMA ReachInsertEvent ==
  ASSUME RemindInv, NEW r \in Requests, NEW e \in Events, NEW cap \in Capacities,
         NEW isPrivate \in Privacy, NEW ahead \in BOOLEAN,
         InsertEvent(r, e, cap, isPrivate, ahead)
  PROVE  NoStart' /\ RemindersReach' /\ \A q \in Requests : KnowsAhead(q)'
<1>1. /\ At(r, "create")
      /\ eventRow[e] = "none"
      /\ eventRow' = [eventRow EXCEPT ![e] = "live"]
      /\ distant' = IF ahead THEN distant \cup {e} ELSE distant
      /\ UNCHANGED <<participants, reminders, moved, faults>>
  BY DEF InsertEvent, InsertRow
<1>2. participants[e] = {} /\ e \notin distant
  BY <1>1 DEF RemindInv, Cascaded, Exists, NoStart
<1>3. /\ request'[r] = [stage |-> "joinCreator", user |-> request[r].user,
                        event |-> e, limit |-> cap, ahead |-> ahead]
      /\ \A q \in Requests \ {r} : request'[q] = request[q]
  BY DEF InsertEvent, RemindInv, TypeOK
<1>4. NoStart'
  BY <1>1 DEF RemindInv, NoStart, TypeOK
<1>5. RemindersReach'
  <2>1. ASSUME NEW f \in distant \ moved, NEW u \in participants[f], NEW q \in Requests,
               Enqueues(q, f, u)
        PROVE  Enqueues(q, f, u)'
    <3>1. q # r
      BY <1>1, <2>1 DEF Enqueues, At
    <3>. QED
      BY <1>3, <2>1, <3>1 DEF Enqueues
  <2>2. \A f \in distant' \ moved' : \A u \in participants'[f] :
          f \in distant \ moved /\ u \in participants[f]
    BY <1>1, <1>2
  <2>. QED
    BY <1>1, <2>1, <2>2 DEF RemindInv, RemindersReach, Enqueues
<1>6. ASSUME NEW q \in Requests \ {r} PROVE KnowsAhead(q)'
  <2>1. request[q] # NoRequest /\ request[q].stage # "create" => request[q].event # e
    BY <1>1, <1>6 DEF RemindInv, Known
  <2>2. request'[q] = request[q]
    BY <1>3, <1>6
  <2>3. request[q] # NoRequest /\ request[q].stage \in {"joinCreator", "tellAll"}
          => (request[q].event \in distant' \ moved' => request[q].ahead)
    BY <1>1, <1>6, <2>1 DEF RemindInv, KnowsAhead
  <2>. QED
    BY <2>2, <2>3 DEF KnowsAhead
<1>7. KnowsAhead(r)'
  BY <1>1, <1>2, <1>3 DEF KnowsAhead
<1>. QED
  BY <1>4, <1>5, <1>6, <1>7

\* After telling, the request enqueues a reminder or knows that none is due.
LEMMA ReachAfterTelling ==
  ASSUME RemindInv, NEW r \in Requests, At(r, "tellAll"), AfterTelling(r),
         UNCHANGED <<distant, moved, participants, reminders>>,
         faults' = 0 => faults = 0
  PROVE  RemindersReach' /\ \A q \in Requests : KnowsAhead(q)'
<1>1. /\ TypeOK
      /\ request[r] # NoRequest /\ request[r].stage = "tellAll"
      /\ request[r] \in JoinRequests
  BY RequestType DEF At, RemindInv, JoinStages
<1>2. request[r].event \in distant \ moved => request[r].ahead
  BY <1>1 DEF RemindInv, KnowsAhead
<1>3. CASE MayRemindCreator(request[r]) /\ GoTo(r, "remind")
  <2>1. /\ request'[r] # NoRequest
        /\ request'[r].stage = "remind"
        /\ request'[r].event = request[r].event
        /\ request'[r].user = request[r].user
        /\ \A q \in Requests \ {r} : request'[q] = request[q]
    <3>1. request' \in [Requests -> RequestStates \cup {NoRequest}] /\ request'[r] \in JoinRequests
      BY <1>1, <1>3, GoToType DEF JoinStages
    <3>. QED
      BY <1>1, <1>3, <3>1, GoToType, RequestAssumption DEF JoinStages, RequestStates
  <2>2. \A e, u : Enqueues(r, e, u) => Enqueues(r, e, u)'
    BY <2>1 DEF Enqueues
  <2>3. KnowsAhead(r)'
    BY <2>1 DEF KnowsAhead
  <2>. QED
    BY <2>1, <2>2, <2>3, ReachFrame
<1>4. CASE MaySkipCreator(request[r]) /\ Reply(r)
  <2>1. /\ request'[r] = NoRequest
        /\ \A q \in Requests \ {r} : request'[q] = request[q]
    BY <1>1, <1>4, ReplyType
  <2>2. request[r].event \notin distant \ moved
    BY <1>2, <1>4 DEF MaySkipCreator
  <2>3. KnowsAhead(r)'
    BY <2>1 DEF KnowsAhead
  <2>4. \A e \in distant' \ moved' : \A u \in participants'[e] : ~ Enqueues(r, e, u)
    BY <2>2 DEF Enqueues
  <2>. QED
    BY <2>1, <2>3, <2>4, ReachFrame
<1>. QED
  BY <1>3, <1>4 DEF AfterTelling

\* The last steps of a join go on, or end where nobody takes part any more or
\* the start is near.
LEMMA ReachTelling ==
  ASSUME RemindInv, NEW r \in Requests, Tell(r) \/ Start(r)
  PROVE  RemindersReach' /\ \A q \in Requests : KnowsAhead(q)'
<1>1. /\ TypeOK
      /\ request[r] # NoRequest /\ request[r].stage \in {"tell", "start"}
      /\ request[r] \in JoinRequests
      /\ UNCHANGED <<distant, moved, participants, reminders, faults>>
  BY RequestType DEF Tell, Start, At, RemindInv, JoinStages, eventVars, historyVars
<1>2. CASE Reply(r)
  <2>1. /\ request'[r] = NoRequest
        /\ \A q \in Requests \ {r} : request'[q] = request[q]
    BY <1>1, <1>2, ReplyType
  <2>2. KnowsAhead(r)'
    BY <2>1 DEF KnowsAhead
  <2>3. request[r].event \notin distant \/ participants[request[r].event] = {}
    <3>1. \/ ~ Exists(request[r].event)
          \/ request[r].event \notin distant
          \/ \E s \in {"start", "remind"} : GoTo(r, s)
      BY DEF Tell, Start
    <3>2. ASSUME NEW s \in {"start", "remind"}, GoTo(r, s) PROVE FALSE
      <4>1. request'[r] \in JoinRequests
        BY <1>1, <3>2, GoToType DEF JoinStages
      <4>. QED
        BY <2>1, <4>1, RequestAssumption DEF RequestStates
    <3>. QED
      BY <1>1, <3>1, <3>2 DEF RemindInv, Cascaded, JoinRequests
  <2>4. \A e \in distant' \ moved' : \A u \in participants'[e] : ~ Enqueues(r, e, u)
    BY <1>1, <2>3 DEF Enqueues
  <2>. QED
    BY <1>1, <2>1, <2>2, <2>4, ReachFrame
<1>3. ASSUME NEW s \in {"start", "remind"}, GoTo(r, s)
      PROVE  RemindersReach' /\ \A q \in Requests : KnowsAhead(q)'
  <2>1. /\ request'[r] \in JoinRequests
        /\ request'[r].stage = s
        /\ request'[r].event = request[r].event
        /\ request'[r].user = request[r].user
        /\ \A q \in Requests \ {r} : request'[q] = request[q]
    BY <1>1, <1>3, GoToType DEF JoinStages
  <2>2. \A e, u : Enqueues(r, e, u) => Enqueues(r, e, u)'
    BY <2>1, RequestAssumption DEF Enqueues, RequestStates
  <2>3. KnowsAhead(r)'
    BY <2>1 DEF KnowsAhead
  <2>. QED
    BY <1>1, <2>1, <2>2, <2>3, ReachFrame
<1>4. Reply(r) \/ \E s \in {"start", "remind"} : GoTo(r, s)
  BY DEF Tell, Start
<1>. QED
  BY <1>2, <1>3, <1>4

LEMMA ReachRemind ==
  ASSUME RemindInv, NEW r \in Requests, Remind(r)
  PROVE  RemindersReach' /\ \A q \in Requests : KnowsAhead(q)'
<1>1. /\ TypeOK
      /\ request[r] # NoRequest /\ request[r].stage = "remind"
      /\ request[r] \in JoinRequests
      /\ UNCHANGED <<distant, moved, participants, faults>>
  BY RequestType DEF Remind, At, RemindInv, JoinStages, eventVars, historyVars
<1>2. /\ request'[r] = NoRequest
      /\ \A q \in Requests \ {r} : request'[q] = request[q]
  BY <1>1, ReplyType DEF Remind
<1>3. KnowsAhead(r)'
  BY <1>2 DEF KnowsAhead
<1>4. ASSUME NEW e \in distant' \ moved', NEW u \in participants'[e]
      PROVE  /\ u \in reminders[e] => u \in reminders'[e]
             /\ Enqueues(r, e, u) => u \in reminders'[e]
  <2>1. e \in Events /\ Exists(e)
    BY <1>1, <1>4 DEF RemindInv, Cascaded, TypeOK
  <2>. QED
    BY <1>1, <2>1 DEF Remind, InsertReminder, Enqueues, TypeOK
<1>. QED
  BY <1>1, <1>2, <1>3, <1>4, ReachFrame

\* Whoever is inserted is reminded by the request that inserted him.
LEMMA ReachJoins ==
  ASSUME RemindInv, NEW r \in Requests, JoinCreator(r) \/ Insert(r)
  PROVE  RemindersReach' /\ \A q \in Requests : KnowsAhead(q)'
<1>1. /\ TypeOK
      /\ request[r] # NoRequest /\ request[r].stage \in {"joinCreator", "insert"}
      /\ request[r] \in JoinRequests
      /\ UNCHANGED <<eventRow, distant, moved, reminders, faults>>
      /\ InsertParticipant(request[r].event, request[r].user)
  BY RequestType DEF JoinCreator, Insert, At, RemindInv, JoinStages, eventVars, historyVars
<1>2. \A e, u : ~ Enqueues(r, e, u)
  BY <1>1 DEF Enqueues
<1>3. CASE Reply(r)
  <2>1. /\ request'[r] = NoRequest
        /\ \A q \in Requests \ {r} : request'[q] = request[q]
    BY <1>1, <1>3, ReplyType
  <2>2. ~ Exists(request[r].event)
    <3>1. ASSUME NEW s \in {"tellAll", "tell"}, GoTo(r, s) PROVE FALSE
      <4>1. request'[r] \in JoinRequests
        BY <1>1, <3>1, GoToType DEF JoinStages
      <4>. QED
        BY <2>1, <4>1, RequestAssumption DEF RequestStates
    <3>. QED
      BY <3>1 DEF JoinCreator, Insert
  <2>3. participants' = participants
    BY <1>1, <2>2 DEF InsertParticipant, TypeOK
  <2>4. KnowsAhead(r)'
    BY <2>1 DEF KnowsAhead
  <2>. QED
    BY <1>1, <1>2, <2>1, <2>3, <2>4, ReachFrame
<1>4. ASSUME NEW s \in {"tellAll", "tell"}, GoTo(r, s),
             s = "tellAll" <=> request[r].stage = "joinCreator"
      PROVE  RemindersReach' /\ \A q \in Requests : KnowsAhead(q)'
  <2>1. /\ request'[r] \in JoinRequests
        /\ request'[r].stage = s
        /\ request'[r].event = request[r].event
        /\ request'[r].user = request[r].user
        /\ request'[r].ahead = request[r].ahead
        /\ \A q \in Requests \ {r} : request'[q] = request[q]
    <3>1. request'[r] = [request[r] EXCEPT !.stage = s]
      BY <1>1, <1>4 DEF GoTo, TypeOK
    <3>. QED
      BY <1>1, <1>4, <3>1, GoToType DEF JoinStages, JoinRequests
  <2>2. \A e \in Events : \A u \in participants'[e] :
          u \in participants[e] \/ Enqueues(r, e, u)'
    BY <1>1, <2>1, RequestAssumption DEF InsertParticipant, Enqueues, RequestStates, TypeOK
  <2>3. KnowsAhead(r)'
    BY <1>1, <1>4, <2>1, RequestAssumption DEF KnowsAhead, RemindInv, RequestStates
  <2>4. distant \subseteq Events
    BY <1>1 DEF TypeOK
  <2>. QED
    BY <1>1, <1>2, <2>1, <2>2, <2>3, <2>4, ReachFrame
<1>5. \/ Reply(r)
      \/ \E s \in {"tellAll", "tell"} :
           GoTo(r, s) /\ (s = "tellAll" <=> request[r].stage = "joinCreator")
  BY DEF JoinCreator, Insert, At
<1>. QED
  BY <1>3, <1>4, <1>5

LEMMA ReachStep ==
  ASSUME RemindInv, [Next]_vars
  PROVE  NoStart' /\ RemindersReach' /\ \A q \in Requests : KnowsAhead(q)'
<1>. DEFINE Reached == NoStart /\ RemindersReach /\ \A q \in Requests : KnowsAhead(q)
<1>. USE DEF vars, eventVars, historyVars
<1>a. TypeOK
  BY DEF RemindInv
<1>b. UNCHANGED <<eventRow, distant>> => NoStart'
  BY DEF RemindInv, NoStart
<1>1. ASSUME NEW r \in Requests, Creating(r)
      PROVE  Reached'
  <2>1. ASSUME NEW u \in Users, CountHour(r, u)
        PROVE  Reached'
    <3>1. [stage |-> "create", user |-> u] \in RequestStates
      BY DEF RequestStates, CreateRequests
    <3>2. /\ request'[r].stage = "create"
          /\ \A q \in Requests \ {r} : request'[q] = request[q]
      BY <1>a, <2>1, <3>1, EnterType DEF CountHour
    <3>. QED
      BY <1>b, <2>1, <3>2, ReachStays DEF CountHour
  <2>2. ASSUME NEW e \in Events, NEW cap \in Capacities, NEW isPrivate \in Privacy,
               NEW ahead \in BOOLEAN, InsertEvent(r, e, cap, isPrivate, ahead)
        PROVE  Reached'
    BY <2>2, ReachInsertEvent
  <2>3. CASE JoinCreator(r)
    BY <1>b, <2>3, ReachJoins DEF JoinCreator
  <2>4. CASE TellAll(r)
    BY <1>b, <2>4, ReachAfterTelling DEF TellAll
  <2>. QED
    BY <1>1, <2>1, <2>2, <2>3, <2>4 DEF Creating
<1>2. ASSUME NEW r \in Requests, Joining(r)
      PROVE  Reached'
  <2>1. ASSUME NEW u \in Users, NEW e \in Events, ReadEvent(r, u, e)
        PROVE  Reached'
    <3>1. /\ request'[r].stage = "access"
          /\ \A q \in Requests \ {r} : request'[q] = request[q]
      BY <1>a, <2>1 DEF ReadEvent, TypeOK
    <3>. QED
      BY <1>b, <2>1, <3>1, ReachStays DEF ReadEvent
  <2>2. ASSUME NEW hasKey \in BOOLEAN, Access(r, hasKey) \/ Count(r)
        PROVE  Reached'
    <3>1. /\ request[r] # NoRequest /\ request[r].stage \in {"access", "count"}
          /\ UNCHANGED <<eventRow, distant, moved, participants, reminders, faults>>
      BY <2>2 DEF Access, Count, At
    <3>2. /\ request'[r] = NoRequest \/ request'[r].stage \in {"insert", "count"}
          /\ \A q \in Requests \ {r} : request'[q] = request[q]
      BY <1>a, <2>2, <3>1, GoToType, ReplyType DEF Access, Count, JoinStages
    <3>. QED
      BY <1>b, <3>1, <3>2, ReachStays
  <2>3. CASE Insert(r)
    BY <1>b, <2>3, ReachJoins DEF Insert
  <2>4. CASE Tell(r) \/ Start(r)
    BY <1>b, <2>4, ReachTelling DEF Tell, Start
  <2>5. CASE Remind(r)
    BY <1>b, <2>5, ReachRemind DEF Remind
  <2>. QED
    BY <1>2, <2>1, <2>2, <2>3, <2>4, <2>5 DEF Joining
<1>3. ASSUME NEW r \in Requests, Updating(r)
      PROVE  Reached'
  <2>1. /\ request[r] = NoRequest \/ request[r].stage = "write"
        /\ request'[r] = NoRequest \/ request'[r].stage = "write"
        /\ \A q \in Requests \ {r} : request'[q] = request[q]
        /\ UNCHANGED <<eventRow, participants, reminders, faults>>
    BY <1>a, <1>3, ReplyType DEF Updating, ReadForUpdate, WriteEvent, WriteRow, At, TypeOK
  <2>2. /\ distant' \ moved' \subseteq distant \ moved
        /\ \A e \in distant' : e \in distant \/ eventRow[e] # "none"
    <3>1. CASE UNCHANGED <<distant, moved>>
      BY <3>1
    <3>2. ASSUME NEW e, Exists(e), NEW start, WriteStart(e, start)
          PROVE  /\ distant' \ moved' \subseteq distant \ moved
                 /\ \A f \in distant' : f \in distant \/ eventRow[f] # "none"
      BY <3>2 DEF WriteStart, Exists
    <3>. QED
      BY <1>3, <3>1, <3>2 DEF Updating, ReadForUpdate, WriteEvent, WriteRow
  <2>3. NoStart'
    BY <2>1, <2>2 DEF RemindInv, NoStart
  <2>4. (\A e, u : ~ Enqueues(r, e, u)) /\ KnowsAhead(r)'
    BY <2>1 DEF Enqueues, KnowsAhead
  <2>. QED
    BY <2>1, <2>2, <2>3, <2>4, ReachFrame
<1>4. ASSUME NEW r \in Requests, RequestEnds(r) \/ ErrorIgnored(r)
      PROVE  Reached'
  <2>1. /\ UNCHANGED <<eventRow, distant, moved, participants, reminders>>
        /\ faults' # 0
    BY <1>4, EventsAssumption DEF RequestEnds, ErrorIgnored, Fault, RemindInv, TypeOK
  <2>2. RemindersReach'
    BY <2>1 DEF RemindersReach
  <2>3. CASE Reply(r)
    <3>1. \A q \in Requests : request'[q] \in {NoRequest, request[q]}
      BY <1>a, <2>3, ReplyType
    <3>2. \A q \in Requests : KnowsAhead(q)'
      BY <2>1, <3>1 DEF RemindInv, KnowsAhead
    <3>. QED
      BY <1>b, <2>1, <2>2, <3>2
  <2>4. ASSUME NEW s \in {"tellAll", "remind", "start"}, GoTo(r, s), request[r] # NoRequest,
               request[r].stage \in JoinStages,
               s = "tellAll" => request[r].stage = "joinCreator"
        PROVE  Reached'
    <3>1. request[r] \in JoinRequests
      BY <1>a, <2>4, RequestType
    <3>2. /\ request'[r] = [request[r] EXCEPT !.stage = s]
          /\ \A q \in Requests \ {r} : request'[q] = request[q]
      BY <1>a, <2>4 DEF GoTo, TypeOK
    <3>3. /\ request'[r].stage = s
          /\ request'[r].event = request[r].event
          /\ request'[r].ahead = request[r].ahead
      BY <3>1, <3>2 DEF JoinRequests
    <3>4. KnowsAhead(r)'
      BY <2>1, <2>4, <3>3 DEF RemindInv, KnowsAhead
    <3>5. \A q \in Requests \ {r} : KnowsAhead(q)'
      BY <2>1, <3>2 DEF RemindInv, KnowsAhead
    <3>. QED
      BY <1>b, <2>1, <2>2, <3>4, <3>5
  <2>5. \/ Reply(r)
        \/ \E s \in {"tellAll", "remind", "start"} :
             /\ GoTo(r, s) /\ request[r] # NoRequest /\ request[r].stage \in JoinStages
             /\ s = "tellAll" => request[r].stage = "joinCreator"
    BY <1>4 DEF RequestEnds, ErrorIgnored, AfterTelling, At, JoinStages
  <2>. QED
    BY <2>3, <2>4, <2>5
<1>5. ASSUME NEW e \in Events,
             \/ \E u \in Users : LeaveEvent(u, e)
             \/ \E isHidden \in BOOLEAN : HideEvent(e, isHidden)
             \/ DeleteEvent(e)
             \/ AnHourPasses(e)
             \/ StartNears(e)
      PROVE  Reached'
  <2>1. /\ UNCHANGED <<request, moved, faults>>
        /\ distant' \subseteq distant
        /\ \A f \in Events : eventRow'[f] = "none" => eventRow[f] = "none"
    BY <1>a, <1>5 DEF LeaveEvent, HideEvent, DeleteEvent, AnHourPasses, StartNears, TypeOK
  <2>2. \A f \in Events : \A u \in participants'[f] :
          u \in participants[f] /\ (u \in reminders[f] => u \in reminders'[f])
    BY <1>a, <1>5 DEF LeaveEvent, HideEvent, DeleteEvent, AnHourPasses, StartNears, TypeOK
  <2>3. distant \subseteq Events
    BY <1>a DEF TypeOK
  <2>4. NoStart'
    BY <2>1, <2>3 DEF RemindInv, NoStart
  <2>5. RemindersReach'
    BY <2>1, <2>2, <2>3 DEF RemindInv, RemindersReach
  <2>6. \A q \in Requests : KnowsAhead(q)'
    BY <2>1 DEF RemindInv, KnowsAhead
  <2>. QED
    BY <2>4, <2>5, <2>6
<1>6. CASE UNCHANGED vars
  BY <1>6 DEF RemindInv, NoStart, RemindersReach, KnowsAhead
<1>. QED
  BY <1>1, <1>2, <1>3, <1>4, <1>5, <1>6 DEF Next

\* Without faults nobody who takes part in an event far ahead misses the
\* reminder, whatever is joined, left, updated and deleted meanwhile.
THEOREM Reminded == Spec => []RemindersReach
<1>1. Init => RemindInv
  BY EventsAssumption
     DEF Init, RemindInv, TypeOK, Known, Cascaded, NoStart, RemindersReach, KnowsAhead
<1>2. RemindInv /\ [Next]_vars => RemindInv'
  BY TypeStep, KnownStep, CascadedStep, ReachStep DEF RemindInv
<1>3. RemindInv => RemindersReach
  BY DEF RemindInv
<1>. QED
  BY <1>1, <1>2, <1>3, PTL DEF Spec
=============================================================================
