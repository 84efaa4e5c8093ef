---------------------------- MODULE RateLimiter ----------------------------
(***************************************************************************)
(* The limiter of joins and leaves (internal/rate/limiter.go): per user    *)
(* and window at most so many calls of Allow, kept in the memory of the    *)
(* API.  Allow reads the clock before it waits for the mutex, so a call    *)
(* may come with a time that others have left behind.                      *)
(***************************************************************************)
EXTENDS Naturals, FiniteSets

CONSTANTS
  Keys,      \* the users
  Calls,     \* calls of Allow that may wait at the same time
  Limit,     \* 10 in the code
  Window,    \* window and cleanupInterval, a minute in the code
  MaxLag,    \* how long a call waits for the mutex at most
  LastTime,  \* bound on the clock
  NoCall     \* a free slot of Calls

ASSUME LimiterAssumption ==
  /\ Limit \in Nat \ {0} /\ Window \in Nat \ {0}
  /\ MaxLag \in Nat /\ MaxLag < Window
  /\ LastTime \in Nat

VARIABLES
  time,
  items,       \* the entry of each key
  lastCleanup,
  waiting,     \* the key of each call and the time it has read
  allowed      \* history: how many calls of a key were let through when

limiterVars == <<time, items, lastCleanup, waiting, allowed>>

Entries == [start : 0..LastTime, count : 1..Limit]

LimiterTypeOK ==
  /\ time \in 0..LastTime
  /\ DOMAIN items \subseteq Keys /\ items \in [DOMAIN items -> Entries]
  /\ lastCleanup \in 0..LastTime
  /\ waiting \in [Calls -> [key : Keys, now : 0..LastTime] \cup {NoCall}]
  /\ allowed \in [Keys -> [0..LastTime -> Nat]]

LimiterInit ==
  /\ time = 0
  /\ items = << >>
  /\ lastCleanup = 0
  /\ waiting = [c \in Calls |-> NoCall]
  /\ allowed = [k \in Keys |-> [t \in 0..LastTime |-> 0]]

\* time.Now(), before the mutex.
Arrive(c, k) ==
  /\ waiting[c] = NoCall
  /\ waiting' = [waiting EXCEPT ![c] = [key |-> k, now |-> time]]
  /\ UNCHANGED <<time, items, lastCleanup, allowed>>

\* Mutant: a window given without its unit.
ExpiredAtOnce(k, now) == now > items[k].start

\* A subtraction of times that are out of order is negative.
Expired(k, now) == now >= items[k].start + Window

MayClean(now) == now >= lastCleanup + Window

\* maybeCleanup: the keys whose entries stay.
Cleaned(now) ==
  DOMAIN items \ {k \in DOMAIN items : MayClean(now) /\ Expired(k, now)}

\* The keys whose window goes on.
Running(now) == {k \in Cleaned(now) : ~ Expired(k, now)}

Count(k, now, entry) ==
  items' = [j \in Cleaned(now) \cup {k} |-> IF j = k THEN entry ELSE items[j]]

LetThrough(k) == allowed' = [allowed EXCEPT ![k][time] = @ + 1]

\* Allow under the mutex.
Allow(c) ==
  /\ waiting[c] # NoCall
  /\ LET k == waiting[c].key
         now == waiting[c].now
     IN  /\ lastCleanup' = IF MayClean(now) THEN now ELSE lastCleanup
         /\ \/ /\ k \notin Running(now)
               /\ Count(k, now, [start |-> now, count |-> 1])
               /\ LetThrough(k)
            \/ /\ k \in Running(now) /\ items[k].count < Limit
               /\ Count(k, now, [items[k] EXCEPT !.count = @ + 1])
               /\ LetThrough(k)
            \/ /\ k \in Running(now) /\ items[k].count >= Limit
               /\ Count(k, now, items[k])
               /\ UNCHANGED allowed
  /\ waiting' = [waiting EXCEPT ![c] = NoCall]
  /\ UNCHANGED time

TimePasses ==
  /\ time < LastTime
  /\ \A c \in Calls : waiting[c] # NoCall => time < waiting[c].now + MaxLag
  /\ time' = time + 1
  /\ UNCHANGED <<items, lastCleanup, waiting, allowed>>

LimiterNext ==
  \/ \E c \in Calls : Allow(c) \/ \E k \in Keys : Arrive(c, k)
  \/ TimePasses

LimiterSpec == LimiterInit /\ [][LimiterNext]_limiterVars

(***************************************************************************)
(* Properties.                                                             *)
(***************************************************************************)
\* The calls of a key that were let through, by the time and their number.
Passed(k) == UNION {{u} \X (1..allowed[k][u]) : u \in 0..LastTime}

WithinFrom(passed, t) == {x \in passed : t <= x[1] /\ x[1] + MaxLag < t + Window}

\* The windows of a key are not aligned with one another, entries are erased
\* by calls of other keys, and calls come out of order; and yet a key never
\* has more than twice the limit within a window less the longest wait.
TwiceTheLimit ==
  \A k \in Keys, t \in 0..time :
    Cardinality(WithinFrom(Passed(k), t)) <= 2 * Limit
=============================================================================
