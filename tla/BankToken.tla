----------------------------- MODULE BankToken -----------------------------
(***************************************************************************)
(* The access token of the bank (integrations/tochka): TokenManager keeps  *)
(* one token behind a mutex, which it holds while it asks for a new one;   *)
(* every call of Client takes the token from it and presents it to the     *)
(* bank.  A call the bank turns away is not repeated with another token.   *)
(*                                                                         *)
(* Time is a counter.  A token is the time the bank lets it expire.        *)
(***************************************************************************)
EXTENDS Naturals

CONSTANTS
  Callers,         \* requests that may be at the bank at the same time
  Skew,            \* refreshSkew, 30 seconds in the code
  MaxDelay,        \* how long an exchange with the bank takes at most
  Lifetimes,       \* how long the bank may let a token live
  DefaultLifetime, \* what is assumed when expires_in is missing, 300 seconds
  MaxTime,         \* bound on the clock
  NoToken,         \* the empty cachedToken
  NoCaller         \* the mutex is free

\* Without expires_in a token lives, and is believed to live, DefaultLifetime.
Lives == Lifetimes \cup {DefaultLifetime}

\* A token outlives the exchange that brings it and the one that uses it, and
\* the margin covers both.
ASSUME TokenAssumption ==
  /\ Skew \in Nat /\ MaxDelay \in Nat /\ MaxTime \in Nat
  /\ DefaultLifetime \in Nat
  /\ Lifetimes \subseteq Nat
  /\ \A life \in Lives : 2 * MaxDelay < life
  /\ 2 * MaxDelay <= Skew
  /\ NoToken \notin Nat
  /\ NoCaller \notin Callers

VARIABLES
  clock,
  mutex,        \* who holds tm.mu
  cachedToken,  \* the time the bank lets the cached token expire
  cachedExpiry, \* the time it is believed to expire
  phase,        \* what each caller is doing
  since,        \* since when
  bearer,       \* the token it was issued, or presents
  expiresIn     \* the lifetime the bank has told it

tokenVars ==
  <<clock, mutex, cachedToken, cachedExpiry, phase, since, bearer, expiresIn>>

Phases == {"idle", "wait", "ask", "issued", "present"}

TokenTypeOK ==
  /\ clock \in Nat
  /\ mutex \in Callers \cup {NoCaller}
  /\ cachedToken \in Nat \cup {NoToken}
  /\ cachedExpiry \in Nat
  /\ phase \in [Callers -> Phases]
  /\ since \in [Callers -> Nat]
  /\ bearer \in [Callers -> Nat]
  /\ expiresIn \in [Callers -> Nat]

TokenInit ==
  /\ clock = 0
  /\ mutex = NoCaller
  /\ cachedToken = NoToken
  /\ cachedExpiry = 0
  /\ phase = [c \in Callers |-> "idle"]
  /\ since = [c \in Callers |-> 0]
  /\ bearer = [c \in Callers |-> 0]
  /\ expiresIn = [c \in Callers |-> 0]

\* An exchange begins now; what the call held before is not looked at again.
Begins(c, next, token) ==
  /\ phase' = [phase EXCEPT ![c] = next]
  /\ since' = [since EXCEPT ![c] = clock]
  /\ bearer' = [bearer EXCEPT ![c] = token]
  /\ expiresIn' = [expiresIn EXCEPT ![c] = 0]

Ends(c) ==
  /\ phase' = [phase EXCEPT ![c] = "idle"]
  /\ since' = [since EXCEPT ![c] = 0]
  /\ bearer' = [bearer EXCEPT ![c] = 0]
  /\ expiresIn' = [expiresIn EXCEPT ![c] = 0]

\* Client.do, up to the mutex.
CallBank(c) ==
  /\ phase[c] = "idle"
  /\ phase' = [phase EXCEPT ![c] = "wait"]
  /\ UNCHANGED <<clock, mutex, cachedToken, cachedExpiry, since, bearer, expiresIn>>

\* Mutant: the margin is forgotten.
UsableWithoutSkew == cachedToken # NoToken /\ clock < cachedExpiry

\* now.Before(cachedExpiry.Add(-refreshSkew))
Usable == cachedToken # NoToken /\ clock + Skew < cachedExpiry

\* AccessToken has the mutex and serves the cached token.
ServeCached(c) ==
  /\ phase[c] = "wait" /\ mutex = NoCaller
  /\ Usable
  /\ Begins(c, "present", cachedToken)
  /\ UNCHANGED <<clock, mutex, cachedToken, cachedExpiry>>

\* refreshLocked keeps the mutex and asks the bank.
Refresh(c) ==
  /\ phase[c] = "wait" /\ mutex = NoCaller
  /\ ~ Usable
  /\ mutex' = c
  /\ Begins(c, "ask", 0)
  /\ UNCHANGED <<clock, cachedToken, cachedExpiry>>

\* External: the bank issues a token, some time before the answer arrives.
Issue(c) ==
  /\ phase[c] = "ask"
  /\ \E life \in Lives :
       /\ bearer' = [bearer EXCEPT ![c] = clock + life]
       /\ expiresIn' = [expiresIn EXCEPT ![c] = life]
  /\ phase' = [phase EXCEPT ![c] = "issued"]
  /\ UNCHANGED <<clock, mutex, cachedToken, cachedExpiry, since>>

\* The answer; its expires_in counts from its arrival.
Receive(c) ==
  /\ phase[c] = "issued"
  /\ cachedToken' = bearer[c]
  /\ cachedExpiry' = clock + expiresIn[c]
  /\ mutex' = NoCaller
  /\ Begins(c, "present", bearer[c])
  /\ UNCHANGED clock

\* No answer in time, or not one with a token: the cache stays as it is.
RefreshFails(c) ==
  /\ phase[c] \in {"ask", "issued"}
  /\ mutex' = NoCaller
  /\ Ends(c)
  /\ UNCHANGED <<clock, cachedToken, cachedExpiry>>

\* The call itself reaches the bank, or fails on its way.
Present(c) ==
  /\ phase[c] = "present"
  /\ Ends(c)
  /\ UNCHANGED <<clock, mutex, cachedToken, cachedExpiry>>

\* The deadline of a request ends each exchange after MaxDelay.
Tick ==
  /\ clock < MaxTime
  /\ \A c \in Callers :
       phase[c] \in {"ask", "issued", "present"} => clock < since[c] + MaxDelay
  /\ clock' = clock + 1
  /\ UNCHANGED <<mutex, cachedToken, cachedExpiry, phase, since, bearer, expiresIn>>

TokenNext ==
  \/ \E c \in Callers :
       \/ CallBank(c) \/ ServeCached(c) \/ Refresh(c)
       \/ Issue(c) \/ Receive(c) \/ RefreshFails(c) \/ Present(c)
  \/ Tick

TokenSpec == TokenInit /\ [][TokenNext]_tokenVars

(***************************************************************************)
(* Properties.                                                             *)
(***************************************************************************)
\* No call presents a token that the bank has let expire, however long it has
\* been on its way and however late the answer with the token came: the margin
\* refreshSkew of AccessToken covers both exchanges.
HeldTokenValid ==
  \A c \in Callers : phase[c] = "present" => clock < bearer[c]
=============================================================================
