----------------------------- MODULE DeskProofs -----------------------------
(***************************************************************************)
(* The theorems about the small components of the API, which share no      *)
(* state with one another: the bank token, the tokens of devices, the      *)
(* limiter, the row locks of the shop, the logins, the wallet and the      *)
(* chat of the administrators.                                             *)
(***************************************************************************)
EXTENDS MCDesk, Counting

-----------------------------------------------------------------------------
(***************************************************************************)
(* The bank token: no call presents an expired one, for any number of      *)
(* callers, any lifetimes and any delays that TokenAssumption allows.      *)
(***************************************************************************)
\* What is believed of the cached token is too late by one exchange at most.
CacheInv == cachedToken # NoToken => cachedExpiry <= cachedToken + MaxDelay

\* The exchange of c with the bank has not passed its deadline.
ExchangeInv(c) ==
  phase[c] \in {"ask", "issued", "present"} =>
    since[c] <= clock /\ clock <= since[c] + MaxDelay

\* A token on its way lives from some moment after it was asked for.
IssuedInv(c) ==
  phase[c] = "issued" =>
    expiresIn[c] \in Lives /\ since[c] + expiresIn[c] <= bearer[c]

\* A token that is presented outlives the exchange that presents it.
PresentInv(c) == phase[c] = "present" => since[c] + MaxDelay < bearer[c]

CallerInv(c) == ExchangeInv(c) /\ IssuedInv(c) /\ PresentInv(c)

TokenInv == TokenTypeOK /\ CacheInv /\ \A c \in Callers : CallerInv(c)

LEMMA LivesAreTimes ==
  ASSUME NEW life \in Lives
  PROVE  life \in Nat /\ 2 * MaxDelay < life
BY TokenAssumption DEF Lives

LEMMA TokenInitial == TokenInit => TokenInv
<1>1. SUFFICES ASSUME TokenInit PROVE TokenInv
  OBVIOUS
<1>2. TokenTypeOK
  BY <1>1 DEF TokenInit, TokenTypeOK, Phases
<1>3. CacheInv
  BY <1>1 DEF TokenInit, CacheInv
<1>4. ASSUME NEW c \in Callers PROVE CallerInv(c)
  BY <1>1, <1>4 DEF TokenInit, CallerInv, ExchangeInv, IssuedInv, PresentInv
<1>. QED
  BY <1>2, <1>3, <1>4 DEF TokenInv

\* A step of one caller leaves the others as they were.
LEMMA OthersKeep ==
  ASSUME TokenInv, UNCHANGED clock, NEW c \in Callers,
         NEW d \in Callers, d # c,
         phase'[d] = phase[d], since'[d] = since[d],
         bearer'[d] = bearer[d], expiresIn'[d] = expiresIn[d]
  PROVE  CallerInv(d)'
BY DEF TokenInv, CallerInv, ExchangeInv, IssuedInv, PresentInv

\* An exchange begins with a token that outlives it, or with none.
LEMMA BeginsKeeps ==
  ASSUME TokenInv, UNCHANGED clock, NEW c \in Callers,
         NEW next \in {"ask", "present"}, NEW token \in Nat,
         next = "present" => clock + MaxDelay < token,
         Begins(c, next, token)
  PROVE  /\ phase' \in [Callers -> Phases]
         /\ since' \in [Callers -> Nat]
         /\ bearer' \in [Callers -> Nat]
         /\ expiresIn' \in [Callers -> Nat]
         /\ \A d \in Callers : CallerInv(d)'
<1>1. TokenTypeOK
  BY DEF TokenInv
<1>2. /\ phase' \in [Callers -> Phases]
      /\ since' \in [Callers -> Nat]
      /\ bearer' \in [Callers -> Nat]
      /\ expiresIn' \in [Callers -> Nat]
  BY <1>1 DEF TokenTypeOK, Begins, Phases
<1>3. CallerInv(c)'
  <2>1. phase'[c] = next /\ since'[c] = clock /\ bearer'[c] = token
    BY <1>1 DEF TokenTypeOK, Begins
  <2>2. clock \in Nat /\ MaxDelay \in Nat
    BY <1>1, TokenAssumption DEF TokenTypeOK
  <2>. QED
    BY <2>1, <2>2 DEF CallerInv, ExchangeInv, IssuedInv, PresentInv
<1>4. ASSUME NEW d \in Callers, d # c PROVE CallerInv(d)'
  <2>1. /\ phase'[d] = phase[d] /\ since'[d] = since[d]
        /\ bearer'[d] = bearer[d] /\ expiresIn'[d] = expiresIn[d]
    BY <1>1, <1>4 DEF TokenTypeOK, Begins
  <2>. QED
    BY <1>4, <2>1, OthersKeep
<1>. QED
  BY <1>2, <1>3, <1>4

\* An exchange that is over has nothing left to keep.
LEMMA EndsKeeps ==
  ASSUME TokenInv, UNCHANGED clock, NEW c \in Callers, Ends(c)
  PROVE  /\ phase' \in [Callers -> Phases]
         /\ since' \in [Callers -> Nat]
         /\ bearer' \in [Callers -> Nat]
         /\ expiresIn' \in [Callers -> Nat]
         /\ \A d \in Callers : CallerInv(d)'
<1>1. TokenTypeOK
  BY DEF TokenInv
<1>2. /\ phase' \in [Callers -> Phases]
      /\ since' \in [Callers -> Nat]
      /\ bearer' \in [Callers -> Nat]
      /\ expiresIn' \in [Callers -> Nat]
  BY <1>1 DEF TokenTypeOK, Ends, Phases
<1>3. CallerInv(c)'
  <2>1. phase'[c] = "idle"
    BY <1>1 DEF TokenTypeOK, Ends
  <2>. QED
    BY <2>1 DEF CallerInv, ExchangeInv, IssuedInv, PresentInv
<1>4. ASSUME NEW d \in Callers, d # c PROVE CallerInv(d)'
  <2>1. /\ phase'[d] = phase[d] /\ since'[d] = since[d]
        /\ bearer'[d] = bearer[d] /\ expiresIn'[d] = expiresIn[d]
    BY <1>1, <1>4 DEF TokenTypeOK, Ends
  <2>. QED
    BY <1>4, <2>1, OthersKeep
<1>. QED
  BY <1>2, <1>3, <1>4

LEMMA CallBankKeeps ==
  ASSUME TokenInv, NEW c \in Callers, CallBank(c)
  PROVE  TokenInv'
<1>1. TokenTypeOK /\ CacheInv
  BY DEF TokenInv
<1>2. TokenTypeOK'
  BY <1>1 DEF TokenTypeOK, CallBank, Phases
<1>3. CacheInv'
  BY <1>1 DEF CacheInv, CallBank
<1>4. CallerInv(c)'
  <2>1. phase'[c] = "wait"
    BY <1>1 DEF TokenTypeOK, CallBank
  <2>. QED
    BY <2>1 DEF CallerInv, ExchangeInv, IssuedInv, PresentInv
<1>5. ASSUME NEW d \in Callers, d # c PROVE CallerInv(d)'
  <2>1. phase'[d] = phase[d]
    BY <1>1, <1>5 DEF TokenTypeOK, CallBank
  <2>. QED
    BY <1>5, <2>1, OthersKeep DEF CallBank
<1>. QED
  BY <1>2, <1>3, <1>4, <1>5 DEF TokenInv

\* The margin covers the exchange that brought the cached token and the one
\* that presents it.
LEMMA ServeCachedKeeps ==
  ASSUME TokenInv, NEW c \in Callers, ServeCached(c)
  PROVE  TokenInv'
<1>1. TokenTypeOK /\ CacheInv
  BY DEF TokenInv
<1>2. cachedToken \in Nat
  BY <1>1 DEF TokenTypeOK, ServeCached, Usable
<1>3. clock + MaxDelay < cachedToken
  <2>1. clock + Skew < cachedExpiry /\ cachedExpiry <= cachedToken + MaxDelay
    BY <1>1 DEF ServeCached, Usable, CacheInv
  <2>2. /\ clock \in Nat /\ cachedExpiry \in Nat /\ Skew \in Nat /\ MaxDelay \in Nat
        /\ 2 * MaxDelay <= Skew
    BY <1>1, TokenAssumption DEF TokenTypeOK
  <2>. QED
    BY <1>2, <2>1, <2>2
<1>4. /\ phase' \in [Callers -> Phases]
      /\ since' \in [Callers -> Nat]
      /\ bearer' \in [Callers -> Nat]
      /\ expiresIn' \in [Callers -> Nat]
      /\ \A d \in Callers : CallerInv(d)'
  BY <1>2, <1>3, BeginsKeeps DEF ServeCached
<1>5. TokenTypeOK' /\ CacheInv'
  BY <1>1, <1>4 DEF ServeCached, TokenTypeOK, CacheInv
<1>. QED
  BY <1>4, <1>5 DEF TokenInv

LEMMA RefreshKeeps ==
  ASSUME TokenInv, NEW c \in Callers, Refresh(c)
  PROVE  TokenInv'
<1>1. TokenTypeOK /\ CacheInv
  BY DEF TokenInv
<1>2. /\ phase' \in [Callers -> Phases]
      /\ since' \in [Callers -> Nat]
      /\ bearer' \in [Callers -> Nat]
      /\ expiresIn' \in [Callers -> Nat]
      /\ \A d \in Callers : CallerInv(d)'
  BY BeginsKeeps DEF Refresh
<1>3. TokenTypeOK' /\ CacheInv'
  BY <1>1, <1>2 DEF Refresh, TokenTypeOK, CacheInv
<1>. QED
  BY <1>2, <1>3 DEF TokenInv

LEMMA IssueKeeps ==
  ASSUME TokenInv, NEW c \in Callers, Issue(c)
  PROVE  TokenInv'
<1>1. TokenTypeOK /\ CacheInv /\ CallerInv(c)
  BY DEF TokenInv
<1>2. PICK life \in Lives : /\ bearer' = [bearer EXCEPT ![c] = clock + life]
                            /\ expiresIn' = [expiresIn EXCEPT ![c] = life]
  BY DEF Issue
<1>3. life \in Nat
  BY LivesAreTimes
<1>4. TokenTypeOK'
  BY <1>1, <1>2, <1>3 DEF TokenTypeOK, Issue, Phases
<1>5. CacheInv'
  BY <1>1 DEF CacheInv, Issue
<1>6. CallerInv(c)'
  <2>1. /\ phase'[c] = "issued" /\ since'[c] = since[c]
        /\ bearer'[c] = clock + life /\ expiresIn'[c] = life
    BY <1>1, <1>2 DEF TokenTypeOK, Issue
  <2>2. since[c] <= clock /\ clock <= since[c] + MaxDelay
    BY <1>1 DEF CallerInv, ExchangeInv, Issue
  <2>3. clock \in Nat /\ since[c] \in Nat
    BY <1>1 DEF TokenTypeOK
  <2>4. ExchangeInv(c)'
    BY <2>1, <2>2 DEF ExchangeInv, Issue
  <2>5. IssuedInv(c)'
    BY <1>3, <2>1, <2>2, <2>3 DEF IssuedInv
  <2>6. PresentInv(c)'
    BY <2>1 DEF PresentInv
  <2>. QED
    BY <2>4, <2>5, <2>6 DEF CallerInv
<1>7. ASSUME NEW d \in Callers, d # c PROVE CallerInv(d)'
  <2>1. /\ phase'[d] = phase[d] /\ since'[d] = since[d]
        /\ bearer'[d] = bearer[d] /\ expiresIn'[d] = expiresIn[d]
    BY <1>1, <1>2, <1>7 DEF TokenTypeOK, Issue
  <2>. QED
    BY <1>7, <2>1, OthersKeep DEF Issue
<1>. QED
  BY <1>4, <1>5, <1>6, <1>7 DEF TokenInv

\* The answer is late by one exchange at most, and a token outlives two.
LEMMA ReceiveKeeps ==
  ASSUME TokenInv, NEW c \in Callers, Receive(c)
  PROVE  TokenInv'
<1>1. TokenTypeOK /\ CallerInv(c)
  BY DEF TokenInv
<1>2. /\ since[c] <= clock /\ clock <= since[c] + MaxDelay
      /\ expiresIn[c] \in Lives /\ since[c] + expiresIn[c] <= bearer[c]
  BY <1>1 DEF CallerInv, ExchangeInv, IssuedInv, Receive
<1>3. /\ clock \in Nat /\ since[c] \in Nat /\ bearer[c] \in Nat /\ MaxDelay \in Nat
      /\ expiresIn[c] \in Nat /\ 2 * MaxDelay < expiresIn[c]
  BY <1>1, <1>2, LivesAreTimes, TokenAssumption DEF TokenTypeOK
<1>4. clock + MaxDelay < bearer[c]
  BY <1>2, <1>3
<1>5. /\ phase' \in [Callers -> Phases]
      /\ since' \in [Callers -> Nat]
      /\ bearer' \in [Callers -> Nat]
      /\ expiresIn' \in [Callers -> Nat]
      /\ \A d \in Callers : CallerInv(d)'
  BY <1>3, <1>4, BeginsKeeps DEF Receive
<1>6. TokenTypeOK'
  BY <1>1, <1>3, <1>5 DEF Receive, TokenTypeOK
<1>7. CacheInv'
  <2>1. clock + expiresIn[c] <= bearer[c] + MaxDelay
    BY <1>2, <1>3
  <2>. QED
    BY <2>1 DEF CacheInv, Receive
<1>. QED
  BY <1>5, <1>6, <1>7 DEF TokenInv

LEMMA EndingKeeps ==
  ASSUME TokenInv, NEW c \in Callers, RefreshFails(c) \/ Present(c)
  PROVE  TokenInv'
<1>1. TokenTypeOK /\ CacheInv
  BY DEF TokenInv
<1>2. Ends(c) /\ UNCHANGED <<clock, cachedToken, cachedExpiry>>
  BY DEF RefreshFails, Present
<1>3. mutex' \in Callers \cup {NoCaller}
  BY <1>1 DEF RefreshFails, Present, TokenTypeOK
<1>4. /\ phase' \in [Callers -> Phases]
      /\ since' \in [Callers -> Nat]
      /\ bearer' \in [Callers -> Nat]
      /\ expiresIn' \in [Callers -> Nat]
      /\ \A d \in Callers : CallerInv(d)'
  BY <1>2, EndsKeeps
<1>5. TokenTypeOK' /\ CacheInv'
  BY <1>1, <1>2, <1>3, <1>4 DEF TokenTypeOK, CacheInv
<1>. QED
  BY <1>4, <1>5 DEF TokenInv

\* Time passes up to the first deadline only.
LEMMA TickKeeps ==
  ASSUME TokenInv, Tick
  PROVE  TokenInv'
<1>1. TokenTypeOK /\ CacheInv
  BY DEF TokenInv
<1>2. TokenTypeOK' /\ CacheInv'
  BY <1>1 DEF Tick, TokenTypeOK, CacheInv
<1>3. ASSUME NEW c \in Callers PROVE CallerInv(c)'
  <2>1. CallerInv(c)
    BY DEF TokenInv
  <2>2. clock \in Nat /\ since[c] \in Nat /\ MaxDelay \in Nat
    BY <1>1, TokenAssumption DEF TokenTypeOK
  <2>3. ExchangeInv(c)'
    BY <2>1, <2>2 DEF Tick, CallerInv, ExchangeInv
  <2>4. IssuedInv(c)' /\ PresentInv(c)'
    BY <2>1 DEF Tick, CallerInv, IssuedInv, PresentInv
  <2>. QED
    BY <2>3, <2>4 DEF CallerInv
<1>. QED
  BY <1>2, <1>3 DEF TokenInv

LEMMA TokenStep == TokenInv /\ [TokenNext]_tokenVars => TokenInv'
<1>1. SUFFICES ASSUME TokenInv, [TokenNext]_tokenVars PROVE TokenInv'
  OBVIOUS
<1>2. ASSUME NEW c \in Callers, CallBank(c) PROVE TokenInv'
  BY <1>1, <1>2, CallBankKeeps
<1>3. ASSUME NEW c \in Callers, ServeCached(c) PROVE TokenInv'
  BY <1>1, <1>3, ServeCachedKeeps
<1>4. ASSUME NEW c \in Callers, Refresh(c) PROVE TokenInv'
  BY <1>1, <1>4, RefreshKeeps
<1>5. ASSUME NEW c \in Callers, Issue(c) PROVE TokenInv'
  BY <1>1, <1>5, IssueKeeps
<1>6. ASSUME NEW c \in Callers, Receive(c) PROVE TokenInv'
  BY <1>1, <1>6, ReceiveKeeps
<1>7. ASSUME NEW c \in Callers, RefreshFails(c) \/ Present(c) PROVE TokenInv'
  BY <1>1, <1>7, EndingKeeps
<1>8. CASE Tick
  BY <1>1, <1>8, TickKeeps
<1>9. CASE UNCHANGED tokenVars
  BY <1>1, <1>9 DEF tokenVars, TokenInv, TokenTypeOK, CacheInv, CallerInv,
                    ExchangeInv, IssuedInv, PresentInv
<1>. QED
  BY <1>1, <1>2, <1>3, <1>4, <1>5, <1>6, <1>7, <1>8, <1>9 DEF TokenNext

\* The deadline of the exchange comes before the end of the token.
LEMMA TokenConclusion == TokenInv => HeldTokenValid
<1>1. SUFFICES ASSUME TokenInv, NEW c \in Callers, phase[c] = "present"
               PROVE  clock < bearer[c]
  BY DEF HeldTokenValid
<1>2. /\ clock <= since[c] + MaxDelay
      /\ since[c] + MaxDelay < bearer[c]
  BY <1>1 DEF TokenInv, CallerInv, ExchangeInv, PresentInv
<1>3. clock \in Nat /\ since[c] \in Nat /\ bearer[c] \in Nat /\ MaxDelay \in Nat
  BY <1>1, TokenAssumption DEF TokenInv, TokenTypeOK
<1>. QED
  BY <1>2, <1>3

\* However many calls share the token of AccessToken, and whatever lifetimes
\* the bank gives it, none of them presents a token the bank has let expire.
THEOREM HeldTokenTheorem == TokenSpec => []HeldTokenValid
<1>1. TokenInit => TokenInv
  BY TokenInitial
<1>2. TokenInv /\ [TokenNext]_tokenVars => TokenInv'
  BY TokenStep
<1>3. TokenInv => HeldTokenValid
  BY TokenConclusion
<1>. QED
  BY <1>1, <1>2, <1>3, PTL DEF TokenSpec

-----------------------------------------------------------------------------
(***************************************************************************)
(* The tokens of devices: a device keeps one active token, for any users,  *)
(* devices, tokens and requests.  The statement is inductive with the types *)
(* and the finiteness of the two sets it counts: each request that adds a  *)
(* token to a device is one that has still to retire the others.           *)
(***************************************************************************)
Homes == [owner : Owners, device : Devices]

RegistrarTypes ==
  [at : {"ease"}] \cup [at : {"upsert", "retire"}, key : PushKeys, place : Places]

CountInv(place) ==
  /\ IsFiniteSet(ActiveAt(place)) /\ IsFiniteSet(Retiring(place))
  /\ ~ retireLost => Cardinality(ActiveAt(place)) <= 1 + Cardinality(Retiring(place))

PushInv ==
  /\ registrar \in [Registrars -> RegistrarTypes]
  /\ retireLost \in BOOLEAN
  /\ \A k \in DOMAIN pushToken : pushToken[k] \in [place : Places, isActive : BOOLEAN]
  /\ \A place \in Homes : CountInv(place)

\* One more on both sides, or fewer on the left, keep the count.
LEMMA BothGrow ==
  ASSUME NEW A, NEW B, NEW R, NEW S, NEW k, NEW r,
         IsFiniteSet(A), IsFiniteSet(R),
         Cardinality(A) <= 1 + Cardinality(R),
         B \subseteq A \cup {k}, S = R \cup {r}, r \notin R
  PROVE  /\ IsFiniteSet(B) /\ IsFiniteSet(S)
         /\ Cardinality(B) <= 1 + Cardinality(S)
<1>1. /\ IsFiniteSet(A \cup {k})
      /\ Cardinality(A \cup {k}) = Cardinality(A) \/ Cardinality(A \cup {k}) = Cardinality(A) + 1
  BY FS_AddElement
<1>2. IsFiniteSet(B) /\ Cardinality(B) <= Cardinality(A \cup {k})
  BY <1>1, FS_Subset
<1>3. IsFiniteSet(S) /\ Cardinality(S) = Cardinality(R) + 1
  BY FS_AddElement
<1>4. /\ Cardinality(A) \in Nat /\ Cardinality(B) \in Nat
      /\ Cardinality(R) \in Nat /\ Cardinality(S) \in Nat
  BY <1>2, <1>3, FS_CardinalityType
<1>. QED
  BY <1>1, <1>2, <1>3, <1>4

LEMMA Shrinks ==
  ASSUME NEW A, NEW B, NEW R, IsFiniteSet(A), IsFiniteSet(R), B \subseteq A,
         Cardinality(A) <= 1 + Cardinality(R)
  PROVE  IsFiniteSet(B) /\ Cardinality(B) <= 1 + Cardinality(R)
<1>1. IsFiniteSet(B) /\ Cardinality(B) <= Cardinality(A)
  BY FS_Subset
<1>2. Cardinality(A) \in Nat /\ Cardinality(B) \in Nat /\ Cardinality(R) \in Nat
  BY <1>1, FS_CardinalityType
<1>. QED
  BY <1>1, <1>2

LEMMA PushInitial == PushInit => PushInv
<1>1. SUFFICES ASSUME PushInit PROVE PushInv
  OBVIOUS
<1>2. registrar \in [Registrars -> RegistrarTypes] /\ retireLost \in BOOLEAN
  BY <1>1 DEF PushInit, RegistrarTypes, AtEase
<1>4. DOMAIN pushToken = {}
  BY <1>1 DEF PushInit
<1>3. ASSUME NEW place \in Homes PROVE CountInv(place)
  <2>2. ActiveAt(place) = {}
    BY <1>4 DEF ActiveAt
  <2>3. Retiring(place) = {}
    BY <1>1 DEF PushInit, Retiring, AtEase
  <2>. QED
    BY <2>2, <2>3, FS_EmptySet DEF CountInv
<1>. QED
  BY <1>2, <1>3, <1>4 DEF PushInv

LEMMA UpsertPushTokenKeeps ==
  ASSUME PushInv, NEW r \in Registrars, NEW key \in PushKeys, NEW place \in Places,
         UpsertPushToken(r, key, place)
  PROVE  PushInv'
<1>1. /\ registrar' = [registrar EXCEPT ![r] = [at |-> "upsert", key |-> key, place |-> place]]
      /\ registrar[r].at = "ease" /\ pushToken' = pushToken /\ retireLost' = retireLost
  BY DEF UpsertPushToken, RegistrarGoes, AtEase
<1>2. registrar' \in [Registrars -> RegistrarTypes]
  BY <1>1 DEF PushInv, RegistrarTypes
<1>3. ASSUME NEW home \in Homes PROVE CountInv(home)'
  <2>1. Retiring(home)' = Retiring(home)
    BY <1>1 DEF PushInv, Retiring
  <2>2. ActiveAt(home)' = ActiveAt(home)
    BY <1>1 DEF ActiveAt
  <2>. QED
    BY <1>1, <2>1, <2>2 DEF PushInv, CountInv
<1>. QED
  BY <1>1, <1>2, <1>3 DEF PushInv

\* A new active token comes with a request that will retire the others.
LEMMA UpsertRowKeeps ==
  ASSUME PushInv, NEW r \in Registrars, UpsertRow(r)
  PROVE  PushInv'
<1>. DEFINE key == registrar[r].key
            place == registrar[r].place
<1>1. /\ registrar[r] \in [at : {"upsert", "retire"}, key : PushKeys, place : Places]
      /\ registrar[r].at = "upsert"
      /\ retireLost' = retireLost
  BY DEF PushInv, RegistrarTypes, UpsertRow
<1>2. registrar' = [registrar EXCEPT ![r] =
                      IF place.device = NoDevice THEN AtEase ELSE [registrar[r] EXCEPT !.at = "retire"]]
  BY DEF UpsertRow, RegistrarGoes
<1>3. registrar' \in [Registrars -> RegistrarTypes]
  <2>1. [registrar[r] EXCEPT !.at = "retire"] \in RegistrarTypes
    BY <1>1 DEF RegistrarTypes
  <2>2. AtEase \in RegistrarTypes
    BY DEF AtEase, RegistrarTypes
  <2>. QED
    BY <1>2, <2>1, <2>2 DEF PushInv
<1>4. /\ DOMAIN pushToken' = DOMAIN pushToken \cup {key}
      /\ \A k \in DOMAIN pushToken' :
           pushToken'[k] = IF k = key THEN [place |-> place, isActive |-> TRUE] ELSE pushToken[k]
  BY DEF UpsertRow
<1>6. \A k \in DOMAIN pushToken' : pushToken'[k] \in [place : Places, isActive : BOOLEAN]
  <2>1. [place |-> place, isActive |-> TRUE] \in [place : Places, isActive : BOOLEAN]
    BY <1>1
  <2>2. ASSUME NEW k \in DOMAIN pushToken'
        PROVE  pushToken'[k] \in [place : Places, isActive : BOOLEAN]
    <3>1. CASE k = key
      BY <1>4, <2>1, <3>1
    <3>2. CASE k # key
      BY <1>4, <3>2 DEF PushInv
    <3>. QED
      BY <3>1, <3>2
  <2>. QED
    BY <2>2
<1>5. ASSUME NEW home \in Homes PROVE CountInv(home)'
  <2>1. CountInv(home)
    BY DEF PushInv
  <2>2. CASE home = place
    <3>1. place.device # NoDevice
      BY <2>2, PushAssumption DEF Homes
    <3>2. /\ registrar'[r].at = "retire" /\ registrar'[r].place = place
          /\ \A q \in Registrars \ {r} : registrar'[q] = registrar[q]
      BY <1>1, <1>2, <3>1 DEF PushInv
    <3>3. Retiring(home)' = Retiring(home) \cup {r} /\ r \notin Retiring(home)
      BY <1>1, <2>2, <3>2 DEF Retiring
    <3>4. ActiveAt(home)' \subseteq ActiveAt(home) \cup {key}
      BY <1>4 DEF ActiveAt
    <3>5. IsFiniteSet(ActiveAt(home)') /\ IsFiniteSet(Retiring(home)')
      <4>1. IsFiniteSet(ActiveAt(home) \cup {key}) /\ IsFiniteSet(Retiring(home) \cup {r})
        BY <2>1, FS_AddElement DEF CountInv
      <4>. QED
        BY <3>3, <3>4, <4>1, FS_Subset
    <3>6. ASSUME ~ retireLost
          PROVE  Cardinality(ActiveAt(home)') <= 1 + Cardinality(Retiring(home)')
      <4>1. /\ IsFiniteSet(ActiveAt(home)) /\ IsFiniteSet(Retiring(home))
            /\ Cardinality(ActiveAt(home)) <= 1 + Cardinality(Retiring(home))
        BY <2>1, <3>6 DEF CountInv
      <4>. HIDE DEF key
      <4>. QED
        BY <3>3, <3>4, <4>1, BothGrow
    <3>. QED
      BY <1>1, <3>5, <3>6 DEF CountInv
  <2>3. CASE home # place
    <3>1. /\ registrar'[r].at # "retire" \/ registrar'[r].place = place
          /\ \A q \in Registrars \ {r} : registrar'[q] = registrar[q]
      BY <1>1, <1>2 DEF PushInv, AtEase
    <3>2. Retiring(home)' = Retiring(home)
      BY <1>1, <2>3, <3>1 DEF Retiring
    <3>3. ActiveAt(home)' \subseteq ActiveAt(home)
      BY <1>4, <2>3 DEF ActiveAt
    <3>4. IsFiniteSet(ActiveAt(home)')
      BY <2>1, <3>3, FS_Subset DEF CountInv
    <3>5. ASSUME ~ retireLost
          PROVE  Cardinality(ActiveAt(home)') <= 1 + Cardinality(Retiring(home))
      BY <2>1, <3>3, <3>5, Shrinks DEF CountInv
    <3>. QED
      BY <1>1, <2>1, <3>2, <3>4, <3>5 DEF CountInv
  <2>. QED
    BY <2>2, <2>3
<1>. QED
  BY <1>1, <1>3, <1>5, <1>6 DEF PushInv

\* After the second statement the device has the one token of the request.
LEMMA RetireOthersKeeps ==
  ASSUME PushInv, NEW r \in Registrars, RetireOthers(r)
  PROVE  PushInv'
<1>. DEFINE key == registrar[r].key
            place == registrar[r].place
<1>1. /\ registrar' = [registrar EXCEPT ![r] = AtEase]
      /\ registrar[r].at = "retire" /\ retireLost' = retireLost
  BY DEF RetireOthers, RegistrarGoes
<1>2. registrar' \in [Registrars -> RegistrarTypes]
  <2>1. AtEase \in RegistrarTypes
    BY DEF AtEase, RegistrarTypes
  <2>. QED
    BY <1>1, <2>1 DEF PushInv
<1>3. pushToken' = [k \in DOMAIN pushToken |->
        [pushToken[k] EXCEPT !.isActive =
           @ /\ (pushToken[k].place = place => k = key)]]
  BY DEF RetireOthers
<1>5. DOMAIN pushToken' = DOMAIN pushToken
  BY <1>3
<1>6. ASSUME NEW k \in DOMAIN pushToken
      PROVE  /\ pushToken'[k] \in [place : Places, isActive : BOOLEAN]
             /\ pushToken'[k].place = pushToken[k].place
             /\ pushToken'[k].isActive => pushToken[k].isActive
             /\ pushToken'[k].isActive => (pushToken[k].place = place => k = key)
  <2>. DEFINE kept == pushToken[k].isActive /\ (pushToken[k].place = place => k = key)
  <2>1. pushToken[k] \in [place : Places, isActive : BOOLEAN]
    BY DEF PushInv
  <2>2. pushToken'[k] = [pushToken[k] EXCEPT !.isActive = kept]
    BY <1>3
  <2>3. kept \in BOOLEAN
    OBVIOUS
  <2>4. kept => pushToken[k].isActive /\ (pushToken[k].place = place => k = key)
    OBVIOUS
  <2>. HIDE DEF kept
  <2>5. /\ pushToken'[k] \in [place : Places, isActive : BOOLEAN]
        /\ pushToken'[k].place = pushToken[k].place
        /\ pushToken'[k].isActive = kept
    BY <2>1, <2>2, <2>3
  <2>. QED
    BY <2>4, <2>5, Zenon
<1>7. \A k \in DOMAIN pushToken' : pushToken'[k] \in [place : Places, isActive : BOOLEAN]
  BY <1>5, <1>6
<1>4. ASSUME NEW home \in Homes PROVE CountInv(home)'
  <2>1. CountInv(home)
    BY DEF PushInv
  <2>2. ActiveAt(home)' \subseteq ActiveAt(home)
    BY <1>5, <1>6 DEF ActiveAt
  <2>3. IsFiniteSet(ActiveAt(home)')
    BY <2>1, <2>2, FS_Subset DEF CountInv
  <2>4. /\ registrar'[r].at = "ease"
        /\ \A q \in Registrars \ {r} : registrar'[q] = registrar[q]
    BY <1>1 DEF PushInv, AtEase
  <2>5. Retiring(home)' = Retiring(home) \ {r}
    BY <2>4 DEF Retiring
  <2>6. IsFiniteSet(Retiring(home)')
    BY <2>1, <2>5, FS_Subset DEF CountInv
  <2>7. CASE home = place
    <3>1. ActiveAt(home)' \subseteq {key}
      BY <1>5, <1>6, <2>7 DEF ActiveAt
    <3>2. Cardinality(ActiveAt(home)') <= 1
      <4>1. IsFiniteSet({key}) /\ Cardinality({key}) = 1
        BY FS_Singleton
      <4>2. Cardinality(ActiveAt(home)') <= Cardinality({key})
        BY <3>1, <4>1, FS_Subset
      <4>. QED
        BY <4>1, <4>2
    <3>3. Cardinality(ActiveAt(home)') \in Nat /\ Cardinality(Retiring(home)') \in Nat
      BY <2>3, <2>6, FS_CardinalityType
    <3>4. Cardinality(ActiveAt(home)') <= 1 + Cardinality(Retiring(home)')
      BY <3>2, <3>3
    <3>. QED
      BY <2>3, <2>6, <3>4 DEF CountInv
  <2>8. CASE home # place
    <3>1. Retiring(home)' = Retiring(home)
      BY <2>5, <2>8 DEF Retiring
    <3>2. ASSUME ~ retireLost
          PROVE  Cardinality(ActiveAt(home)') <= 1 + Cardinality(Retiring(home))
      BY <2>1, <2>2, <3>2, Shrinks DEF CountInv
    <3>. QED
      BY <1>1, <2>3, <2>6, <3>1, <3>2 DEF CountInv
  <2>. QED
    BY <2>7, <2>8
<1>. QED
  BY <1>1, <1>2, <1>4, <1>7 DEF PushInv

LEMMA RegistrarFailsKeeps ==
  ASSUME PushInv, NEW r \in Registrars, RegistrarFails(r)
  PROVE  PushInv'
<1>1. /\ registrar' = [registrar EXCEPT ![r] = AtEase]
      /\ pushToken' = pushToken
      /\ retireLost' = (retireLost \/ registrar[r].at = "retire")
  BY DEF RegistrarFails, RegistrarGoes
<1>2. registrar' \in [Registrars -> RegistrarTypes]
  <2>1. AtEase \in RegistrarTypes
    BY DEF AtEase, RegistrarTypes
  <2>. QED
    BY <1>1, <2>1 DEF PushInv
<1>3. retireLost' \in BOOLEAN
  BY <1>1
<1>4. ASSUME NEW home \in Homes PROVE CountInv(home)'
  <2>1. CountInv(home)
    BY DEF PushInv
  <2>2. ActiveAt(home)' = ActiveAt(home)
    BY <1>1 DEF ActiveAt
  <2>3. /\ registrar'[r].at = "ease"
        /\ \A q \in Registrars \ {r} : registrar'[q] = registrar[q]
    BY <1>1 DEF PushInv, AtEase
  <2>4. Retiring(home)' = Retiring(home) \ {r}
    BY <2>3 DEF Retiring
  <2>5. IsFiniteSet(Retiring(home)')
    BY <2>1, <2>4, FS_Subset DEF CountInv
  <2>6. ASSUME ~ retireLost' PROVE Retiring(home)' = Retiring(home)
    BY <1>1, <2>4, <2>6 DEF Retiring
  <2>7. ASSUME ~ retireLost' PROVE ~ retireLost
    BY <1>1, <2>7
  <2>. QED
    BY <2>1, <2>2, <2>5, <2>6, <2>7 DEF CountInv
<1>. QED
  BY <1>1, <1>2, <1>3, <1>4 DEF PushInv

LEMMA PushStep == PushInv /\ [PushNext]_pushVars => PushInv'
<1>1. SUFFICES ASSUME PushInv, [PushNext]_pushVars PROVE PushInv'
  OBVIOUS
<1>2. ASSUME NEW r \in Registrars, NEW key \in PushKeys, NEW place \in Places,
             UpsertPushToken(r, key, place)
      PROVE  PushInv'
  BY <1>1, <1>2, UpsertPushTokenKeeps
<1>3. ASSUME NEW r \in Registrars, UpsertRow(r) PROVE PushInv'
  BY <1>1, <1>3, UpsertRowKeeps
<1>4. ASSUME NEW r \in Registrars, RetireOthers(r) PROVE PushInv'
  BY <1>1, <1>4, RetireOthersKeeps
<1>5. ASSUME NEW r \in Registrars, RegistrarFails(r) PROVE PushInv'
  BY <1>1, <1>5, RegistrarFailsKeeps
<1>6. CASE UNCHANGED pushVars
  BY <1>1, <1>6 DEF pushVars, PushInv, CountInv, ActiveAt, Retiring
<1>. QED
  BY <1>1, <1>2, <1>3, <1>4, <1>5, <1>6 DEF PushNext

\* However the two statements of UpsertUserPushToken interleave and tokens move
\* between users and devices, a device has one active token and at most one more
\* for each request between its statements, unless one was lost there.
THEOREM OneActiveTheorem == PushSpec => []OneActivePerDevice
<1>1. PushInit => PushInv
  BY PushInitial
<1>2. PushInv /\ [PushNext]_pushVars => PushInv'
  BY PushStep
<1>3. PushInv => OneActivePerDevice
  BY DEF PushInv, CountInv, OneActivePerDevice, Homes
<1>. QED
  BY <1>1, <1>2, <1>3, PTL DEF PushSpec

-----------------------------------------------------------------------------
(***************************************************************************)
(* The limiter: the calls of a key fall into spells, one for each entry    *)
(* that Allow makes.  An entry goes no sooner than a window after its      *)
(* start, so that no window has calls of three spells.                     *)
(***************************************************************************)
\* A call waits for the mutex no longer than MaxLag.
WaitInv ==
  \A c \in Calls : waiting[c] # NoCall =>
    waiting[c].now <= time /\ time <= waiting[c].now + MaxLag

\* The last spell of a key began at r; what was let through before it fills a
\* window that reaches it no more than once.
SpellInv(k, r, spell) ==
  /\ Cardinality(spell) <= Limit
  /\ \A x \in spell : r <= x[1]
  /\ \A x \in Passed(k) \ spell : x[1] <= r
  /\ \A t \in 0..LastTime :
       /\ Cardinality(WithinFrom(Passed(k) \ spell, t)) <= 2 * Limit
       /\ t <= r /\ r + MaxLag < t + Window =>
            Cardinality(WithinFrom(Passed(k) \ spell, t)) <= Limit

\* The entry counts the calls of the spell, and is there as long as it must.
EntryInv(k, r, spell) ==
  IF k \in DOMAIN items
  THEN /\ Cardinality(spell) <= items[k].count
       /\ items[k].start <= r /\ r <= items[k].start + MaxLag
  ELSE Passed(k) = {} \/ r + Window <= time + MaxLag

KeyInv(k) ==
  /\ IsFiniteSet(Passed(k)) /\ \A x \in Passed(k) : x[1] \in 0..time
  /\ \E r \in 0..time, spell \in SUBSET Passed(k) :
       SpellInv(k, r, spell) /\ EntryInv(k, r, spell)

LimiterInv == LimiterTypeOK /\ WaitInv /\ \A k \in Keys : KeyInv(k)

LEMMA LimiterNumbers ==
  /\ Limit \in Nat /\ 1 <= Limit /\ Window \in Nat /\ MaxLag \in Nat /\ LastTime \in Nat
  /\ MaxLag < Window
BY LimiterAssumption

LEMMA WithinFewer ==
  ASSUME NEW A, NEW B, IsFiniteSet(A), NEW t, WithinFrom(B, t) \subseteq A
  PROVE  /\ IsFiniteSet(WithinFrom(B, t))
         /\ Cardinality(WithinFrom(B, t)) <= Cardinality(A)
         /\ Cardinality(A) \in Nat /\ Cardinality(WithinFrom(B, t)) \in Nat
BY Fewer

LEMMA WithinIs == \A B, t : WithinFrom(B, t) \subseteq B
BY DEF WithinFrom

LEMMA TwoSets ==
  ASSUME NEW A, NEW B, NEW C, IsFiniteSet(A), IsFiniteSet(B), C \subseteq A \cup B
  PROVE  /\ Cardinality(C) <= Cardinality(A) + Cardinality(B) /\ Cardinality(C) \in Nat
         /\ Cardinality(A) \in Nat /\ Cardinality(B) \in Nat
<1>1. /\ IsFiniteSet(A \cup B) /\ IsFiniteSet(A \cap B)
      /\ Cardinality(A \cup B) = Cardinality(A) + Cardinality(B) - Cardinality(A \cap B)
  BY FS_Union, FS_Intersection
<1>2. IsFiniteSet(C) /\ Cardinality(C) <= Cardinality(A \cup B)
  BY <1>1, FS_Subset
<1>3. /\ Cardinality(A) \in Nat /\ Cardinality(B) \in Nat /\ Cardinality(C) \in Nat
      /\ Cardinality(A \cap B) \in Nat /\ Cardinality(A \cup B) \in Nat
  BY <1>1, <1>2, FS_CardinalityType
<1>. QED
  BY <1>1, <1>2, <1>3

\* A window has calls of the last spell and of what was before it at most.
LEMMA SpellTotal ==
  ASSUME NEW k \in Keys, IsFiniteSet(Passed(k)), time \in Nat,
         \A x \in Passed(k) : x[1] \in 0..time,
         NEW r \in 0..time, NEW spell \in SUBSET Passed(k), SpellInv(k, r, spell),
         NEW t \in 0..LastTime
  PROVE  Cardinality(WithinFrom(Passed(k), t)) <= 2 * Limit
<1>. DEFINE P == Passed(k)
            old == P \ spell
            all == WithinFrom(P, t)
            past == WithinFrom(old, t)
<1>1. IsFiniteSet(P) /\ IsFiniteSet(spell) /\ IsFiniteSet(old)
  BY FS_Subset
<1>2. /\ Cardinality(spell) <= Limit /\ Cardinality(past) <= 2 * Limit
      /\ t <= r /\ r + MaxLag < t + Window => Cardinality(past) <= Limit
  BY DEF SpellInv
<1>3. \A x \in P : x[1] \in Nat
  OBVIOUS
<1>4. IsFiniteSet(past)
  BY <1>1, WithinIs, FS_Subset
<1>5. CASE r < t
  <2>1. all \subseteq spell
    <3>1. ASSUME NEW x \in all PROVE x \in spell
      <4>1. x \in P /\ t <= x[1] /\ x[1] \in Nat
        BY <1>3, <3>1 DEF WithinFrom
      <4>2. ~ (x[1] <= r)
        BY <1>5, <4>1
      <4>. QED
        BY <4>1, <4>2 DEF SpellInv
    <3>. QED
      BY <3>1
  <2>2. Cardinality(all) <= Cardinality(spell)
        /\ Cardinality(all) \in Nat /\ Cardinality(spell) \in Nat
    BY <1>1, <2>1, Fewer
  <2>. QED
    BY <1>2, <2>2, LimiterNumbers
<1>6. CASE t <= r /\ r + MaxLag < t + Window
  <2>1. all \subseteq past \cup spell
    BY DEF WithinFrom
  <2>2. /\ Cardinality(all) <= Cardinality(past) + Cardinality(spell)
        /\ Cardinality(all) \in Nat /\ Cardinality(past) \in Nat /\ Cardinality(spell) \in Nat
    BY <1>1, <1>4, <2>1, TwoSets
  <2>. QED
    BY <1>2, <1>6, <2>2, LimiterNumbers
<1>7. CASE ~ (r + MaxLag < t + Window)
  <2>1. all \subseteq past
    <3>1. ASSUME NEW x \in all PROVE x \in past
      <4>1. x \in P /\ t <= x[1] /\ x[1] + MaxLag < t + Window /\ x[1] \in Nat
        BY <1>3, <3>1 DEF WithinFrom
      <4>2. ~ (r <= x[1])
        BY <1>7, <4>1, LimiterNumbers
      <4>3. x \notin spell
        BY <4>2 DEF SpellInv
      <4>. QED
        BY <4>1, <4>3 DEF WithinFrom
    <3>. QED
      BY <3>1
  <2>2. Cardinality(all) <= Cardinality(past)
        /\ Cardinality(all) \in Nat /\ Cardinality(past) \in Nat
    BY <1>4, <2>1, Fewer
  <2>. QED
    BY <1>2, <2>2, LimiterNumbers
<1>. QED
  BY <1>5, <1>6, <1>7

LEMMA PassedAdds ==
  ASSUME LimiterTypeOK, NEW k \in Keys, LetThrough(k)
  PROVE  /\ \E x : x \notin Passed(k) /\ x[1] = time /\ Passed(k)' = Passed(k) \cup {x}
         /\ \A j \in Keys \ {k} : Passed(j)' = Passed(j)
<1>. DEFINE n == allowed[k][time]
            x == <<time, n + 1>>
<1>1. time \in 0..LastTime /\ allowed \in [Keys -> [0..LastTime -> Nat]] /\ n \in Nat
  BY DEF LimiterTypeOK
<1>2. allowed' = [allowed EXCEPT ![k][time] = @ + 1]
  BY DEF LetThrough
<1>3. /\ allowed'[k][time] = n + 1
      /\ \A u \in 0..LastTime : u # time => allowed'[k][u] = allowed[k][u]
      /\ \A j \in Keys \ {k} : allowed'[j] = allowed[j]
  BY <1>1, <1>2
<1>4. x \notin Passed(k)
  BY <1>1 DEF Passed
<1>5. 1..(n + 1) = (1..n) \cup {n + 1}
  BY <1>1
<1>6. Passed(k)' = Passed(k) \cup {x}
  <2>1. \A y : y \in Passed(k)' <=>
          \E u \in 0..LastTime : y \in {u} \X (1..allowed'[k][u])
    BY DEF Passed
  <2>2. \A y : y \in Passed(k) <=>
          \E u \in 0..LastTime : y \in {u} \X (1..allowed[k][u])
    BY DEF Passed
  <2>3. \A u \in 0..LastTime : \A y :
          y \in {u} \X (1..allowed'[k][u])
            <=> y \in {u} \X (1..allowed[k][u]) \/ (u = time /\ y = x)
    BY <1>3, <1>5
  <2>. QED
    BY <1>1, <2>1, <2>2, <2>3
<1>7. \A j \in Keys \ {k} : Passed(j)' = Passed(j)
  BY <1>3 DEF Passed
<1>. QED
  BY <1>4, <1>6, <1>7

\* A spell begins, where the window of the last one is behind.
LEMMA SpellBegins ==
  ASSUME LimiterTypeOK, UNCHANGED time, NEW k \in Keys, KeyInv(k),
         NEW r \in 0..time, NEW spell \in SUBSET Passed(k), SpellInv(k, r, spell),
         Passed(k) = {} \/ r + Window <= time + MaxLag,
         NEW x, x \notin Passed(k), x[1] = time, Passed(k)' = Passed(k) \cup {x}
  PROVE  SpellInv(k, time, {x})' /\ Cardinality({x}) = 1
<1>. DEFINE P == Passed(k)
<1>1. IsFiniteSet(P) /\ (\A y \in P : y[1] \in 0..time) /\ time \in Nat
  BY DEF KeyInv, LimiterTypeOK
<1>2. Passed(k)' \ {x} = P
  OBVIOUS
<1>3. Cardinality({x}) = 1
  BY FS_Singleton
<1>4. ASSUME NEW t \in 0..LastTime
      PROVE  /\ Cardinality(WithinFrom(P, t)) <= 2 * Limit
             /\ t <= time /\ time + MaxLag < t + Window =>
                  Cardinality(WithinFrom(P, t)) <= Limit
  <2>1. Cardinality(WithinFrom(P, t)) <= 2 * Limit
    BY <1>1, SpellTotal
  <2>2. ASSUME t <= time, time + MaxLag < t + Window
        PROVE  Cardinality(WithinFrom(P, t)) <= Limit
    <3>1. WithinFrom(P, t) \subseteq spell
      <4>1. ASSUME NEW y \in WithinFrom(P, t) PROVE y \in spell
        <5>1. y \in P /\ t <= y[1] /\ y[1] \in Nat /\ t \in Nat
          BY <1>1, <4>1 DEF WithinFrom
        <5>2. r + Window <= time + MaxLag
          BY <5>1
        <5>3. ~ (y[1] <= r)
          BY <1>1, <2>2, <5>1, <5>2, LimiterNumbers
        <5>. QED
          BY <5>1, <5>3 DEF SpellInv
      <4>. QED
        BY <4>1
    <3>2. IsFiniteSet(spell) /\ Cardinality(spell) <= Limit
      BY <1>1, Fewer DEF SpellInv
    <3>3. /\ Cardinality(WithinFrom(P, t)) <= Cardinality(spell)
          /\ Cardinality(WithinFrom(P, t)) \in Nat /\ Cardinality(spell) \in Nat
      BY <3>1, <3>2, Fewer
    <3>. QED
      BY <3>2, <3>3, LimiterNumbers
  <2>. QED
    BY <2>1, <2>2
<1>5. \A y \in P : y[1] <= time
  BY <1>1
<1>6. time <= x[1]
  BY <1>1
<1>. HIDE DEF P
<1>. QED
  BY <1>2, <1>3, <1>4, <1>5, <1>6, LimiterNumbers DEF SpellInv

\* A spell goes on with one call more.
LEMMA SpellGoesOn ==
  ASSUME LimiterTypeOK, UNCHANGED time, NEW k \in Keys, KeyInv(k),
         NEW r \in 0..time, NEW spell \in SUBSET Passed(k), SpellInv(k, r, spell),
         NEW n \in Nat, Cardinality(spell) <= n, n < Limit,
         NEW x, x \notin Passed(k), x[1] = time, Passed(k)' = Passed(k) \cup {x}
  PROVE  /\ SpellInv(k, r, spell \cup {x})'
         /\ Cardinality(spell \cup {x}) <= n + 1
<1>1. Passed(k)' \ (spell \cup {x}) = Passed(k) \ spell
  OBVIOUS
<1>2. IsFiniteSet(spell)
  BY Fewer DEF KeyInv
<1>3. /\ Cardinality(spell \cup {x}) <= Cardinality(spell) + 1
      /\ Cardinality(spell) \in Nat /\ Cardinality(spell \cup {x}) \in Nat
  BY <1>2, OneMore
<1>4. Cardinality(spell \cup {x}) <= n + 1 /\ Cardinality(spell \cup {x}) <= Limit
  BY <1>3, LimiterNumbers
<1>5. \A y \in spell \cup {x} : r <= y[1]
  BY DEF SpellInv, LimiterTypeOK
<1>. QED
  BY <1>1, <1>4, <1>5 DEF SpellInv

\* A key of another user keeps its entry, or loses one whose window is over.
LEMMA OtherKeyKeeps ==
  ASSUME LimiterInv, NEW j \in Keys, UNCHANGED time, Passed(j)' = Passed(j),
         NEW now \in 0..LastTime, now <= time,
         j \in DOMAIN items' <=> j \in Cleaned(now),
         j \in Cleaned(now) => items'[j] = items[j]
  PROVE  KeyInv(j)'
<1>1. /\ time \in Nat /\ KeyInv(j)
      /\ j \in DOMAIN items => items[j].start \in Nat
  BY LimiterNumbers DEF LimiterInv, LimiterTypeOK, Entries
<1>2. PICK r \in 0..time, spell \in SUBSET Passed(j) :
        SpellInv(j, r, spell) /\ EntryInv(j, r, spell)
  BY <1>1 DEF KeyInv
<1>3. SpellInv(j, r, spell)'
  BY <1>2 DEF SpellInv
<1>4. EntryInv(j, r, spell)'
  <2>1. CASE j \in Cleaned(now)
    BY <1>2, <2>1 DEF EntryInv, Cleaned
  <2>2. CASE j \notin DOMAIN items
    BY <1>2, <2>2 DEF EntryInv, Cleaned
  <2>3. CASE j \in DOMAIN items /\ j \notin Cleaned(now)
    <3>1. items[j].start + Window <= now /\ r <= items[j].start + MaxLag
      BY <1>2, <2>3 DEF Cleaned, Expired, EntryInv
    <3>2. r + Window <= time + MaxLag
      BY <1>1, <2>3, <3>1, LimiterNumbers
    <3>. QED
      BY <2>3, <3>2 DEF EntryInv
  <2>. QED
    BY <2>1, <2>2, <2>3
<1>5. r \in 0..time' /\ spell \in SUBSET Passed(j)'
  OBVIOUS
<1>6. IsFiniteSet(Passed(j)') /\ \A x \in Passed(j)' : x[1] \in 0..time'
  BY <1>1 DEF KeyInv
<1>. QED
  BY <1>3, <1>4, <1>5, <1>6 DEF KeyInv

\* A key without an entry that still counts begins a spell.
LEMMA BeginKeeps ==
  ASSUME LimiterInv, NEW k \in Keys, UNCHANGED time, LetThrough(k),
         NEW now \in 0..LastTime, now <= time, time <= now + MaxLag,
         k \notin Running(now), k \in DOMAIN items',
         items'[k] = [start |-> now, count |-> 1]
  PROVE  KeyInv(k)'
<1>1. LimiterTypeOK /\ KeyInv(k) /\ time \in Nat
      /\ (k \in DOMAIN items => items[k].start \in Nat)
  BY LimiterNumbers DEF LimiterInv, LimiterTypeOK, Entries
<1>2. PICK r \in 0..time, spell \in SUBSET Passed(k) :
        SpellInv(k, r, spell) /\ EntryInv(k, r, spell)
  BY <1>1 DEF KeyInv
<1>3. PICK x : x \notin Passed(k) /\ x[1] = time /\ Passed(k)' = Passed(k) \cup {x}
  BY <1>1, PassedAdds
<1>4. Passed(k) = {} \/ r + Window <= time + MaxLag
  <2>1. CASE k \notin DOMAIN items
    BY <1>2, <2>1 DEF EntryInv
  <2>2. CASE k \in DOMAIN items
    <3>1. items[k].start + Window <= now /\ r <= items[k].start + MaxLag
      BY <1>2, <2>2 DEF Running, Cleaned, Expired, EntryInv
    <3>. QED
      BY <1>1, <2>2, <3>1, LimiterNumbers
  <2>. QED
    BY <2>1, <2>2
<1>5. SpellInv(k, time, {x})' /\ Cardinality({x}) = 1
  BY <1>1, <1>2, <1>3, <1>4, SpellBegins
<1>6. EntryInv(k, time, {x})'
  BY <1>5 DEF EntryInv
<1>7. PICK u : u = time
  OBVIOUS
<1>8. SpellInv(k, u, {x})' /\ EntryInv(k, u, {x})'
  BY <1>5, <1>6, <1>7 DEF SpellInv, EntryInv
<1>9. u \in 0..time' /\ {x} \in SUBSET Passed(k)'
  BY <1>1, <1>3, <1>7
<1>10. IsFiniteSet(Passed(k)') /\ \A y \in Passed(k)' : y[1] \in 0..time'
  BY <1>1, <1>3, FS_AddElement DEF KeyInv
<1>. QED
  BY <1>8, <1>9, <1>10 DEF KeyInv

LEMMA GoOnKeeps ==
  ASSUME LimiterInv, NEW k \in Keys, UNCHANGED time, LetThrough(k),
         k \in DOMAIN items, items[k].count < Limit, k \in DOMAIN items',
         items'[k] = [items[k] EXCEPT !.count = @ + 1]
  PROVE  KeyInv(k)'
<1>1. LimiterTypeOK /\ KeyInv(k) /\ time \in Nat /\ items[k] \in Entries
  BY LimiterNumbers DEF LimiterInv, LimiterTypeOK
<1>2. PICK r \in 0..time, spell \in SUBSET Passed(k) :
        SpellInv(k, r, spell) /\ EntryInv(k, r, spell)
  BY <1>1 DEF KeyInv
<1>3. PICK x : x \notin Passed(k) /\ x[1] = time /\ Passed(k)' = Passed(k) \cup {x}
  BY <1>1, PassedAdds
<1>4. Cardinality(spell) <= items[k].count /\ items[k].count \in Nat
  BY <1>1, <1>2, LimiterNumbers DEF EntryInv, Entries
<1>5. SpellInv(k, r, spell \cup {x})' /\ Cardinality(spell \cup {x}) <= items[k].count + 1
  BY <1>1, <1>2, <1>3, <1>4, SpellGoesOn
<1>6. items'[k].count = items[k].count + 1 /\ items'[k].start = items[k].start
  BY <1>1 DEF Entries
<1>7. EntryInv(k, r, spell \cup {x})'
  BY <1>2, <1>5, <1>6 DEF EntryInv
<1>8. r \in 0..time' /\ spell \cup {x} \in SUBSET Passed(k)'
  BY <1>3
<1>9. IsFiniteSet(Passed(k)') /\ \A y \in Passed(k)' : y[1] \in 0..time'
  BY <1>1, <1>3, FS_AddElement DEF KeyInv
<1>. QED
  BY <1>5, <1>7, <1>8, <1>9 DEF KeyInv

LEMMA AllowKeeps ==
  ASSUME LimiterInv, NEW c \in Calls, Allow(c)
  PROVE  LimiterInv'
<1>0. PICK k, now : k = waiting[c].key /\ now = waiting[c].now
  OBVIOUS
<1>1. /\ LimiterTypeOK /\ k \in Keys /\ now \in 0..LastTime
      /\ now <= time /\ time <= now + MaxLag /\ UNCHANGED time /\ time \in 0..LastTime
      /\ waiting' = [waiting EXCEPT ![c] = NoCall]
      /\ lastCleanup' \in 0..LastTime
  BY <1>0 DEF LimiterInv, LimiterTypeOK, WaitInv, Allow
<1>2. \/ /\ k \notin Running(now)
         /\ Count(k, now, [start |-> now, count |-> 1])
         /\ LetThrough(k)
      \/ /\ k \in Running(now) /\ items[k].count < Limit
         /\ Count(k, now, [items[k] EXCEPT !.count = @ + 1])
         /\ LetThrough(k)
      \/ /\ k \in Running(now) /\ items[k].count >= Limit
         /\ Count(k, now, items[k])
         /\ UNCHANGED allowed
  BY <1>0 DEF Allow
<1>3. /\ Running(now) \subseteq Cleaned(now) /\ Cleaned(now) \subseteq DOMAIN items
      /\ DOMAIN items \subseteq Keys /\ \A j \in DOMAIN items : items[j] \in Entries
  BY <1>1 DEF Running, Cleaned, LimiterTypeOK
<1>4. \E entry \in Entries : Count(k, now, entry)
  <2>1. [start |-> now, count |-> 1] \in Entries
    BY <1>1, LimiterNumbers DEF Entries
  <2>2. ASSUME k \in Running(now), items[k].count < Limit
        PROVE  [items[k] EXCEPT !.count = @ + 1] \in Entries
    BY <1>3, <2>2, LimiterNumbers DEF Entries
  <2>. QED
    BY <1>2, <1>3, <2>1, <2>2
<1>5. PICK entry \in Entries : Count(k, now, entry)
  BY <1>4
<1>6. /\ DOMAIN items' = Cleaned(now) \cup {k}
      /\ \A j \in Cleaned(now) \ {k} : items'[j] = items[j]
      /\ items' \in [DOMAIN items' -> Entries]
  BY <1>3, <1>5 DEF Count
<1>7. allowed' \in [Keys -> [0..LastTime -> Nat]]
  <2>1. CASE UNCHANGED allowed
    BY <1>1, <2>1 DEF LimiterTypeOK
  <2>2. CASE LetThrough(k)
    <3>0. PICK f \in [0..LastTime -> Nat] : f = allowed[k]
      BY <1>1 DEF LimiterTypeOK
    <3>1. [f EXCEPT ![time] = @ + 1] \in [0..LastTime -> Nat]
      <4>1. f[time] + 1 \in Nat
        BY <1>1
      <4>. QED
        BY <4>1
    <3>. QED
      BY <1>1, <2>2, <3>0, <3>1 DEF LimiterTypeOK, LetThrough
  <2>. QED
    BY <1>2, <2>1, <2>2
<1>8. LimiterTypeOK'
  BY <1>1, <1>3, <1>6, <1>7 DEF LimiterTypeOK
<1>9. WaitInv'
  BY <1>1 DEF WaitInv, LimiterInv, LimiterTypeOK
<1>10. KeyInv(k)'
  <2>1. CASE k \notin Running(now)
    <3>1. LetThrough(k) /\ k \in DOMAIN items' /\ items'[k] = [start |-> now, count |-> 1]
      BY <1>2, <2>1 DEF Count
    <3>. QED
      BY <1>1, <2>1, <3>1, BeginKeeps
  <2>2. CASE k \in Running(now) /\ items[k].count < Limit
    <3>1. /\ k \in DOMAIN items /\ k \in DOMAIN items'
          /\ items[k].count \in Nat /\ ~ (items[k].count >= Limit)
      BY <1>3, <1>6, <2>2, LimiterNumbers DEF Entries
    <3>2. LetThrough(k) /\ items'[k] = [items[k] EXCEPT !.count = @ + 1]
      BY <1>2, <2>2, <3>1 DEF Count
    <3>. QED
      BY <1>1, <2>2, <3>1, <3>2, GoOnKeeps
  <2>3. CASE k \in Running(now) /\ ~ (items[k].count < Limit)
    <3>1. UNCHANGED allowed /\ items'[k] = items[k]
      BY <1>2, <2>3 DEF Count
    <3>2. Passed(k)' = Passed(k)
      BY <3>1 DEF Passed
    <3>. QED
      BY <1>1, <1>3, <1>6, <2>3, <3>1, <3>2, OtherKeyKeeps
  <2>. QED
    BY <2>1, <2>2, <2>3
<1>11. ASSUME NEW j \in Keys, j # k PROVE KeyInv(j)'
  <2>1. Passed(j)' = Passed(j)
    <3>1. CASE UNCHANGED allowed
      BY <3>1 DEF Passed
    <3>2. CASE LetThrough(k)
      BY <1>1, <1>11, <3>2, PassedAdds
    <3>. QED
      BY <1>2, <3>1, <3>2
  <2>. QED
    BY <1>1, <1>6, <1>11, <2>1, OtherKeyKeeps
<1>. QED
  BY <1>8, <1>9, <1>10, <1>11 DEF LimiterInv

LEMMA ArriveKeeps ==
  ASSUME LimiterInv, NEW c \in Calls, NEW k \in Keys, Arrive(c, k)
  PROVE  LimiterInv'
<1>1. LimiterTypeOK /\ UNCHANGED <<time, items, lastCleanup, allowed>>
      /\ waiting' = [waiting EXCEPT ![c] = [key |-> k, now |-> time]]
      /\ time \in Nat
  BY LimiterNumbers DEF LimiterInv, LimiterTypeOK, Arrive
<1>2. LimiterTypeOK'
  BY <1>1 DEF LimiterTypeOK
<1>3. WaitInv'
  <2>1. ASSUME NEW d \in Calls, waiting'[d] # NoCall
        PROVE  waiting'[d].now <= time /\ time <= waiting'[d].now + MaxLag
    <3>1. CASE d = c
      <4>1. waiting'[d].now = time
        BY <1>1, <3>1 DEF LimiterTypeOK
      <4>. QED
        BY <1>1, <4>1, LimiterNumbers
    <3>2. CASE d # c
      BY <1>1, <2>1, <3>2 DEF LimiterTypeOK, LimiterInv, WaitInv
    <3>. QED
      BY <3>1, <3>2
  <2>. QED
    BY <1>1, <2>1 DEF WaitInv
<1>4. ASSUME NEW j \in Keys PROVE KeyInv(j)'
  BY <1>1 DEF LimiterInv, KeyInv, SpellInv, EntryInv, Passed
<1>. QED
  BY <1>2, <1>3, <1>4 DEF LimiterInv

LEMMA TimeKeeps ==
  ASSUME LimiterInv, TimePasses
  PROVE  LimiterInv'
<1>1. /\ LimiterTypeOK /\ UNCHANGED <<items, lastCleanup, waiting, allowed>>
      /\ time \in Nat /\ time' = time + 1 /\ time' \in 0..LastTime
  BY LimiterNumbers DEF LimiterInv, LimiterTypeOK, TimePasses
<1>2. LimiterTypeOK'
  BY <1>1 DEF LimiterTypeOK
<1>3. WaitInv'
  <2>1. ASSUME NEW c \in Calls, waiting[c] # NoCall
        PROVE  waiting[c].now <= time + 1 /\ time + 1 <= waiting[c].now + MaxLag
    <3>1. waiting[c].now \in Nat /\ waiting[c].now <= time /\ time < waiting[c].now + MaxLag
      BY <1>1, <2>1, LimiterNumbers DEF LimiterInv, LimiterTypeOK, WaitInv, TimePasses
    <3>. QED
      BY <1>1, <3>1, LimiterNumbers
  <2>. QED
    BY <1>1, <2>1 DEF WaitInv
<1>4. ASSUME NEW j \in Keys PROVE KeyInv(j)'
  <2>1. KeyInv(j) /\ Passed(j)' = Passed(j)
    BY <1>1 DEF LimiterInv, Passed
  <2>2. PICK r \in 0..time, spell \in SUBSET Passed(j) :
          SpellInv(j, r, spell) /\ EntryInv(j, r, spell)
    BY <2>1 DEF KeyInv
  <2>3. SpellInv(j, r, spell)'
    BY <2>1, <2>2 DEF SpellInv
  <2>4. r + Window <= time + MaxLag => r + Window <= time' + MaxLag
    BY <1>1, LimiterNumbers
  <2>5. EntryInv(j, r, spell)'
    BY <1>1, <2>1, <2>2, <2>4 DEF EntryInv
  <2>6. r \in 0..time' /\ spell \in SUBSET Passed(j)'
    BY <1>1, <2>1
  <2>7. IsFiniteSet(Passed(j)') /\ \A x \in Passed(j)' : x[1] \in 0..time'
    BY <1>1, <2>1 DEF KeyInv
  <2>. QED
    BY <2>3, <2>5, <2>6, <2>7 DEF KeyInv
<1>. QED
  BY <1>2, <1>3, <1>4 DEF LimiterInv

LEMMA LimiterInitial == LimiterInit => LimiterInv
<1>1. SUFFICES ASSUME LimiterInit PROVE LimiterInv
  OBVIOUS
<1>2. /\ time = 0 /\ items = << >> /\ lastCleanup = 0
      /\ waiting = [c \in Calls |-> NoCall]
      /\ allowed = [k \in Keys |-> [t \in 0..LastTime |-> 0]]
  BY <1>1 DEF LimiterInit
<1>3. DOMAIN items = {}
  BY <1>2
<1>4. LimiterTypeOK
  BY <1>2, <1>3, LimiterNumbers DEF LimiterTypeOK
<1>5. WaitInv
  BY <1>2 DEF WaitInv
<1>6. ASSUME NEW k \in Keys PROVE KeyInv(k)
  <2>1. Passed(k) = {}
    BY <1>2 DEF Passed
  <2>2. \A t \in 0..LastTime : WithinFrom(Passed(k) \ {}, t) = {}
    BY <2>1 DEF WithinFrom
  <2>3. Cardinality({}) = 0 /\ IsFiniteSet({})
    BY FS_EmptySet
  <2>4. 0 \in 0..time
    BY <1>2
  <2>5. SpellInv(k, 0, {})
    <3>1. \A t \in 0..LastTime : Cardinality(WithinFrom(Passed(k) \ {}, t)) = 0
      BY <2>2, <2>3
    <3>. QED
      BY <2>1, <2>3, <3>1, LimiterNumbers DEF SpellInv
  <2>6. EntryInv(k, 0, {})
    BY <1>3, <2>1 DEF EntryInv
  <2>. QED
    BY <2>1, <2>3, <2>4, <2>5, <2>6 DEF KeyInv
<1>. QED
  BY <1>4, <1>5, <1>6 DEF LimiterInv

LEMMA LimiterStep == LimiterInv /\ [LimiterNext]_limiterVars => LimiterInv'
<1>1. SUFFICES ASSUME LimiterInv, [LimiterNext]_limiterVars PROVE LimiterInv'
  OBVIOUS
<1>2. ASSUME NEW c \in Calls, Allow(c) PROVE LimiterInv'
  BY <1>1, <1>2, AllowKeeps
<1>3. ASSUME NEW c \in Calls, NEW k \in Keys, Arrive(c, k) PROVE LimiterInv'
  BY <1>1, <1>3, ArriveKeeps
<1>4. CASE TimePasses
  BY <1>1, <1>4, TimeKeeps
<1>5. CASE UNCHANGED limiterVars
  <2>1. UNCHANGED <<time, items, lastCleanup, waiting, allowed>>
    BY <1>5 DEF limiterVars
  <2>2. LimiterTypeOK' /\ WaitInv'
    BY <1>1, <2>1 DEF LimiterInv, LimiterTypeOK, WaitInv
  <2>3. ASSUME NEW k \in Keys PROVE KeyInv(k)'
    <3>1. Passed(k)' = Passed(k)
      BY <2>1 DEF Passed
    <3>2. \A r, spell : /\ SpellInv(k, r, spell)' <=> SpellInv(k, r, spell)
                      /\ EntryInv(k, r, spell)' <=> EntryInv(k, r, spell)
      BY <2>1, <3>1 DEF SpellInv, EntryInv
    <3>3. KeyInv(k)
      BY <1>1 DEF LimiterInv
    <3>. QED
      BY <2>1, <3>1, <3>2, <3>3 DEF KeyInv
  <2>. QED
    BY <2>2, <2>3 DEF LimiterInv
<1>. QED
  BY <1>1, <1>2, <1>3, <1>4, <1>5 DEF LimiterNext

\* Allow lets a key through at most twice as often as the limit within a window
\* less the longest wait for the mutex: for any limit, window and wait, and
\* however the calls of other keys clean up.
THEOREM TwiceTheLimitTheorem == LimiterSpec => []TwiceTheLimit
<1>1. LimiterInit => LimiterInv
  BY LimiterInitial
<1>2. LimiterInv /\ [LimiterNext]_limiterVars => LimiterInv'
  BY LimiterStep
<1>3. LimiterInv => TwiceTheLimit
  <2>1. SUFFICES ASSUME LimiterInv, NEW k \in Keys, NEW t \in 0..time
                 PROVE  Cardinality(WithinFrom(Passed(k), t)) <= 2 * Limit
    BY DEF TwiceTheLimit
  <2>2. KeyInv(k) /\ time \in Nat /\ t \in 0..LastTime
    BY <2>1, LimiterNumbers DEF LimiterInv, LimiterTypeOK
  <2>. QED
    BY <2>2, SpellTotal DEF KeyInv
<1>. QED
  BY <1>1, <1>2, <1>3, PTL DEF LimiterSpec

-----------------------------------------------------------------------------
(***************************************************************************)
(* The row locks: transactions on orders take the kinds of rows in one     *)
(* order, and only of products more than one row.  In a circle the         *)
(* transaction that waits for the last kind waits for one that waits for   *)
(* another row of it.                                                      *)
(***************************************************************************)
OrderKinds == {"create", "confirm", "cancel", "delete"}

Products == TicketProducts \cup TransferProducts

AllRows ==
  Orders \cup Products \cup {PromoRow, EventRow} \cup {TicketsRow(o) : o \in Orders}

Rank(row) ==
  IF row \in Orders THEN 1
  ELSE IF row \in TicketProducts THEN 2
  ELSE IF row \in TransferProducts THEN 3
  ELSE IF row = PromoRow THEN 4
  ELSE IF row = EventRow THEN 5
  ELSE 6

\* One row may be locked before another.
Before(a, b) == Rank(a) < Rank(b) \/ (Rank(a) = Rank(b) /\ Rank(a) \in {2, 3} /\ a # b)

Ordered(list) == \A i, j \in DOMAIN list : i < j => Before(list[i], list[j])

SessionInv(s) ==
  /\ session[s] = [kind |-> session[s].kind, todo |-> session[s].todo,
                   held |-> session[s].held]
  /\ session[s].kind \in OrderKinds \cup {"none", "redeem", "deleteEvent"}
  /\ session[s].kind = "none" => session[s].todo = << >>
  /\ session[s].kind \in OrderKinds =>
       /\ session[s].todo \in Seq(AllRows) /\ Ordered(session[s].todo)
       /\ session[s].held \subseteq AllRows
       /\ \A row \in session[s].held, i \in DOMAIN session[s].todo :
            Before(row, session[s].todo[i])

LockInv ==
  /\ itemsOf \in [Orders -> Baskets]
  /\ session = [s \in Sessions |-> session[s]]
  /\ \A s \in Sessions : SessionInv(s)

LEMMA Ranks ==
  /\ \A o \in Orders : Rank(o) = 1 /\ Rank(TicketsRow(o)) = 6
  /\ \A p \in TicketProducts : Rank(p) = 2
  /\ \A p \in TransferProducts : Rank(p) = 3
  /\ Rank(PromoRow) = 4 /\ Rank(EventRow) = 5
<1>. DEFINE Rows6 == {TicketsRow(o) : o \in Orders}
<1>1. /\ Orders \cap TicketProducts = {} /\ Orders \cap TransferProducts = {}
      /\ Orders \cap {PromoRow} = {} /\ Orders \cap {EventRow} = {} /\ Orders \cap Rows6 = {}
      /\ TicketProducts \cap TransferProducts = {} /\ TicketProducts \cap {PromoRow} = {}
      /\ TicketProducts \cap {EventRow} = {} /\ TicketProducts \cap Rows6 = {}
      /\ TransferProducts \cap {PromoRow} = {} /\ TransferProducts \cap {EventRow} = {}
      /\ TransferProducts \cap Rows6 = {} /\ {PromoRow} \cap {EventRow} = {}
      /\ {PromoRow} \cap Rows6 = {} /\ {EventRow} \cap Rows6 = {}
  BY RowAssumption
<1>2. ASSUME NEW o \in Orders PROVE TicketsRow(o) \in Rows6
  OBVIOUS
<1>. HIDE DEF Rows6
<1>. QED
  BY <1>1, <1>2 DEF Rank

LEMMA RanksAre == \A row : Rank(row) \in 1..6
BY DEF Rank

\* Two lists of which one has only rows of lower ranks.
LEMMA OrderedConcat ==
  ASSUME NEW X, NEW Y, NEW a \in Seq(X), NEW b \in Seq(Y), Ordered(a), Ordered(b),
         \A x \in X, y \in Y : Rank(x) < Rank(y)
  PROVE  a \o b \in Seq(X \cup Y) /\ Ordered(a \o b)
<1>1. a \in Seq(X \cup Y) /\ b \in Seq(X \cup Y)
  OBVIOUS
<1>2. a \o b \in Seq(X \cup Y)
  BY <1>1
<1>3. /\ Len(a) \in Nat /\ Len(b) \in Nat /\ Len(a \o b) = Len(a) + Len(b)
      /\ DOMAIN (a \o b) = 1..(Len(a) + Len(b))
      /\ \A i \in 1..(Len(a) + Len(b)) :
           (a \o b)[i] = IF i <= Len(a) THEN a[i] ELSE b[i - Len(a)]
  BY <1>1
<1>4. ASSUME NEW i \in 1..(Len(a) + Len(b)), NEW j \in 1..(Len(a) + Len(b)), i < j
      PROVE  Before((a \o b)[i], (a \o b)[j])
  <2>1. CASE j <= Len(a)
    <3>1. i \in DOMAIN a /\ j \in DOMAIN a /\ i <= Len(a)
      BY <1>3, <1>4, <2>1
    <3>. QED
      BY <1>3, <1>4, <2>1, <3>1 DEF Ordered
  <2>2. CASE Len(a) < i
    <3>1. /\ i - Len(a) \in DOMAIN b /\ j - Len(a) \in DOMAIN b /\ i - Len(a) < j - Len(a)
          /\ ~ (i <= Len(a)) /\ ~ (j <= Len(a))
      BY <1>3, <1>4, <2>2
    <3>. QED
      BY <1>3, <1>4, <3>1 DEF Ordered
  <2>3. CASE i <= Len(a) /\ Len(a) < j
    <3>1. i \in 1..Len(a) /\ j - Len(a) \in 1..Len(b) /\ ~ (j <= Len(a))
      BY <1>3, <1>4, <2>3
    <3>2. a[i] \in X /\ b[j - Len(a)] \in Y
      BY <3>1
    <3>. QED
      BY <1>3, <1>4, <2>3, <3>1, <3>2 DEF Before
  <2>. QED
    BY <1>3, <1>4, <2>1, <2>2, <2>3
<1>. QED
  BY <1>2, <1>3, <1>4 DEF Ordered

LEMMA OneRow ==
  ASSUME NEW row
  PROVE  << >> \in Seq({row}) /\ Ordered(<< >>) /\ <<row>> \in Seq({row}) /\ Ordered(<<row>>)
BY DEF Ordered

\* The products of one kind come in any order, each of them once.
LEMMA ProductsOrdered ==
  ASSUME NEW S \in {TicketProducts, TransferProducts}, NEW f \in AnyOrder(S)
  PROVE  f \in Seq(S) /\ Ordered(f)
<1>1. PICK T \in SUBSET S : f \in SetToSeqs(T)
  BY DEF AnyOrder
<1>2. IsFiniteSet(S)
  BY RowAssumption
<1>3. Cardinality(T) \in Nat
  BY <1>2, Fewer
<1>4. /\ f \in [1..Cardinality(T) -> T]
      /\ \A i, j \in 1..Cardinality(T) : i # j => f[i] # f[j]
  BY <1>1 DEF SetToSeqs
<1>5. f \in Seq(S) /\ DOMAIN f = 1..Cardinality(T)
  BY <1>3, <1>4
<1>6. \A x, y \in S : Rank(x) = Rank(y) /\ Rank(x) \in {2, 3}
  BY Ranks
<1>7. ASSUME NEW i \in DOMAIN f, NEW j \in DOMAIN f, i < j PROVE Before(f[i], f[j])
  <2>1. i # j /\ f[i] \in S /\ f[j] \in S
    BY <1>3, <1>4, <1>5, <1>7
  <2>. QED
    BY <1>4, <1>5, <1>6, <2>1 DEF Before
<1>. QED
  BY <1>5, <1>7 DEF Ordered

LEMMA BasketOrdered ==
  ASSUME NEW s, s \in Baskets \/ s = << >>
  PROVE  s \in Seq(Products) /\ Ordered(s)
<1>1. CASE s \in Baskets
  <2>1. PICK ts \in AnyOrder(TicketProducts), fs \in AnyOrder(TransferProducts) : s = ts \o fs
    BY <1>1 DEF Baskets
  <2>2. ts \in Seq(TicketProducts) /\ Ordered(ts) /\ fs \in Seq(TransferProducts) /\ Ordered(fs)
    BY ProductsOrdered
  <2>3. \A x \in TicketProducts, y \in TransferProducts : Rank(x) < Rank(y)
    BY Ranks
  <2>. QED
    BY <2>1, <2>2, <2>3, OrderedConcat DEF Products
<1>2. CASE s = << >>
  BY <1>2 DEF Ordered
<1>. QED
  BY <1>1, <1>2

LEMMA CreateOrdered ==
  ASSUME NEW list \in CreateRows
  PROVE  list \in Seq(AllRows) /\ Ordered(list)
<1>. DEFINE X == {PromoRow}
            Y == {EventRow}
            last == <<EventRow>>
            P == Optionally(PromoRow)
<1>0. list \in {s \o p \o last : s \in Baskets, p \in P}
  <2>1. CreateRows = {s \o p \o <<EventRow>> : s \in Baskets, p \in Optionally(PromoRow)}
    BY DEF CreateRows
  <2>. QED
    BY <2>1
<1>. HIDE DEF last, P
<1>1. PICK s \in Baskets, p \in P : list = s \o p \o last
  BY <1>0
<1>. USE DEF last, P
<1>2. s \in Seq(Products) /\ Ordered(s)
  BY BasketOrdered
<1>3. p \in Seq(X) /\ Ordered(p) /\ last \in Seq(Y) /\ Ordered(last)
  BY OneRow DEF Optionally
<1>4. \A x \in Products, y \in X : Rank(x) < Rank(y)
  BY Ranks DEF Products
<1>5. \A x \in Products \cup X, y \in Y : Rank(x) < Rank(y)
  BY Ranks DEF Products
<1>6. Products \cup X \cup Y \subseteq AllRows
  BY DEF AllRows
<1>. HIDE DEF X, Y, last
<1>8. s \o p \in Seq(Products \cup X) /\ Ordered(s \o p)
  BY <1>2, <1>3, <1>4, OrderedConcat
<1>9. s \o p \o last \in Seq(Products \cup X \cup Y) /\ Ordered(s \o p \o last)
  BY <1>3, <1>5, <1>8, OrderedConcat
<1>. QED
  BY <1>1, <1>6, <1>9

\* What orders and their products lock together.
LEMMA OrderFirst ==
  ASSUME NEW o \in Orders, NEW s, s \in Baskets \/ s = << >>
  PROVE  <<o>> \o s \in Seq({o} \cup Products) /\ Ordered(<<o>> \o s)
<1>. DEFINE X == {o}
            first == <<o>>
<1>1. first \in Seq(X) /\ Ordered(first) /\ s \in Seq(Products) /\ Ordered(s)
  BY OneRow, BasketOrdered
<1>2. \A x \in X, y \in Products : Rank(x) < Rank(y)
  BY Ranks DEF Products
<1>. HIDE DEF X, first
<1>3. first \o s \in Seq(X \cup Products) /\ Ordered(first \o s)
  BY <1>1, <1>2, OrderedConcat
<1>. QED
  BY <1>3 DEF X, first

LEMMA ConfirmOrdered ==
  ASSUME LockInv, NEW o \in Orders, NEW list \in ConfirmRows(o)
  PROVE  list \in Seq(AllRows) /\ Ordered(list)
<1>1. PICK s \in {<< >>, itemsOf[o]} : list = <<o>> \o s \o <<TicketsRow(o)>>
  BY Zenon DEF ConfirmRows
<1>. DEFINE X == {o} \cup Products
            Y == {TicketsRow(o)}
            first == <<o>> \o s
            last == <<TicketsRow(o)>>
<1>2. s \in Baskets \/ s = << >>
  BY DEF LockInv
<1>3. first \in Seq(X) /\ Ordered(first)
  BY <1>2, OrderFirst
<1>4. last \in Seq(Y) /\ Ordered(last)
  BY OneRow
<1>5. \A x \in X, y \in Y : Rank(x) < Rank(y)
  BY Ranks DEF Products
<1>6. X \cup Y \subseteq AllRows
  BY DEF AllRows
<1>7. list = first \o last
  BY <1>1
<1>. HIDE DEF X, Y, first, last
<1>8. first \o last \in Seq(X \cup Y) /\ Ordered(first \o last)
  BY <1>3, <1>4, <1>5, OrderedConcat
<1>. QED
  BY <1>6, <1>7, <1>8

LEMMA CancelOrdered ==
  ASSUME LockInv, NEW o \in Orders, NEW list \in CancelRows(o)
  PROVE  list \in Seq({o} \cup Products \cup {PromoRow}) /\ Ordered(list)
<1>. DEFINE S == {<< >>, itemsOf[o]}
            P == Optionally(PromoRow)
            head == <<o>>
<1>0. list \in {head \o s \o p : s \in S, p \in P}
  BY DEF CancelRows
<1>. HIDE DEF head, S, P
<1>1. PICK s \in S, p \in P : list = head \o s \o p
  BY <1>0
<1>. USE DEF head, S, P
<1>. DEFINE X == {o} \cup Products
            Y == {PromoRow}
            first == <<o>> \o s
<1>2. s \in Baskets \/ s = << >>
  BY DEF LockInv
<1>3. first \in Seq(X) /\ Ordered(first)
  BY <1>2, OrderFirst
<1>4. p \in Seq(Y) /\ Ordered(p)
  BY OneRow DEF Optionally
<1>5. \A x \in X, y \in Y : Rank(x) < Rank(y)
  BY Ranks DEF Products
<1>6. list = first \o p
  BY <1>1
<1>. HIDE DEF X, Y, first
<1>7. first \o p \in Seq(X \cup Y) /\ Ordered(first \o p)
  BY <1>3, <1>4, <1>5, OrderedConcat
<1>. QED
  BY <1>6, <1>7 DEF X, Y

LEMMA DeleteOrdered ==
  ASSUME LockInv, NEW o \in Orders, NEW list \in DeleteRows(o)
  PROVE  list \in Seq(AllRows) /\ Ordered(list)
<1>1. PICK first \in CancelRows(o) : list = first \o <<TicketsRow(o)>>
  BY Zenon DEF DeleteRows
<1>. DEFINE X == {o} \cup Products \cup {PromoRow}
            Y == {TicketsRow(o)}
            last == <<TicketsRow(o)>>
<1>2. first \in Seq(X) /\ Ordered(first)
  BY CancelOrdered
<1>3. last \in Seq(Y) /\ Ordered(last)
  BY OneRow
<1>4. \A x \in X, y \in Y : Rank(x) < Rank(y)
  BY Ranks DEF Products
<1>5. X \cup Y \subseteq AllRows
  BY DEF AllRows
<1>6. list = first \o last
  BY <1>1
<1>. HIDE DEF X, Y, last
<1>7. first \o last \in Seq(X \cup Y) /\ Ordered(first \o last)
  BY <1>2, <1>3, <1>4, OrderedConcat
<1>. QED
  BY <1>5, <1>6, <1>7

\* A step of one transaction.
LEMMA OneSessionKeeps ==
  ASSUME LockInv, UNCHANGED itemsOf, NEW s \in Sessions, NEW next,
         session' = [session EXCEPT ![s] = next],
         SessionInv(s)'
  PROVE  LockInv'
<1>1. session' = [t \in Sessions |-> session'[t]]
  BY DEF LockInv
<1>2. ASSUME NEW t \in Sessions, t # s PROVE SessionInv(t)'
  <2>1. session'[t] = session[t]
    BY <1>2 DEF LockInv
  <2>. QED
    BY <2>1 DEF LockInv, SessionInv
<1>. QED
  BY <1>1, <1>2 DEF LockInv

LEMMA OpenKeeps ==
  ASSUME LockInv, NEW s \in Sessions, NEW kind, NEW list, Open(s, kind, list),
         kind \in OrderKinds \cup {"redeem", "deleteEvent"},
         kind \in OrderKinds => list \in Seq(AllRows) /\ Ordered(list)
  PROVE  LockInv'
<1>. DEFINE next == [kind |-> kind, todo |-> list, held |-> {}]
<1>1. session' = [session EXCEPT ![s] = next] /\ UNCHANGED itemsOf
  BY DEF Open
<1>2. session'[s] = next
  BY <1>1 DEF LockInv
<1>3. SessionInv(s)'
  BY <1>2 DEF SessionInv, OrderKinds
<1>. QED
  BY <1>1, <1>3, OneSessionKeeps

LEMMA BeginShopKeeps ==
  ASSUME LockInv, NEW s \in Sessions, BeginShop(s)
  PROVE  LockInv'
<1>1. ASSUME NEW list \in CreateRows, Open(s, "create", list) PROVE LockInv'
  BY <1>1, CreateOrdered, OpenKeeps DEF OrderKinds
<1>2. ASSUME NEW list \in DeleteEventRows, Open(s, "deleteEvent", list) PROVE LockInv'
  BY <1>2, OpenKeeps DEF OrderKinds
<1>3. ASSUME NEW o \in Orders, NEW list \in ConfirmRows(o), Open(s, "confirm", list)
      PROVE  LockInv'
  BY <1>3, ConfirmOrdered, OpenKeeps DEF OrderKinds
<1>4. ASSUME NEW o \in Orders, NEW list \in CancelRows(o), Open(s, "cancel", list)
      PROVE  LockInv'
  <2>1. list \in Seq({o} \cup Products \cup {PromoRow}) /\ Ordered(list)
    BY CancelOrdered
  <2>2. {o} \cup Products \cup {PromoRow} \subseteq AllRows
    BY DEF AllRows
  <2>3. list \in Seq(AllRows)
    BY <2>1, <2>2
  <2>. QED
    BY <1>4, <2>1, <2>3, OpenKeeps DEF OrderKinds
<1>5. ASSUME NEW o \in Orders, NEW list \in DeleteRows(o), Open(s, "delete", list)
      PROVE  LockInv'
  BY <1>5, DeleteOrdered, OpenKeeps DEF OrderKinds
<1>6. ASSUME NEW o \in Orders, NEW list \in RedeemRows(o), Open(s, "redeem", list)
      PROVE  LockInv'
  BY <1>6, OpenKeeps DEF OrderKinds
<1>. QED
  BY <1>1, <1>2, <1>3, <1>4, <1>5, <1>6 DEF BeginShop

LEMMA LockRowKeeps ==
  ASSUME LockInv, NEW s \in Sessions, LockRow(s)
  PROVE  LockInv'
<1>0. PICK todo, kept, kind : todo = session[s].todo /\ kept = session[s].held
                              /\ kind = session[s].kind
  OBVIOUS
<1>. DEFINE next == [kind |-> kind, todo |-> Tail(todo), held |-> kept \cup {Head(todo)}]
<1>1. /\ UNCHANGED itemsOf /\ todo # << >> /\ SessionInv(s)
      /\ session' = [session EXCEPT ![s].held = @ \cup {Head(session[s].todo)},
                                    ![s].todo = Tail(@)]
  BY <1>0 DEF LockRow, LockInv
<1>2. session[s] = [kind |-> kind, todo |-> todo, held |-> kept]
  BY <1>0, <1>1 DEF SessionInv
<1>3. session'[s] = next
  BY <1>0, <1>1, <1>2 DEF LockInv
<1>4. session' = [session EXCEPT ![s] = next]
  <2>1. /\ DOMAIN session' = Sessions /\ session' = [t \in DOMAIN session' |-> session'[t]]
        /\ \A t \in Sessions : t # s => session'[t] = session[t]
    BY <1>1 DEF LockInv
  <2>. QED
    BY <1>3, <2>1 DEF LockInv
<1>5. kind # "none" /\ kind \in OrderKinds \cup {"redeem", "deleteEvent"}
  BY <1>0, <1>1 DEF SessionInv
<1>6. ASSUME kind \in OrderKinds
      PROVE  /\ Tail(todo) \in Seq(AllRows) /\ Ordered(Tail(todo))
             /\ kept \cup {Head(todo)} \subseteq AllRows
             /\ \A row \in kept \cup {Head(todo)}, i \in DOMAIN Tail(todo) :
                  Before(row, Tail(todo)[i])
  <2>1. /\ todo \in Seq(AllRows) /\ Ordered(todo) /\ kept \subseteq AllRows
        /\ \A row \in kept, i \in DOMAIN todo : Before(row, todo[i])
    BY <1>0, <1>1, <1>6 DEF SessionInv
  <2>2. /\ Tail(todo) \in Seq(AllRows) /\ Head(todo) \in AllRows /\ Head(todo) = todo[1]
        /\ 1 \in DOMAIN todo
        /\ \A i \in DOMAIN Tail(todo) :
             i + 1 \in DOMAIN todo /\ 1 < i + 1 /\ i \in Nat /\ Tail(todo)[i] = todo[i + 1]
    BY <1>1, <2>1
  <2>3. Ordered(Tail(todo))
    <3>1. ASSUME NEW i \in DOMAIN Tail(todo), NEW j \in DOMAIN Tail(todo), i < j
          PROVE  Before(Tail(todo)[i], Tail(todo)[j])
      <4>1. i + 1 < j + 1
        BY <2>2, <3>1
      <4>. QED
        BY <2>1, <2>2, <4>1 DEF Ordered
    <3>. QED
      BY <3>1 DEF Ordered
  <2>4. \A i \in DOMAIN Tail(todo) : Before(Head(todo), Tail(todo)[i])
    BY <2>1, <2>2 DEF Ordered
  <2>. QED
    BY <2>1, <2>2, <2>3, <2>4
<1>7. SessionInv(s)'
  BY <1>3, <1>5, <1>6 DEF SessionInv
<1>. QED
  BY <1>1, <1>4, <1>7, OneSessionKeeps

LEMMA EndTransactionKeeps ==
  ASSUME LockInv, NEW s \in Sessions, EndTransaction(s)
  PROVE  LockInv'
<1>1. session' = [session EXCEPT ![s] = Resting] /\ UNCHANGED itemsOf
  BY DEF EndTransaction
<1>2. session'[s] = Resting
  BY <1>1 DEF LockInv
<1>3. SessionInv(s)'
  BY <1>2 DEF SessionInv, Resting, OrderKinds
<1>. QED
  BY <1>1, <1>3, OneSessionKeeps

LEMMA LockInitial == LockInit => LockInv
BY DEF LockInit, LockInv, SessionInv, Resting, OrderKinds

LEMMA LockStep == LockInv /\ [LockNext]_lockVars => LockInv'
<1>1. SUFFICES ASSUME LockInv, [LockNext]_lockVars PROVE LockInv'
  OBVIOUS
<1>2. ASSUME NEW s \in Sessions, BeginShop(s) PROVE LockInv'
  BY <1>1, <1>2, BeginShopKeeps
<1>3. ASSUME NEW s \in Sessions, LockRow(s) PROVE LockInv'
  BY <1>1, <1>3, LockRowKeeps
<1>4. ASSUME NEW s \in Sessions, Commit(s) \/ StatementFails(s) \/ BreakDeadlock(s)
      PROVE  LockInv'
  BY <1>1, <1>4, EndTransactionKeeps DEF Commit, StatementFails, BreakDeadlock
<1>5. CASE UNCHANGED lockVars
  BY <1>1, <1>5 DEF lockVars, LockInv, SessionInv
<1>. QED
  BY <1>1, <1>2, <1>3, <1>4, <1>5 DEF LockNext

\* A transaction that waits for another one, which waits too, does so for a row
\* that comes before the other's, or for another product of the same kind.
LEMMA WaitingRises ==
  ASSUME LockInv, NEW s \in Sessions, NEW t \in Sessions, WaitsFor(s, t),
         session[t].todo # << >>, session[t].kind \notin {"redeem", "deleteEvent"}
  PROVE  Before(Head(session[s].todo), Head(session[t].todo))
<1>1. SessionInv(t) /\ session[t].kind \in OrderKinds
  BY DEF LockInv, SessionInv
<1>2. /\ session[t].todo \in Seq(AllRows)
      /\ \A row \in session[t].held, i \in DOMAIN session[t].todo :
           Before(row, session[t].todo[i])
  BY <1>1 DEF SessionInv
<1>3. 1 \in DOMAIN session[t].todo /\ Head(session[t].todo) = session[t].todo[1]
  BY <1>2
<1>4. Head(session[s].todo) \in session[t].held
  BY DEF WaitsFor, Excludes
<1>. QED
  BY <1>2, <1>3, <1>4

LEMMA WaitingRow ==
  ASSUME LockInv, NEW s \in Sessions, session[s].todo # << >>,
         session[s].kind \notin {"redeem", "deleteEvent"}
  PROVE  Head(session[s].todo) \in AllRows
<1>1. session[s].kind \in OrderKinds /\ session[s].todo \in Seq(AllRows)
  BY DEF LockInv, SessionInv
<1>. QED
  BY <1>1

\* A row of a kind with several rows is a product.
LEMMA ProductRanks ==
  ASSUME NEW row \in AllRows
  PROVE  /\ Rank(row) = 2 => row \in TicketProducts
         /\ Rank(row) = 3 => row \in TransferProducts
BY DEF Rank

\* Transactions on orders that wait for each other in a circle do so over two
\* products of a kind, however many they are and however many products there
\* are: createOrderTx, ConfirmOrder, CancelOrder and DeleteOrder lock the kinds
\* of rows in one order.
THEOREM CirclesTheorem == LockSpec => []CirclesOverProducts
<1>1. LockInv => CirclesOverProducts
  <2>1. SUFFICES ASSUME LockInv, NEW S \in SUBSET Sessions, Circle(S),
                        \A s \in S : session[s].kind \notin {"redeem", "deleteEvent"}
                 PROVE  \E Both \in {TicketProducts, TransferProducts} :
                          \E s, t \in S :
                            /\ {Head(session[s].todo), Head(session[t].todo)} \subseteq Both
                            /\ Head(session[s].todo) # Head(session[t].todo)
    BY DEF CirclesOverProducts
  <2>. DEFINE wants(s) == Head(session[s].todo)
              T == {Rank(wants(s)) : s \in S}
  <2>2. \A s \in S : session[s].todo # << >>
    BY <2>1 DEF Circle, WaitsFor
  <2>3. \A s \in S : wants(s) \in AllRows
    BY <2>1, <2>2, WaitingRow
  <2>4. T \subseteq 0..6 /\ T # {}
    BY <2>1, RanksAre DEF Circle
  <2>5. PICK top \in T : \A y \in T : y <= top
    <3>. HIDE DEF T
    <3>. QED
      BY <2>4, Greatest
  <2>6. PICK s \in S : top = Rank(wants(s))
    OBVIOUS
  <2>7. PICK t \in S : WaitsFor(s, t)
    BY <2>1 DEF Circle
  <2>8. Before(wants(s), wants(t))
    BY <2>1, <2>2, <2>7, WaitingRises
  <2>9. Rank(wants(t)) <= Rank(wants(s))
    BY <2>5, <2>6
  <2>10. /\ Rank(wants(t)) = Rank(wants(s)) /\ Rank(wants(s)) \in {2, 3}
         /\ wants(s) # wants(t)
    BY <2>8, <2>9, RanksAre DEF Before
  <2>11. {wants(s), wants(t)} \subseteq TicketProducts
         \/ {wants(s), wants(t)} \subseteq TransferProducts
    BY <2>3, <2>10, ProductRanks
  <2>. QED
    BY <2>10, <2>11
<1>. QED
  BY <1>1, LockInitial, LockStep, PTL DEF LockSpec

-----------------------------------------------------------------------------
(***************************************************************************)
(* The logins: the rows of users are never taken back, so that a request   *)
(* that finds none began before there was one, and what Telegram has       *)
(* signed keeps the date of its signature through the exchange.            *)
(***************************************************************************)
PendingLogons ==
  [at : LogonSteps, person : Persons, admin : BOOLEAN, new : BOOLEAN,
   early : BOOLEAN, fresh : BOOLEAN]

Admitted == [at : {"guard", "inside"}, owner : Persons, admin : BOOLEAN]

LogonInv(r) ==
  \/ logon[r] = Idle
  \/ /\ logon[r] \in PendingLogons
     /\ logon[r].fresh
     /\ logon[r].new \/ logon[r].person \notin users => logon[r].early
  \/ logon[r] \in Admitted

LoginInv ==
  /\ today \in 0..EndOfTime
  /\ held \subseteq Credentials
  /\ \A c \in held : c.kind \in TelegramKinds => c.date = c.signed
  /\ users \subseteq Persons /\ blocked \subseteq users
  /\ tokens \subseteq AccessTokens
  /\ TokensEarned
  /\ logon = [r \in Logons |-> logon[r]]
  /\ \A r \in Logons : LogonInv(r)

\* What of the invariant is about neither the requests nor the rows.
CredentialsInv ==
  /\ today \in 0..EndOfTime
  /\ held \subseteq Credentials
  /\ \A c \in held : c.kind \in TelegramKinds => c.date = c.signed
  /\ tokens \subseteq AccessTokens
  /\ TokensEarned

\* A request moves, and at most its person gets a row.
LEMMA OneLogonKeeps ==
  ASSUME LoginInv, NEW r \in Logons, NEW next, Moves(r, next), LogonInv(r)',
         users \subseteq users', users' \subseteq Persons, blocked' \subseteq users',
         CredentialsInv'
  PROVE  LoginInv'
<1>1. logon' = [logon EXCEPT ![r] = next]
  BY DEF Moves
<1>2. logon' = [q \in Logons |-> logon'[q]]
  BY <1>1 DEF LoginInv
<1>3. ASSUME NEW q \in Logons, q # r PROVE LogonInv(q)'
  <2>1. logon'[q] = logon[q]
    BY <1>1, <1>3 DEF LoginInv
  <2>. QED
    BY <2>1 DEF LoginInv, LogonInv
<1>. QED
  BY <1>2, <1>3 DEF LoginInv, CredentialsInv

\* The same when nothing else changes.
LEMMA LogonMoves ==
  ASSUME LoginInv, NEW r \in Logons, NEW next, Moves(r, next),
         UNCHANGED <<today, held, users, blocked, tokens>>,
         next = Idle
         \/ /\ next \in PendingLogons /\ next.fresh
            /\ next.new \/ next.person \notin users => next.early
         \/ next \in Admitted
  PROVE  LoginInv'
<1>1. logon'[r] = next
  BY DEF Moves, LoginInv
<1>2. LogonInv(r)'
  BY <1>1 DEF LogonInv
<1>3. CredentialsInv'
  BY DEF CredentialsInv, LoginInv, TokensEarned
<1>. QED
  BY <1>2, <1>3, OneLogonKeeps DEF LoginInv

\* A request that waits for a statement.
LEMMA PendingLogon ==
  ASSUME LoginInv, NEW r \in Logons, logon[r].at \in LogonSteps
  PROVE  /\ logon[r] \in PendingLogons /\ logon[r].fresh
         /\ logon[r].new \/ logon[r].person \notin users => logon[r].early
BY DEF LoginInv, LogonInv, Idle, Admitted, LogonSteps

LEMMA LogonGoesOn ==
  ASSUME LoginInv, NEW r \in Logons, logon[r].at \in LogonSteps, NEW to \in LogonSteps,
         Moves(r, [logon[r] EXCEPT !.at = to]),
         UNCHANGED <<today, held, users, blocked, tokens>>
  PROVE  LoginInv'
<1>. DEFINE next == [logon[r] EXCEPT !.at = to]
<1>1. /\ next \in PendingLogons /\ next.fresh
      /\ next.new \/ next.person \notin users => next.early
  BY PendingLogon DEF PendingLogons
<1>. HIDE DEF next
<1>2. Moves(r, next)
  BY DEF next
<1>. QED
  BY <1>1, <1>2, LogonMoves

LEMMA LogonBegins ==
  ASSUME LoginInv, NEW r \in Logons, NEW c, NEW to \in LogonSteps,
         NEW dated \in BOOLEAN, Begin(r, c, to, dated), c.person \in Persons,
         dated => today <= c.signed + MaxAge
  PROVE  LoginInv'
<1>. DEFINE next == [at |-> to, person |-> c.person, admin |-> c.kind = "password",
                     new |-> FALSE, early |-> c.person \notin users,
                     fresh |-> dated => today <= c.signed + MaxAge]
<1>1. Moves(r, next)
  BY DEF Begin
<1>2. UNCHANGED <<today, held, users, blocked, tokens>>
  BY DEF Begin
<1>3. /\ next \in PendingLogons /\ next.fresh
      /\ next.new \/ next.person \notin users => next.early
  BY DEF PendingLogons
<1>. HIDE DEF next
<1>. QED
  BY <1>1, <1>2, <1>3, LogonMoves

LEMMA UpsertKeeps ==
  ASSUME LoginInv, NEW r \in Logons, Upsert(r)
  PROVE  LoginInv'
<1>. DEFINE p == logon[r].person
            next == [logon[r] EXCEPT !.at = "sign", !.new = p \notin users]
<1>1. /\ logon[r] \in PendingLogons /\ logon[r].fresh
      /\ p \notin users => logon[r].early
  BY PendingLogon DEF Upsert, LogonSteps
<1>2. /\ next \in PendingLogons /\ next.fresh /\ next.person = p
      /\ next.new => next.early
  BY <1>1 DEF PendingLogons, LogonSteps
<1>3. Moves(r, next) /\ users' = users \cup {p} /\ UNCHANGED <<today, held, blocked, tokens>>
  BY DEF Upsert, Enrol, Person
<1>4. p \in Persons
  BY <1>1 DEF PendingLogons
<1>. HIDE DEF next
<1>5. logon'[r] = next
  BY <1>3 DEF Moves, LoginInv
<1>6. logon'[r].person \in users'
  BY <1>2, <1>3, <1>5
<1>7. LogonInv(r)'
  BY <1>2, <1>5, <1>6 DEF LogonInv
<1>8. CredentialsInv'
  BY <1>3 DEF CredentialsInv, LoginInv, TokensEarned
<1>. QED
  BY <1>3, <1>4, <1>7, <1>8, OneLogonKeeps DEF LoginInv

LEMMA ReadUserKeeps ==
  ASSUME LoginInv, NEW r \in Logons, ReadUser(r)
  PROVE  LoginInv'
<1>. DEFINE p == logon[r].person
<1>1. /\ logon[r] \in PendingLogons /\ logon[r].fresh
      /\ logon[r].new \/ p \notin users => logon[r].early
      /\ UNCHANGED <<today, held, users, blocked, tokens>>
      /\ logon[r].at \in LogonSteps
  BY PendingLogon DEF ReadUser, LogonSteps
<1>2. CASE p \in users
  <2>1. Moves(r, [logon[r] EXCEPT !.at = "sign"])
    BY <1>2 DEF ReadUser, Person
  <2>. QED
    BY <1>1, <2>1, LogonGoesOn DEF LogonSteps
<1>3. CASE p \notin users
  <2>. DEFINE next == [logon[r] EXCEPT !.at = "ensure", !.new = TRUE]
  <2>1. Moves(r, next)
    BY <1>3 DEF ReadUser, Person
  <2>2. /\ next \in PendingLogons /\ next.fresh
        /\ next.new \/ next.person \notin users => next.early
    BY <1>1, <1>3 DEF PendingLogons, LogonSteps
  <2>. HIDE DEF next
  <2>. QED
    BY <1>1, <2>1, <2>2, LogonMoves
<1>. QED
  BY <1>2, <1>3

LEMMA EnsureInsertKeeps ==
  ASSUME LoginInv, NEW r \in Logons, EnsureInsert(r)
  PROVE  LoginInv'
<1>. DEFINE p == logon[r].person
<1>1. /\ logon[r] \in PendingLogons /\ logon[r].fresh
      /\ logon[r].new \/ p \notin users => logon[r].early
  BY PendingLogon DEF EnsureInsert, LogonSteps
<1>2. users' = users \cup {p} /\ UNCHANGED <<today, held, blocked, tokens>> /\ p \in Persons
  BY <1>1 DEF EnsureInsert, Enrol, Person, PendingLogons
<1>3. CredentialsInv'
  BY <1>2 DEF CredentialsInv, LoginInv, TokensEarned
<1>4. CASE Moves(r, Idle)
  <2>1. LogonInv(r)'
    BY <1>4 DEF Moves, LoginInv, LogonInv
  <2>. QED
    BY <1>2, <1>3, <1>4, <2>1, OneLogonKeeps DEF LoginInv
<1>5. CASE Moves(r, [logon[r] EXCEPT !.at = AfterEnsure(r)])
  <2>. DEFINE next == [logon[r] EXCEPT !.at = AfterEnsure(r)]
  <2>1. AfterEnsure(r) \in LogonSteps
    BY DEF AfterEnsure, LogonSteps
  <2>2. /\ next \in PendingLogons /\ next.fresh /\ next.person = p
        /\ next.new => next.early
    BY <1>1, <2>1 DEF PendingLogons
  <2>. HIDE DEF next
  <2>3. Moves(r, next)
    BY <1>5 DEF next
  <2>4. logon'[r] = next
    BY <2>3 DEF Moves, LoginInv
  <2>5. logon'[r].person \in users'
    BY <1>2, <2>2, <2>4
  <2>6. LogonInv(r)'
    BY <2>2, <2>4, <2>5 DEF LogonInv
  <2>. QED
    BY <1>2, <1>3, <2>3, <2>6, OneLogonKeeps DEF LoginInv
<1>. QED
  BY <1>4, <1>5 DEF EnsureInsert

LEMMA ExchangeKeeps ==
  ASSUME LoginInv, NEW r \in Logons, ExchangeCode(r)
  PROVE  LoginInv'
<1>. DEFINE next == [logon[r] EXCEPT !.at = "info"]
<1>1. /\ logon[r] \in PendingLogons /\ logon[r].fresh
      /\ logon[r].new \/ logon[r].person \notin users => logon[r].early
  BY PendingLogon DEF ExchangeCode, LogonSteps
<1>2. Moves(r, next) /\ held' \subseteq held /\ UNCHANGED <<today, users, blocked, tokens>>
  BY DEF ExchangeCode
<1>3. /\ next \in PendingLogons /\ next.fresh
      /\ next.new \/ next.person \notin users => next.early
  BY <1>1 DEF PendingLogons, LogonSteps
<1>. HIDE DEF next
<1>4. LogonInv(r)'
  BY <1>2, <1>3 DEF Moves, LoginInv, LogonInv
<1>5. CredentialsInv'
  BY <1>2 DEF CredentialsInv, LoginInv, TokensEarned
<1>. QED
  BY <1>2, <1>4, <1>5, OneLogonKeeps DEF LoginInv

LEMMA SignAccessTokenKeeps ==
  ASSUME LoginInv, NEW r \in Logons, SignAccessToken(r)
  PROVE  LoginInv'
<1>. DEFINE token == [owner |-> logon[r].person, new |-> logon[r].new,
                      admin |-> logon[r].admin, at |-> today,
                      early |-> logon[r].early, fresh |-> logon[r].fresh]
<1>1. /\ logon[r] \in PendingLogons /\ logon[r].fresh
      /\ logon[r].new => logon[r].early
  BY PendingLogon DEF SignAccessToken, LogonSteps
<1>2. /\ tokens' = tokens \cup {token} /\ Moves(r, Idle)
      /\ UNCHANGED <<today, held, users, blocked>>
  BY DEF SignAccessToken, Person
<1>3. token \in AccessTokens /\ (token.new => token.early) /\ token.fresh
  BY <1>1 DEF AccessTokens, PendingLogons, LoginInv
<1>. HIDE DEF token
<1>4. CredentialsInv'
  BY <1>2, <1>3 DEF CredentialsInv, LoginInv, TokensEarned
<1>5. LogonInv(r)'
  BY <1>2 DEF Moves, LoginInv, LogonInv
<1>. QED
  BY <1>2, <1>4, <1>5, OneLogonKeeps DEF LoginInv

\* What happens beside the requests.
LEMMA BesideLogons ==
  ASSUME LoginInv, UNCHANGED <<users, blocked, logon>>, CredentialsInv'
  PROVE  LoginInv'
BY DEF LoginInv, CredentialsInv, LogonInv

LEMMA HoldsKeeps ==
  ASSUME LoginInv, NEW c \in Credentials, held' \subseteq held \cup {c},
         c.kind \in TelegramKinds => c.date = c.signed,
         UNCHANGED <<today, users, blocked, tokens, logon>>
  PROVE  LoginInv'
<1>1. CredentialsInv'
  BY DEF LoginInv, CredentialsInv, TokensEarned
<1>. QED
  BY <1>1, BesideLogons

LEMMA SignKeeps ==
  ASSUME LoginInv, NEW p \in Persons, NEW kind \in TelegramKinds \cup VKKinds,
         Sign(kind, p)
  PROVE  LoginInv'
<1>1. PICK date \in {today, 0} :
        /\ kind \in TelegramKinds => date = today
        /\ held' = held \cup {[kind |-> kind, person |-> p, date |-> date, signed |-> date]}
  BY DEF Sign, Holds
<1>. DEFINE c == [kind |-> kind, person |-> p, date |-> date, signed |-> date]
<1>2. date \in 0..EndOfTime
  BY LoginAssumption DEF LoginInv
<1>3. c \in Credentials /\ c.date = c.signed
  BY <1>2 DEF Credentials
<1>. HIDE DEF c
<1>4. held' \subseteq held \cup {c} /\ UNCHANGED <<today, users, blocked, tokens, logon>>
  BY <1>1 DEF Sign, c
<1>. QED
  BY <1>3, <1>4, HoldsKeeps

LEMMA VKStartKeeps ==
  ASSUME LoginInv, NEW p \in Persons, AuthVKStart(p)
  PROVE  LoginInv'
<1>. DEFINE c == [kind |-> "vkCode", person |-> p, date |-> today, signed |-> today]
<1>1. c \in Credentials /\ c.date = c.signed
  BY DEF Credentials, LoginInv, VKKinds
<1>2. held' = held \cup {c} /\ UNCHANGED <<today, users, blocked, tokens, logon>>
  BY DEF AuthVKStart, Holds
<1>. HIDE DEF c
<1>. QED
  BY <1>1, <1>2, HoldsKeeps

LEMMA StandaloneExchangeKeeps ==
  ASSUME LoginInv, NEW c \in held, StandaloneAuthExchange(c) \/ Forget(c)
  PROVE  LoginInv'
<1>1. CASE StandaloneAuthExchange(c)
  <2>. DEFINE d == [c EXCEPT !.kind = "initData"]
  <2>1. c \in Credentials /\ c.kind = "widget" /\ c.date = c.signed
    BY <1>1 DEF LoginInv, StandaloneAuthExchange, ValidateLoginWidgetPayload, TelegramKinds
  <2>2. d \in Credentials /\ d.date = d.signed
    BY <2>1 DEF Credentials, TelegramKinds
  <2>3. held' = held \cup {d} /\ UNCHANGED <<today, users, blocked, tokens, logon>>
    BY <1>1 DEF StandaloneAuthExchange, BuildWebAppInitData
  <2>. HIDE DEF d
  <2>. QED
    BY <2>2, <2>3, HoldsKeeps
<1>2. CASE Forget(c)
  <2>1. CredentialsInv'
    BY <1>2 DEF Forget, LoginInv, CredentialsInv, TokensEarned
  <2>. QED
    BY <1>2, <2>1, BesideLogons DEF Forget
<1>. QED
  BY <1>1, <1>2

LEMMA TomorrowKeeps ==
  ASSUME LoginInv, Tomorrow
  PROVE  LoginInv'
<1>1. today' \in 0..EndOfTime
  BY LoginAssumption DEF Tomorrow, LoginInv
<1>2. held' \subseteq held /\ tokens' \subseteq tokens /\ UNCHANGED <<users, blocked, logon>>
  BY DEF Tomorrow
<1>3. CredentialsInv'
  BY <1>1, <1>2 DEF LoginInv, CredentialsInv, TokensEarned
<1>. QED
  BY <1>2, <1>3, BesideLogons

\* The ways in, each with the credential it looks at.
LEMMA WaysIn ==
  ASSUME LoginInv, NEW r \in Logons, NEW c \in held,
         (\E dated \in BOOLEAN : AuthTelegram(r, c, dated))
         \/ AuthVKLegacy(r, c) \/ AuthVKCodeFlow(r, c) \/ AuthVKMiniApp(r, c)
  PROVE  LoginInv'
<1>1. c.person \in Persons
  BY DEF LoginInv, Credentials
<1>2. ASSUME NEW dated \in BOOLEAN, AuthTelegram(r, c, dated) PROVE LoginInv'
  <2>1. Begin(r, c, "upsert", dated) /\ "upsert" \in LogonSteps
    BY <1>2 DEF AuthTelegram, LogonSteps
  <2>2. c.date = c.signed /\ (dated => Young(c))
    BY <1>2 DEF AuthTelegram, ValidateInitData, LoginInv, TelegramKinds
  <2>3. dated => today <= c.signed + MaxAge
    BY <2>2 DEF Young
  <2>. QED
    BY <1>1, <2>1, <2>3, LogonBegins
<1>3. CASE AuthVKLegacy(r, c) \/ AuthVKCodeFlow(r, c) \/ AuthVKMiniApp(r, c)
  <2>1. PICK to \in LogonSteps : Begin(r, c, to, FALSE)
    BY <1>3 DEF AuthVKLegacy, AuthVKCodeFlow, AuthVKMiniApp, LogonSteps
  <2>. QED
    BY <1>1, <2>1, LogonBegins
<1>. QED
  BY <1>2, <1>3

LEMMA AdminWayIn ==
  ASSUME LoginInv, NEW r \in Logons, NEW p \in Persons, AuthAdmin(r, p)
  PROVE  LoginInv'
<1>. DEFINE c == [kind |-> "password", person |-> p, date |-> 0, signed |-> 0]
<1>1. Begin(r, c, "ensure", FALSE) /\ "ensure" \in LogonSteps
  BY DEF AuthAdmin, LogonSteps
<1>2. c.person \in Persons
  OBVIOUS
<1>. HIDE DEF c
<1>. QED
  BY <1>1, <1>2, LogonBegins

LEMMA StatementKeeps ==
  ASSUME LoginInv, NEW r \in Logons,
         GetUser(r) \/ GetUserInfo(r) \/ EnsureRead(r) \/ Touch(r)
  PROVE  LoginInv'
<1>1. logon[r].at \in LogonSteps /\ UNCHANGED <<today, held, users, blocked, tokens>>
  BY DEF GetUser, GetUserInfo, EnsureRead, Touch, LogonSteps
<1>2. \E to \in LogonSteps : Moves(r, [logon[r] EXCEPT !.at = to])
  <2>1. CASE GetUser(r) \/ GetUserInfo(r)
    <3>1. Moves(r, [logon[r] EXCEPT !.at = "upsert"])
      BY <2>1 DEF GetUser, GetUserInfo
    <3>. QED
      BY <3>1 DEF LogonSteps
  <2>2. CASE EnsureRead(r)
    <3>. DEFINE to == IF Person(r) \in users THEN AfterEnsure(r) ELSE "insert"
    <3>1. to \in LogonSteps
      BY DEF AfterEnsure, LogonSteps
    <3>2. Moves(r, [logon[r] EXCEPT !.at = to])
      BY <2>2 DEF EnsureRead
    <3>. HIDE DEF to
    <3>. QED
      BY <3>1, <3>2
  <2>3. CASE Touch(r)
    <3>1. Moves(r, [logon[r] EXCEPT !.at = "sign"])
      BY <2>3 DEF Touch
    <3>. QED
      BY <3>1 DEF LogonSteps
  <2>. QED
    BY <2>1, <2>2, <2>3
<1>3. PICK to \in LogonSteps : Moves(r, [logon[r] EXCEPT !.at = to])
  BY <1>2
<1>. QED
  BY <1>1, <1>3, LogonGoesOn

\* The middleware and the handler behind it.
LEMMA MiddlewareKeeps ==
  ASSUME LoginInv, NEW r \in Logons,
         LogonFails(r) \/ IsUserBlocked(r) \/ (\E t \in tokens : Authenticate(r, t))
  PROVE  LoginInv'
<1>1. CASE LogonFails(r)
  BY <1>1, LogonMoves DEF LogonFails
<1>2. CASE IsUserBlocked(r)
  <2>1. UNCHANGED <<today, held, users, blocked, tokens>> /\ logon[r].at = "guard"
    BY <1>2 DEF IsUserBlocked
  <2>2. logon[r] \in Admitted
    BY <2>1 DEF LoginInv, LogonInv, Idle, PendingLogons, LogonSteps
  <2>3. [logon[r] EXCEPT !.at = "inside"] \in Admitted
    BY <2>2 DEF Admitted
  <2>4. CASE Moves(r, Idle)
    BY <2>1, <2>4, LogonMoves
  <2>5. CASE Moves(r, [logon[r] EXCEPT !.at = "inside"])
    BY <2>1, <2>3, <2>5, LogonMoves
  <2>. QED
    BY <1>2, <2>4, <2>5 DEF IsUserBlocked
<1>3. ASSUME NEW t \in tokens, Authenticate(r, t) PROVE LoginInv'
  <2>1. PICK to \in {"inside", "guard"} :
          Moves(r, [at |-> to, owner |-> t.owner, admin |-> t.admin])
    BY <1>3 DEF Authenticate
  <2>2. t \in AccessTokens
    BY DEF LoginInv
  <2>3. [at |-> to, owner |-> t.owner, admin |-> t.admin] \in Admitted
    BY <2>2 DEF Admitted, AccessTokens
  <2>4. UNCHANGED <<today, held, users, blocked, tokens>>
    BY <1>3 DEF Authenticate
  <2>. QED
    BY <2>1, <2>3, <2>4, LogonMoves
<1>. QED
  BY <1>1, <1>2, <1>3

LEMMA HandlerKeeps ==
  ASSUME LoginInv, NEW r \in Logons, Handler(r)
  PROVE  LoginInv'
<1>1. Moves(r, Idle) /\ UNCHANGED <<today, held, users, tokens>>
  BY DEF Handler
<1>2. blocked' \subseteq users
  BY DEF Handler, LoginInv
<1>3. LogonInv(r)'
  BY <1>1 DEF Moves, LoginInv, LogonInv
<1>4. CredentialsInv'
  BY <1>1 DEF CredentialsInv, LoginInv, TokensEarned
<1>. QED
  BY <1>1, <1>2, <1>3, <1>4, OneLogonKeeps DEF LoginInv

LEMMA LoginInitial == LoginInit => LoginInv
BY LoginAssumption DEF LoginInit, LoginInv, LogonInv, TokensEarned

LEMMA LoginStep == LoginInv /\ [LoginNext]_loginVars => LoginInv'
<1>1. SUFFICES ASSUME LoginInv, [LoginNext]_loginVars PROVE LoginInv'
  OBVIOUS
<1>2. ASSUME NEW p \in Persons, NEW kind \in TelegramKinds \cup VKKinds, Sign(kind, p)
      PROVE  LoginInv'
  BY <1>1, <1>2, SignKeeps
<1>3. ASSUME NEW p \in Persons, AuthVKStart(p) PROVE LoginInv'
  BY <1>1, <1>3, VKStartKeeps
<1>4. ASSUME NEW p \in Persons, NEW r \in Logons, AuthAdmin(r, p) PROVE LoginInv'
  BY <1>1, <1>4, AdminWayIn
<1>5. ASSUME NEW c \in held, StandaloneAuthExchange(c) \/ Forget(c) PROVE LoginInv'
  BY <1>1, <1>5, StandaloneExchangeKeeps
<1>6. ASSUME NEW c \in held, NEW r \in Logons,
             (\E dated \in BOOLEAN : AuthTelegram(r, c, dated))
             \/ AuthVKLegacy(r, c) \/ AuthVKCodeFlow(r, c) \/ AuthVKMiniApp(r, c)
      PROVE  LoginInv'
  BY <1>1, <1>6, WaysIn
<1>7. ASSUME NEW r \in Logons, GetUser(r) \/ GetUserInfo(r) \/ EnsureRead(r) \/ Touch(r)
      PROVE  LoginInv'
  BY <1>1, <1>7, StatementKeeps
<1>8. ASSUME NEW r \in Logons,
             LogonFails(r) \/ IsUserBlocked(r) \/ (\E t \in tokens : Authenticate(r, t))
      PROVE  LoginInv'
  BY <1>1, <1>8, MiddlewareKeeps
<1>9. ASSUME NEW r \in Logons,
             ExchangeCode(r) \/ Upsert(r) \/ ReadUser(r) \/ EnsureInsert(r)
             \/ SignAccessToken(r) \/ Handler(r)
      PROVE  LoginInv'
  BY <1>1, <1>9, ExchangeKeeps, UpsertKeeps, ReadUserKeeps, EnsureInsertKeeps,
     SignAccessTokenKeeps, HandlerKeeps
<1>10. CASE Tomorrow
  BY <1>1, <1>10, TomorrowKeeps
<1>11. CASE UNCHANGED loginVars
  BY <1>1, <1>11 DEF loginVars, LoginInv, LogonInv, TokensEarned
<1>. QED
  BY <1>1, <1>2, <1>3, <1>4, <1>5, <1>6, <1>7, <1>8, <1>9, <1>10, <1>11 DEF LoginNext

\* An access token says isNew only when its request began before the person had
\* a row; and where the API reads an auth_date, it goes back to no signature of
\* Telegram older than MaxAge: for any number of people and requests, and any
\* lengths of life.
THEOREM TokensEarnedTheorem == LoginSpec => []TokensEarned
<1>1. LoginInv => TokensEarned
  BY DEF LoginInv
<1>. QED
  BY <1>1, LoginInitial, LoginStep, PTL DEF LoginSpec

-----------------------------------------------------------------------------
(***************************************************************************)
(* The wallet: an invitation is a claim that is there or was erased, the   *)
(* index keeps one claim of each invitee, and a transaction that has       *)
(* inserted one is alone with its invitee until it ends.                   *)
(***************************************************************************)
ClaimSteps == {"party", "code", "insert", "inviter", "invitee", "commit"}

Requests ==
  {AtRest} \cup [at : ClaimSteps, claim : Claims]
  \cup [at : {"topUp"}, who : Members, amount : Amounts]
  \cup [at : {"touch"}, who : Members]
  \cup [at : {"readCode", "insertCode", "rereadCode"}, who : Members, tries : Nat]

ClaimsOf(p) == {c \in claims : c.invitee = p}

\* The unique index, and the rows that open transactions have inserted.
IndexInv ==
  /\ \A c, d \in claims : c.invitee = d.invitee => c = d
  /\ \A r \in Transfers : Inserted(r) =>
       /\ \A c \in claims : c.invitee # transfer[r].claim.invitee
       /\ \A q \in Transfers \ {r} :
            Inserted(q) => transfer[q].claim.invitee # transfer[r].claim.invitee

BalanceInv ==
  \A p \in Members : balance[p] = topUps.total[p] + Bonus * Cardinality(AwardsOf(p))

InvitationInv ==
  \A p \in Members : Cardinality(InvitationsOf(p)) = Cardinality(ClaimsOf(p)) + erased[p]

WalletInv ==
  /\ balance \in [Members -> Nat] /\ topUps.total \in [Members -> Nat]
  /\ claims \subseteq Claims /\ IsFiniteSet(claims)
  /\ awards \in [Members \X Members -> Nat] /\ IsFiniteSet(Awards)
  /\ erased \in [Members -> Nat]
  /\ transfer \in [Transfers -> Requests]
  /\ IndexInv /\ BalanceInv /\ InvitationInv

\* What is counted follows from the committed claims alone.
LEMMA CountsStay ==
  ASSUME UNCHANGED awards
  PROVE  /\ Awards' = Awards
         /\ \A p \in Members : AwardsOf(p)' = AwardsOf(p) /\ InvitationsOf(p)' = InvitationsOf(p)
BY DEF Awards, AwardsOf, InvitationsOf

\* A request goes on, to a step at which it has inserted nothing or without
\* another claim of its invitee.
LEMMA IndexMoves ==
  ASSUME WalletInv, NEW r \in Transfers, NEW next \in Requests, Passes(r, next),
         UNCHANGED claims,
         next.at \in {"inviter", "invitee", "commit"} =>
           /\ \A c \in claims : c.invitee # next.claim.invitee
           /\ \A q \in Transfers \ {r} :
                Inserted(q) => transfer[q].claim.invitee # next.claim.invitee
  PROVE  transfer' \in [Transfers -> Requests] /\ IndexInv'
<1>1. /\ transfer' \in [Transfers -> Requests] /\ transfer'[r] = next
      /\ \A q \in Transfers \ {r} : transfer'[q] = transfer[q]
  BY DEF Passes, WalletInv
<1>2. IndexInv'
  <2>1. \A q \in Transfers \ {r} : Inserted(q)' = Inserted(q)
    BY <1>1 DEF Inserted
  <2>2. Inserted(r)' = (next.at \in {"inviter", "invitee", "commit"})
    BY <1>1 DEF Inserted
  <2>3. ASSUME NEW q \in Transfers, Inserted(q)'
        PROVE  /\ \A c \in claims : c.invitee # transfer'[q].claim.invitee
               /\ \A p \in Transfers \ {q} :
                    Inserted(p)' => transfer'[p].claim.invitee # transfer'[q].claim.invitee
    <3>1. CASE q = r
      BY <1>1, <2>1, <2>2, <2>3, <3>1
    <3>2. CASE q # r
      <4>1. transfer'[q] = transfer[q] /\ Inserted(q)
        BY <1>1, <2>1, <2>3, <3>2
      <4>2. /\ \A c \in claims : c.invitee # transfer[q].claim.invitee
            /\ \A p \in Transfers \ {q} :
                 Inserted(p) => transfer[p].claim.invitee # transfer[q].claim.invitee
        BY <4>1 DEF WalletInv, IndexInv
      <4>3. ASSUME NEW p \in Transfers \ {q}, Inserted(p)'
            PROVE  transfer'[p].claim.invitee # transfer'[q].claim.invitee
        <5>1. CASE p = r
          BY <1>1, <2>2, <3>2, <4>1, <4>3, <5>1
        <5>2. CASE p # r
          BY <1>1, <2>1, <4>1, <4>2, <4>3, <5>2
        <5>. QED
          BY <5>1, <5>2
      <4>. QED
        BY <4>1, <4>2, <4>3
    <3>. QED
      BY <3>1, <3>2
  <2>. QED
    BY <2>3 DEF WalletInv, IndexInv
<1>. QED
  BY <1>1, <1>2

LEMMA TransferMoves ==
  ASSUME WalletInv, NEW r \in Transfers, NEW next \in Requests, Passes(r, next),
         UNCHANGED <<balance, claims, topUps, awards, erased>>,
         next.at \in {"inviter", "invitee", "commit"} =>
           /\ \A c \in claims : c.invitee # next.claim.invitee
           /\ \A q \in Transfers \ {r} :
                Inserted(q) => transfer[q].claim.invitee # next.claim.invitee
  PROVE  WalletInv'
<1>1. transfer' \in [Transfers -> Requests] /\ IndexInv'
  BY IndexMoves
<1>2. BalanceInv' /\ InvitationInv' /\ IsFiniteSet(Awards')
  BY CountsStay DEF WalletInv, BalanceInv, InvitationInv, ClaimsOf
<1>. QED
  BY <1>1, <1>2 DEF WalletInv

LEMMA RestKeeps ==
  ASSUME WalletInv, NEW r \in Transfers, Passes(r, AtRest),
         UNCHANGED <<balance, claims, topUps, awards, erased>>
  PROVE  WalletInv'
<1>1. AtRest \in Requests /\ AtRest.at \notin {"inviter", "invitee", "commit"}
  BY DEF Requests, AtRest
<1>. QED
  BY <1>1, TransferMoves

\* A claim that goes on to its next step.
LEMMA ClaimGoesOn ==
  ASSUME WalletInv, NEW r \in Transfers, NEW to \in ClaimSteps, Reaches(r, to),
         transfer[r].at \in ClaimSteps,
         UNCHANGED <<balance, claims, topUps, awards, erased>>,
         \/ to \in {"party", "code", "insert"}
         \/ Inserted(r)
         \/ /\ \A c \in claims : c.invitee # transfer[r].claim.invitee
            /\ NobodyInserts(r)
  PROVE  WalletInv'
<1>. DEFINE next == [transfer[r] EXCEPT !.at = to]
<1>1. transfer[r] \in [at : ClaimSteps, claim : Claims]
  BY DEF WalletInv, Requests, AtRest, ClaimSteps
<1>2. next \in [at : ClaimSteps, claim : Claims] /\ next.at = to
      /\ next.claim = transfer[r].claim
  BY <1>1
<1>3. Passes(r, next)
  BY DEF Reaches
<1>. HIDE DEF next
<1>4. next \in Requests
  BY <1>2 DEF Requests
<1>5. next.at \in {"inviter", "invitee", "commit"} =>
        /\ \A c \in claims : c.invitee # next.claim.invitee
        /\ \A q \in Transfers \ {r} :
             Inserted(q) => transfer[q].claim.invitee # next.claim.invitee
  BY <1>2 DEF WalletInv, IndexInv, NobodyInserts
<1>. QED
  BY <1>3, <1>4, <1>5, TransferMoves

LEMMA ClaimKeeps ==
  ASSUME WalletInv, NEW r \in Transfers,
         CheckParty(r) \/ CheckCode(r) \/ InsertClaim(r) \/ AddToInviter(r) \/ AddToInvitee(r)
  PROVE  WalletInv'
<1>1. transfer[r].at \in ClaimSteps /\ UNCHANGED <<balance, claims, topUps, awards, erased>>
  BY DEF CheckParty, CheckCode, InsertClaim, AddToInviter, AddToInvitee, ClaimSteps, tables,
         histories
<1>2. CASE Passes(r, AtRest)
  BY <1>1, <1>2, RestKeeps
<1>3. CASE Reaches(r, "code") \/ Reaches(r, "insert")
  BY <1>1, <1>3, ClaimGoesOn DEF ClaimSteps
<1>4. CASE AddToInviter(r) \/ AddToInvitee(r)
  <2>1. Inserted(r) /\ (Reaches(r, "invitee") \/ Reaches(r, "commit"))
    BY <1>4 DEF AddToInviter, AddToInvitee, Inserted
  <2>. QED
    BY <1>1, <2>1, ClaimGoesOn DEF ClaimSteps
<1>5. CASE InsertClaim(r) /\ ~ Passes(r, AtRest)
  <2>1. /\ Reaches(r, "inviter") /\ NobodyInserts(r)
        /\ \A c \in claims : c.invitee # transfer[r].claim.invitee
    BY <1>5 DEF InsertClaim
  <2>. QED
    BY <1>1, <2>1, ClaimGoesOn DEF ClaimSteps
<1>. QED
  BY <1>2, <1>3, <1>4, <1>5 DEF CheckParty, CheckCode

LEMMA StartsKeeps ==
  ASSUME WalletInv, NEW r \in Transfers,
         \/ \E claim \in Claims : StartClaim(r, claim)
         \/ \E p \in Members :
              \/ \E amount \in Amounts : TopupToken(r, p, amount)
              \/ StartTouch(r, p) \/ ReferralCode(r, p)
  PROVE  WalletInv'
<1>1. UNCHANGED <<balance, claims, topUps, awards, erased>>
  BY DEF StartClaim, TopupToken, StartTouch, ReferralCode, Starts, tables, histories
<1>2. \E next \in Requests : Passes(r, next) /\ next.at \notin {"inviter", "invitee", "commit"}
  <2>1. ASSUME NEW claim \in Claims, StartClaim(r, claim)
        PROVE  \E next \in Requests :
                 Passes(r, next) /\ next.at \notin {"inviter", "invitee", "commit"}
    <3>. DEFINE next == [at |-> "party", claim |-> claim]
    <3>1. next \in Requests /\ next.at = "party"
      BY DEF Requests, ClaimSteps
    <3>2. Passes(r, next)
      BY <2>1 DEF StartClaim, Starts
    <3>. HIDE DEF next
    <3>. QED
      BY <3>1, <3>2
  <2>2. ASSUME NEW p \in Members, NEW amount \in Amounts, TopupToken(r, p, amount)
        PROVE  \E next \in Requests :
                 Passes(r, next) /\ next.at \notin {"inviter", "invitee", "commit"}
    <3>. DEFINE next == [at |-> "topUp", who |-> p, amount |-> amount]
    <3>1. next \in Requests /\ next.at = "topUp"
      BY DEF Requests
    <3>2. Passes(r, next)
      BY <2>2 DEF TopupToken, Starts
    <3>. HIDE DEF next
    <3>. QED
      BY <3>1, <3>2
  <2>3. ASSUME NEW p \in Members, StartTouch(r, p)
        PROVE  \E next \in Requests :
                 Passes(r, next) /\ next.at \notin {"inviter", "invitee", "commit"}
    <3>. DEFINE next == [at |-> "touch", who |-> p]
    <3>1. next \in Requests /\ next.at = "touch"
      BY DEF Requests
    <3>2. Passes(r, next)
      BY <2>3 DEF StartTouch, Starts
    <3>. HIDE DEF next
    <3>. QED
      BY <3>1, <3>2
  <2>4. ASSUME NEW p \in Members, ReferralCode(r, p)
        PROVE  \E next \in Requests :
                 Passes(r, next) /\ next.at \notin {"inviter", "invitee", "commit"}
    <3>. DEFINE next == [at |-> "readCode", who |-> p, tries |-> 0]
    <3>1. next \in Requests /\ next.at = "readCode"
      BY DEF Requests
    <3>2. Passes(r, next)
      BY <2>4 DEF ReferralCode, Starts
    <3>. HIDE DEF next
    <3>. QED
      BY <3>1, <3>2
  <2>. QED
    BY <2>1, <2>2, <2>3, <2>4
<1>. QED
  BY <1>1, <1>2, TransferMoves

LEMMA CodeKeeps ==
  ASSUME WalletInv, NEW r \in Transfers,
         TouchUser(r) \/ ReadCode(r) \/ InsertCode(r) \/ TransferFails(r)
  PROVE  WalletInv'
<1>1. UNCHANGED <<balance, claims, topUps, awards, erased>>
  BY DEF TouchUser, ReadCode, InsertCode, TransferFails, tables, histories
<1>2. CASE Passes(r, AtRest)
  BY <1>1, <1>2, RestKeeps
<1>3. CASE (ReadCode(r) \/ InsertCode(r)) /\ ~ Passes(r, AtRest)
  <2>. DEFINE Asking == [at : {"readCode", "insertCode", "rereadCode"}, who : Members, tries : Nat]
  <2>1. transfer[r] \in Asking
    BY <1>3 DEF ReadCode, InsertCode, WalletInv, Requests, AtRest, ClaimSteps
  <2>2. \E next \in Asking : Passes(r, next)
    <3>1. CASE ReadCode(r)
      <4>1. Passes(r, [transfer[r] EXCEPT !.at = "insertCode"])
        BY <1>3, <3>1 DEF ReadCode, Reaches
      <4>2. [transfer[r] EXCEPT !.at = "insertCode"] \in Asking
        BY <2>1
      <4>. QED
        BY <4>1, <4>2
    <3>2. CASE InsertCode(r)
      <4>1. \/ Passes(r, [transfer[r] EXCEPT !.at = "rereadCode"])
            \/ Passes(r, [transfer[r] EXCEPT !.tries = transfer[r].tries + 1])
        BY <1>3, <3>2 DEF InsertCode, Reaches
      <4>2. /\ [transfer[r] EXCEPT !.at = "rereadCode"] \in Asking
            /\ [transfer[r] EXCEPT !.tries = transfer[r].tries + 1] \in Asking
        BY <2>1
      <4>. QED
        BY <4>1, <4>2
    <3>. QED
      BY <1>3, <3>1, <3>2
  <2>3. PICK next \in Asking : Passes(r, next)
    BY <2>2
  <2>4. next \in Requests /\ next.at \notin {"inviter", "invitee", "commit"}
    BY DEF Requests
  <2>. QED
    BY <1>1, <2>3, <2>4, TransferMoves
<1>. QED
  BY <1>2, <1>3 DEF TouchUser, TransferFails

-----------------------------------------------------------------------------
\* A claim that commits adds one award, of its inviter and its invitee.
LEMMA AwardAdds ==
  ASSUME WalletInv, NEW pair \in Members \X Members, awards' = [awards EXCEPT ![pair] = @ + 1]
  PROVE  \E x : x \notin Awards /\ x[1] = pair /\ Awards' = Awards \cup {x}
<1>. DEFINE n == awards[pair]
            x == <<pair, n + 1>>
<1>1. awards \in [Members \X Members -> Nat] /\ n \in Nat
  BY DEF WalletInv
<1>2. /\ awards'[pair] = n + 1
      /\ \A other \in Members \X Members : other # pair => awards'[other] = awards[other]
  BY <1>1
<1>3. x \notin Awards
  BY <1>1 DEF Awards
<1>4. 1..(n + 1) = (1..n) \cup {n + 1}
  BY <1>1
<1>5. Awards' = Awards \cup {x}
  <2>1. \A y : y \in Awards' <=>
          \E other \in Members \X Members : y \in {other} \X (1..awards'[other])
    BY DEF Awards
  <2>2. \A y : y \in Awards <=>
          \E other \in Members \X Members : y \in {other} \X (1..awards[other])
    BY DEF Awards
  <2>3. \A other \in Members \X Members : \A y :
          y \in {other} \X (1..awards'[other])
            <=> y \in {other} \X (1..awards[other]) \/ (other = pair /\ y = x)
    BY <1>2, <1>4
  <2>. QED
    BY <2>1, <2>2, <2>3
<1>. QED
  BY <1>3, <1>5

\* What a new member adds to a part of the awards.
LEMMA PartAdds ==
  ASSUME NEW A, IsFiniteSet(A), NEW B, B \subseteq A, NEW x, x \notin A
  PROVE  /\ IsFiniteSet(A \cup {x}) /\ IsFiniteSet(B) /\ Cardinality(B) \in Nat
         /\ Cardinality(B \cup {x}) = Cardinality(B) + 1
<1>1. IsFiniteSet(B) /\ Cardinality(B) \in Nat
  BY Fewer
<1>. QED
  BY <1>1, FS_AddElement

LEMMA CommitIndex ==
  ASSUME WalletInv, NEW r \in Transfers, CommitClaim(r)
  PROVE  /\ transfer[r].claim \in Claims
         /\ transfer' \in [Transfers -> Requests]
         /\ claims' = claims \cup {transfer[r].claim}
         /\ \A c \in claims : c.invitee # transfer[r].claim.invitee
         /\ IndexInv'
<1>1. transfer[r] \in [at : ClaimSteps, claim : Claims] /\ Inserted(r)
  BY DEF CommitClaim, WalletInv, Requests, AtRest, ClaimSteps, Inserted
<1>2. /\ claims' = claims \cup {transfer[r].claim}
      /\ transfer' = [transfer EXCEPT ![r] = AtRest]
  BY DEF CommitClaim, Passes
<1>3. \A c \in claims : c.invitee # transfer[r].claim.invitee
  BY <1>1 DEF WalletInv, IndexInv
<1>4. AtRest \in Requests
  BY DEF Requests
<1>5. /\ transfer' \in [Transfers -> Requests] /\ transfer'[r] = AtRest
      /\ \A q \in Transfers \ {r} : transfer'[q] = transfer[q]
  BY <1>2, <1>4 DEF WalletInv
<1>6. ~ Inserted(r)' /\ \A q \in Transfers \ {r} : Inserted(q)' = Inserted(q)
  BY <1>5 DEF Inserted, AtRest
<1>7. \A c, d \in claims' : c.invitee = d.invitee => c = d
  BY <1>2, <1>3 DEF WalletInv, IndexInv
<1>8. ASSUME NEW q \in Transfers, Inserted(q)'
      PROVE  /\ \A c \in claims' : c.invitee # transfer'[q].claim.invitee
             /\ \A p \in Transfers \ {q} :
                  Inserted(p)' => transfer'[p].claim.invitee # transfer'[q].claim.invitee
  <2>1. q # r /\ Inserted(q) /\ transfer'[q] = transfer[q]
    BY <1>5, <1>6, <1>8
  <2>2. /\ \A c \in claims : c.invitee # transfer[q].claim.invitee
        /\ \A p \in Transfers \ {q} :
             Inserted(p) => transfer[p].claim.invitee # transfer[q].claim.invitee
    BY <2>1 DEF WalletInv, IndexInv
  <2>3. \A c \in claims' : c.invitee # transfer[q].claim.invitee
    BY <1>1, <1>2, <2>1, <2>2
  <2>4. ASSUME NEW p \in Transfers \ {q}, Inserted(p)'
        PROVE  transfer'[p].claim.invitee # transfer[q].claim.invitee
    BY <1>5, <1>6, <2>2, <2>4
  <2>. QED
    BY <2>1, <2>3, <2>4
<1>. QED
  BY <1>1, <1>2, <1>3, <1>5, <1>7, <1>8 DEF IndexInv

LEMMA CommitKeeps ==
  ASSUME WalletInv, NEW r \in Transfers, CommitClaim(r)
  PROVE  WalletInv'
<1>1. PICK claim \in Claims : claim = transfer[r].claim
  BY CommitIndex
<1>2. PICK i, j : i = claim.inviter /\ j = claim.invitee /\ i \in Members /\ j \in Members
  BY DEF Claims
<1>3. /\ claims' = claims \cup {claim} /\ \A c \in claims : c.invitee # j
      /\ IndexInv' /\ transfer' \in [Transfers -> Requests]
  BY <1>1, <1>2, CommitIndex
<1>4. /\ balance' = [p \in Members |-> balance[p] + IF p \in {i, j} THEN Bonus ELSE 0]
      /\ awards' = [awards EXCEPT ![<<i, j>>] = @ + 1]
      /\ UNCHANGED <<topUps, erased>>
  BY <1>1, <1>2 DEF CommitClaim
<1>5. PICK x : x \notin Awards /\ x[1] = <<i, j>> /\ Awards' = Awards \cup {x}
  <2>1. <<i, j>> \in Members \X Members
    BY <1>2
  <2>. QED
    BY <1>4, <2>1, AwardAdds
<1>6. x[1][1] = i /\ x[1][2] = j
  BY <1>5
<1>7. IsFiniteSet(Awards) /\ IsFiniteSet(claims) /\ Bonus \in Nat
  BY WalletAssumption DEF WalletInv
<1>8. claim \notin claims /\ IsFiniteSet(claims') /\ claims' \subseteq Claims
  BY <1>2, <1>3, <1>7, FS_AddElement DEF WalletInv
<1>9. /\ balance' \in [Members -> Nat] /\ IsFiniteSet(Awards')
      /\ awards' \in [Members \X Members -> Nat]
  <2>1. balance \in [Members -> Nat] /\ awards \in [Members \X Members -> Nat]
    BY DEF WalletInv
  <2>2. \A p \in Members : balance[p] + (IF p \in {i, j} THEN Bonus ELSE 0) \in Nat
    BY <1>7, <2>1
  <2>3. awards' \in [Members \X Members -> Nat]
    <3>1. <<i, j>> \in Members \X Members /\ awards[<<i, j>>] + 1 \in Nat
      BY <1>2, <2>1
    <3>. QED
      BY <1>4, <2>1, <3>1
  <2>. QED
    BY <1>4, <1>5, <1>7, <2>2, <2>3, FS_AddElement
<1>10. BalanceInv'
  <2>1. ASSUME NEW p \in Members
        PROVE  balance'[p] = topUps.total[p] + Bonus * Cardinality(AwardsOf(p)')
    <3>1. /\ balance[p] = topUps.total[p] + Bonus * Cardinality(AwardsOf(p))
          /\ topUps.total[p] \in Nat
      BY DEF WalletInv, BalanceInv
    <3>2. AwardsOf(p) \subseteq Awards
      BY DEF AwardsOf
    <3>3. CASE p \in {i, j}
      <4>1. AwardsOf(p)' = AwardsOf(p) \cup {x}
        BY <1>5, <1>6, <3>3 DEF AwardsOf
      <4>2. Cardinality(AwardsOf(p)') = Cardinality(AwardsOf(p)) + 1
            /\ Cardinality(AwardsOf(p)) \in Nat
        BY <1>5, <1>7, <3>2, <4>1, PartAdds
      <4>3. balance'[p] = balance[p] + Bonus
        BY <1>4, <3>3
      <4>. QED
        BY <1>7, <3>1, <4>2, <4>3
    <3>4. CASE p \notin {i, j}
      <4>1. AwardsOf(p)' = AwardsOf(p)
        BY <1>5, <1>6, <3>4 DEF AwardsOf
      <4>2. balance[p] \in Nat
        BY DEF WalletInv
      <4>3. balance'[p] = balance[p]
        BY <1>4, <3>4, <4>2
      <4>. QED
        BY <3>1, <4>1, <4>3
    <3>. QED
      BY <3>3, <3>4
  <2>. QED
    BY <1>4, <2>1 DEF BalanceInv
<1>11. InvitationInv'
  <2>1. ASSUME NEW p \in Members
        PROVE  Cardinality(InvitationsOf(p)') = Cardinality(ClaimsOf(p)') + erased[p]
    <3>1. /\ Cardinality(InvitationsOf(p)) = Cardinality(ClaimsOf(p)) + erased[p]
          /\ erased[p] \in Nat
      BY DEF WalletInv, InvitationInv
    <3>2. InvitationsOf(p) \subseteq Awards /\ ClaimsOf(p) \subseteq claims
      BY DEF InvitationsOf, ClaimsOf
    <3>3. CASE p = j
      <4>1. InvitationsOf(p)' = InvitationsOf(p) \cup {x}
        BY <1>5, <1>6, <3>3 DEF InvitationsOf
      <4>2. ClaimsOf(p)' = ClaimsOf(p) \cup {claim}
        BY <1>2, <1>3, <3>3 DEF ClaimsOf
      <4>3. /\ Cardinality(InvitationsOf(p)') = Cardinality(InvitationsOf(p)) + 1
            /\ Cardinality(InvitationsOf(p)) \in Nat
        BY <1>5, <1>7, <3>2, <4>1, PartAdds
      <4>4. /\ Cardinality(ClaimsOf(p)') = Cardinality(ClaimsOf(p)) + 1
            /\ Cardinality(ClaimsOf(p)) \in Nat
        BY <1>7, <1>8, <3>2, <4>2, PartAdds
      <4>. QED
        BY <3>1, <4>3, <4>4
    <3>4. CASE p # j
      <4>1. InvitationsOf(p)' = InvitationsOf(p)
        BY <1>5, <1>6, <3>4 DEF InvitationsOf
      <4>2. ClaimsOf(p)' = ClaimsOf(p)
        BY <1>2, <1>3, <3>4 DEF ClaimsOf
      <4>. QED
        BY <3>1, <4>1, <4>2
    <3>. QED
      BY <3>3, <3>4
  <2>. QED
    BY <1>4, <2>1 DEF InvitationInv
<1>. QED
  BY <1>3, <1>4, <1>8, <1>9, <1>10, <1>11 DEF WalletInv

LEMMA TopUpKeeps ==
  ASSUME WalletInv, NEW r \in Transfers, AddUserTokens(r)
  PROVE  WalletInv'
<1>1. PICK p \in Members, amount \in Nat : p = transfer[r].who /\ amount = transfer[r].amount
  <2>1. transfer[r] \in [at : {"topUp"}, who : Members, amount : Amounts]
    BY DEF AddUserTokens, WalletInv, Requests, AtRest, ClaimSteps
  <2>. QED
    BY <2>1, WalletAssumption
<1>2. PICK total \in [Members -> Nat] : total = topUps.total
  BY DEF WalletInv
<1>3. /\ balance' = [balance EXCEPT ![p] = @ + amount]
      /\ topUps'.total = [total EXCEPT ![p] = @ + amount]
      /\ Passes(r, AtRest) /\ UNCHANGED <<claims, awards, erased>>
  BY <1>1, <1>2 DEF AddUserTokens
<1>4. AtRest \in Requests /\ AtRest.at \notin {"inviter", "invitee", "commit"}
  BY DEF Requests, AtRest
<1>5. transfer' \in [Transfers -> Requests] /\ IndexInv'
  BY <1>3, <1>4, IndexMoves
<1>6. balance' \in [Members -> Nat] /\ topUps'.total \in [Members -> Nat]
  BY <1>3 DEF WalletInv
<1>7. BalanceInv'
  <2>1. ASSUME NEW q \in Members
        PROVE  balance'[q] = topUps'.total[q] + Bonus * Cardinality(AwardsOf(q))
    <3>1. balance[q] = total[q] + Bonus * Cardinality(AwardsOf(q)) /\ balance[q] \in Nat
          /\ total[q] \in Nat
      BY <1>2 DEF WalletInv, BalanceInv
    <3>2. PICK paid : paid = Bonus * Cardinality(AwardsOf(q))
      OBVIOUS
    <3>3. paid \in Nat
      <4>1. Bonus \in Nat /\ Cardinality(AwardsOf(q)) \in Nat
        BY WalletAssumption, Fewer DEF WalletInv, AwardsOf
      <4>. QED
        BY <3>2, <4>1
    <3>4. CASE q = p
      <4>1. balance'[q] = balance[q] + amount /\ topUps'.total[q] = total[q] + amount
        BY <1>3, <3>4 DEF WalletInv
      <4>. QED
        BY <3>1, <3>2, <3>3, <4>1
    <3>5. CASE q # p
      <4>1. balance'[q] = balance[q] /\ topUps'.total[q] = total[q]
        BY <1>3, <3>5 DEF WalletInv
      <4>. QED
        BY <3>1, <4>1
    <3>. QED
      BY <3>4, <3>5
  <2>. QED
    BY <1>3, <2>1, CountsStay DEF BalanceInv
<1>8. InvitationInv' /\ IsFiniteSet(Awards')
  BY <1>3, CountsStay DEF WalletInv, InvitationInv, ClaimsOf
<1>. QED
  BY <1>3, <1>5, <1>6, <1>7, <1>8 DEF WalletInv

\* The claims that go with an event count as erased from then on.
LEMMA DeletePartyKeeps ==
  ASSUME WalletInv, NEW e \in Parties, DeleteParty(e)
  PROVE  WalletInv'
<1>. DEFINE gone(p) == {c \in claims : c.party = e /\ c.invitee = p}
<1>1. /\ claims' = {c \in claims : c.party # e}
      /\ erased' = [p \in Members |-> erased[p] + Cardinality(gone(p))]
      /\ UNCHANGED <<balance, transfer, topUps, awards>>
  BY DEF DeleteParty
<1>2. IsFiniteSet(claims) /\ claims' \subseteq claims /\ IsFiniteSet(claims')
  BY <1>1, Fewer DEF WalletInv
<1>3. ASSUME NEW p \in Members
      PROVE  /\ Cardinality(ClaimsOf(p)) = Cardinality(ClaimsOf(p)') + Cardinality(gone(p))
             /\ Cardinality(ClaimsOf(p)') \in Nat /\ Cardinality(gone(p)) \in Nat
  <2>. DEFINE stay == {c \in claims' : c.invitee = p}
  <2>1. IsFiniteSet(stay) /\ Cardinality(stay) \in Nat
    BY <1>2, Fewer
  <2>2. IsFiniteSet(gone(p)) /\ Cardinality(gone(p)) \in Nat
    BY <1>2, Fewer
  <2>3. ClaimsOf(p) = stay \cup gone(p) /\ stay \cap gone(p) = {} /\ ClaimsOf(p)' = stay
    BY <1>1 DEF ClaimsOf
  <2>4. Cardinality(stay \cap gone(p)) = 0
    BY <2>3, FS_EmptySet
  <2>5. Cardinality(stay \cup gone(p))
          = Cardinality(stay) + Cardinality(gone(p)) - Cardinality(stay \cap gone(p))
    <3>. HIDE DEF stay, gone
    <3>. QED
      BY <2>1, <2>2, FS_Union
  <2>6. Cardinality(stay \cup gone(p)) = Cardinality(stay) + Cardinality(gone(p))
    <3>. HIDE DEF stay, gone
    <3>. QED
      BY <2>1, <2>2, <2>4, <2>5
  <2>. QED
    BY <2>1, <2>2, <2>3, <2>6
<1>. HIDE DEF gone
<1>4. ASSUME NEW p \in Members
      PROVE  /\ erased'[p] \in Nat
             /\ Cardinality(InvitationsOf(p)) = Cardinality(ClaimsOf(p)') + erased'[p]
  <2>1. Cardinality(InvitationsOf(p)) = Cardinality(ClaimsOf(p)) + erased[p] /\ erased[p] \in Nat
    BY DEF WalletInv, InvitationInv
  <2>2. erased'[p] = erased[p] + Cardinality(gone(p))
    BY <1>1
  <2>. QED
    BY <1>3, <2>1, <2>2
<1>5. erased' \in [Members -> Nat]
  <2>1. \A p \in Members : erased[p] + Cardinality(gone(p)) \in Nat
    BY <1>1, <1>4
  <2>. QED
    BY <1>1, <2>1
<1>6. InvitationInv' /\ BalanceInv' /\ IsFiniteSet(Awards')
  BY <1>1, <1>4, CountsStay DEF WalletInv, InvitationInv, BalanceInv
<1>7. IndexInv'
  BY <1>1, <1>2 DEF WalletInv, IndexInv, Inserted
<1>. QED
  BY <1>1, <1>2, <1>5, <1>6, <1>7 DEF WalletInv

LEMMA WalletInitial == WalletInit => WalletInv
<1>1. SUFFICES ASSUME WalletInit PROVE WalletInv
  OBVIOUS
<1>2. /\ balance = [p \in Members |-> 0] /\ claims = {} /\ erased = [p \in Members |-> 0]
      /\ transfer = [r \in Transfers |-> AtRest]
      /\ topUps.total = [p \in Members |-> 0]
      /\ awards = [pair \in Members \X Members |-> 0]
  BY <1>1 DEF WalletInit
<1>3. Awards = {} /\ \A p \in Members : AwardsOf(p) = {} /\ InvitationsOf(p) = {}
  BY <1>2 DEF Awards, AwardsOf, InvitationsOf
<1>4. \A p \in Members : ClaimsOf(p) = {}
  BY <1>2 DEF ClaimsOf
<1>5. IsFiniteSet({}) /\ Cardinality({}) = 0
  BY FS_EmptySet
<1>6. \A p \in Members : /\ Cardinality(AwardsOf(p)) = 0 /\ Cardinality(InvitationsOf(p)) = 0
                         /\ Cardinality(ClaimsOf(p)) = 0
  BY <1>3, <1>4, <1>5
<1>7. BalanceInv /\ InvitationInv
  BY <1>2, <1>6, WalletAssumption DEF BalanceInv, InvitationInv
<1>8. IndexInv /\ transfer \in [Transfers -> Requests]
  BY <1>2 DEF IndexInv, Inserted, AtRest, Requests
<1>. QED
  BY <1>2, <1>3, <1>5, <1>7, <1>8 DEF WalletInv

LEMMA WalletStep == WalletInv /\ [WalletNext]_walletVars => WalletInv'
<1>1. SUFFICES ASSUME WalletInv, [WalletNext]_walletVars PROVE WalletInv'
  OBVIOUS
<1>2. ASSUME NEW r \in Transfers,
             \/ \E claim \in Claims : StartClaim(r, claim)
             \/ \E p \in Members :
                  \/ \E amount \in Amounts : TopupToken(r, p, amount)
                  \/ StartTouch(r, p) \/ ReferralCode(r, p)
      PROVE  WalletInv'
  BY <1>1, <1>2, StartsKeeps
<1>3. ASSUME NEW r \in Transfers,
             CheckParty(r) \/ CheckCode(r) \/ InsertClaim(r) \/ AddToInviter(r)
             \/ AddToInvitee(r)
      PROVE  WalletInv'
  BY <1>1, <1>3, ClaimKeeps
<1>4. ASSUME NEW r \in Transfers, CommitClaim(r) PROVE WalletInv'
  BY <1>1, <1>4, CommitKeeps
<1>5. ASSUME NEW r \in Transfers, AddUserTokens(r) PROVE WalletInv'
  BY <1>1, <1>5, TopUpKeeps
<1>6. ASSUME NEW r \in Transfers,
             TouchUser(r) \/ ReadCode(r) \/ InsertCode(r) \/ TransferFails(r)
      PROVE  WalletInv'
  BY <1>1, <1>6, CodeKeeps
<1>7. ASSUME NEW e \in Parties, DeleteParty(e) PROVE WalletInv'
  BY <1>1, <1>7, DeletePartyKeeps
<1>8. ASSUME UNCHANGED <<balance, claims, transfer, topUps, awards, erased>> PROVE WalletInv'
  BY <1>1, <1>8, CountsStay DEF WalletInv, IndexInv, Inserted, BalanceInv, InvitationInv,
     ClaimsOf
<1>9. ASSUME NEW e \in Parties, HideParty(e) PROVE WalletInv'
  BY <1>8, <1>9 DEF HideParty, histories
<1>10. CASE UNCHANGED walletVars
  BY <1>8, <1>10 DEF walletVars, tables, histories
<1>. QED
  BY <1>1, <1>2, <1>3, <1>4, <1>5, <1>6, <1>7, <1>9, <1>10 DEF WalletNext

\* A balance is exactly what was added and a bonus for each committed claim of
\* either side, and an invitee is paid once, and once more for each claim erased
\* with its event: for any number of users, events, requests and retries.
THEOREM WalletExactTheorem == WalletSpec => []WalletExact
<1>1. WalletInv => WalletExact
  <2>1. SUFFICES ASSUME WalletInv, NEW p \in Members
                 PROVE  /\ balance[p] = topUps.total[p] + Bonus * Cardinality(AwardsOf(p))
                        /\ Cardinality(InvitationsOf(p)) <= 1 + erased[p]
    BY DEF WalletExact
  <2>2. Cardinality(InvitationsOf(p)) = Cardinality(ClaimsOf(p)) + erased[p] /\ erased[p] \in Nat
    BY <2>1 DEF WalletInv, InvitationInv
  <2>3. Cardinality(ClaimsOf(p)) \in Nat /\ Cardinality(ClaimsOf(p)) <= 1
    <3>1. CASE ClaimsOf(p) = {}
      BY <3>1, FS_EmptySet
    <3>2. ASSUME NEW c \in ClaimsOf(p)
          PROVE  Cardinality(ClaimsOf(p)) = 1
      <4>1. ClaimsOf(p) = {c}
        BY <2>1 DEF ClaimsOf, WalletInv, IndexInv
      <4>. QED
        BY <4>1, FS_Singleton
    <3>. QED
      BY <3>1, <3>2
  <2>. QED
    BY <2>1, <2>2, <2>3 DEF WalletInv, BalanceInv
<1>. QED
  BY <1>1, WalletInitial, WalletStep, PTL DEF WalletSpec

-----------------------------------------------------------------------------
(***************************************************************************)
(* The chat, first its transcript: how far the handler of a message has    *)
(* come tells what it may still send and store, and each time it begins    *)
(* again there was a fault more.                                           *)
(***************************************************************************)
ToldKinds == {"reply", "panel", "text"}

StepsOf(kind) ==
  CASE kind = "select" -> {"set", "confirm", "idle"}
    [] kind = "cancel" -> {"clear", "confirm", "idle"}
    [] kind = "reply" -> {"send", "setAfter", "store", "confirm", "idle"}
    [] kind = "panel" -> {"send", "store", "idle"}
    [] kind = "text" -> {"read", "send", "store", "confirm", "idle"}
    [] kind = "incoming" -> {"store", "notify", "idle"}
    [] OTHER -> {"store", "notify", "lookup", "photo", "send", "idle"}

One(condition) == IF condition THEN 1 ELSE 0

Sent(at) == at \in {"setAfter", "store"}

RowAhead(kind, at) ==
  \/ kind \in ToldKinds /\ at \in {"read", "send", "setAfter", "store"}
  \/ kind \in FromUser /\ at = "store"

ArrivalAhead(kind, at) ==
  \/ kind \in ToldKinds /\ at \in {"read", "send"}
  \/ kind = "start" /\ at # "idle"

\* A message of a kind at a step, with r rows and n arrivals, after f faults.
Told(kind, at, r, n, f) ==
  /\ at \in StepsOf(kind)
  /\ kind \in ToldKinds => r + One(Sent(at)) <= n
  /\ r + One(RowAhead(kind, at)) <= 1 + f
  /\ n + One(ArrivalAhead(kind, at)) <= 1 + f
  /\ f = 0 =>
       /\ kind \in ToldKinds => n = r + One(Sent(at))
       /\ kind \in {"reply", "panel"} => n = One(at # "send")
       /\ kind \in FromUser => r = One(at # "store")
       /\ kind = "start" => n = One(at = "idle")

UpdateInv(u) ==
  IF u <= Len(message)
  THEN /\ Told(message[u].kind, step[u], rows[u], Len(arrivals[u]), chatFaults)
       /\ message[u].kind \notin FromUser => message[u].by \in Admins
  ELSE step[u] = "unwritten" /\ rows[u] = 0 /\ arrivals[u] = << >>

Chats == Users \cup {NoChat}

ScriptInv ==
  /\ message \in Seq(Messages) /\ Len(message) <= LastUpdate
  /\ step \in [Updates -> Steps] /\ chat \in [Updates -> Chats]
  /\ target \in [Admins -> Chats] /\ rows \in [Updates -> Nat]
  /\ arrivals \in [Updates -> Seq(Chats)] /\ chatFaults \in Nat
  /\ \A u \in Updates : UpdateInv(u)

\* One fault more allows no less.
LEMMA ToldFault ==
  ASSUME NEW kind, NEW at, NEW r \in Nat, NEW n \in Nat, NEW f \in Nat, Told(kind, at, r, n, f)
  PROVE  Told(kind, at, r, n, f + 1)
BY DEF Told, One

\* What that says in the end.
LEMMA ToldBounds ==
  ASSUME NEW kind, NEW at, NEW r \in Nat, NEW n \in Nat, NEW f \in Nat, Told(kind, at, r, n, f)
  PROVE  r <= 1 + f /\ n <= 1 + f /\ (kind \in ToldKinds => r <= n)
BY DEF Told, One

LEMMA ToldWell ==
  ASSUME NEW kind, NEW r \in Nat, NEW n \in Nat, Told(kind, "idle", r, n, 0)
  PROVE  /\ kind \in ToldKinds => r = n
         /\ kind \in FromUser => r = 1
         /\ kind \in {"reply", "panel", "start"} => n = 1
<1>1. ASSUME kind \in ToldKinds PROVE r = n
  BY <1>1 DEF Told, One, Sent
<1>2. ASSUME kind \in FromUser PROVE r = 1
  BY <1>2 DEF Told, One
<1>3. ASSUME kind \in {"reply", "panel", "start"} PROVE n = 1
  BY <1>3 DEF Told, One
<1>. QED
  BY <1>1, <1>2, <1>3

\* A message begins, and begins again.
LEMMA ToldFirst ==
  ASSUME NEW kind \in Kinds, NEW f \in Nat
  PROVE  Told(kind, First(kind), 0, 0, f)
BY DEF Told, One, Sent, RowAhead, ArrivalAhead, First, StepsOf, ToldKinds, FromUser, Kinds, ToChat

LEMMA ToldAgain ==
  ASSUME NEW kind \in Kinds, NEW at, NEW r \in Nat, NEW n \in Nat, NEW f \in Nat,
         Told(kind, at, r, n, f)
  PROVE  /\ kind # "panel" => Told(kind, First(kind), r, n, f + 1)
         /\ kind = "panel" => Told(kind, "idle", r, n, f + 1)
<1>1. /\ kind \in ToldKinds => r <= n
      /\ r <= 1 + f /\ n <= 1 + f /\ f + 1 # 0
  BY DEF Told, One
<1>2. /\ kind \in ToldKinds => ~ Sent(First(kind))
      /\ kind = "panel" => "idle" \in StepsOf(kind)
  BY DEF First, StepsOf, Sent, ToldKinds, FromUser, Kinds, ToChat
<1>3. First(kind) \in StepsOf(kind)
  BY DEF First, StepsOf, FromUser, Kinds, ToChat
<1>. QED
  BY <1>1, <1>2, <1>3 DEF Told, One, Sent, RowAhead, ArrivalAhead, ToldKinds, FromUser

LEMMA ToldMoves ==
  ASSUME NEW kind \in Kinds, NEW at, NEW r \in Nat, NEW n \in Nat, NEW f \in Nat,
         Told(kind, at, r, n, f)
  PROVE  /\ at \in {"set", "clear"} => Told(kind, "confirm", r, n, f)
         /\ at = "setAfter" => Told(kind, "store", r, n, f)
         /\ at = "read" => Told(kind, "idle", r, n, f) /\ Told(kind, "send", r, n, f)
         /\ at = "lookup" => Told(kind, "photo", r, n, f) /\ Told(kind, "send", r, n, f)
BY DEF Told, One, Sent, RowAhead, ArrivalAhead, StepsOf, ToldKinds, FromUser, Kinds, ToChat

LEMMA ToldSends ==
  ASSUME NEW kind \in Kinds, NEW at, NEW r \in Nat, NEW n \in Nat, NEW f \in Nat,
         Told(kind, at, r, n, f)
  PROVE  /\ at = "send" =>
              /\ Told(kind, "idle", r, n, f + 1) /\ Told(kind, "idle", r, n + 1, f + 1)
              /\ kind = "reply" => Told(kind, "setAfter", r, n + 1, f)
              /\ kind = "start" => Told(kind, "idle", r, n + 1, f)
              /\ kind \notin {"reply", "start"} => Told(kind, "store", r, n + 1, f)
         /\ at = "photo" =>
              /\ Told(kind, "idle", r, n + 1, f)
              /\ Told(kind, "send", r, n, f + 1) /\ Told(kind, "send", r, n + 1, f + 1)
<1>1. CASE at = "send"
  BY <1>1 DEF Told, One, Sent, RowAhead, ArrivalAhead, StepsOf, ToldKinds, FromUser, Kinds, ToChat
<1>2. CASE at = "photo"
  BY <1>2 DEF Told, One, Sent, RowAhead, ArrivalAhead, StepsOf, ToldKinds, FromUser, Kinds, ToChat
<1>. QED
  BY <1>1, <1>2

LEMMA ToldStores ==
  ASSUME NEW kind \in Kinds, NEW at, NEW r \in Nat, NEW n \in Nat, NEW f \in Nat,
         Told(kind, at, r, n, f)
  PROVE  /\ at = "store" =>
              /\ kind \in FromUser =>
                   Told(kind, "notify", r + 1, n, f) /\ Told(kind, "notify", r, n, f + 1)
              /\ kind = "panel" =>
                   Told(kind, "idle", r + 1, n, f) /\ Told(kind, "idle", r, n, f + 1)
              /\ kind \notin FromUser \cup {"panel"} =>
                   Told(kind, "confirm", r + 1, n, f) /\ Told(kind, "confirm", r, n, f + 1)
         /\ at \in {"confirm", "notify"} =>
              /\ kind = "start" =>
                   Told(kind, "lookup", r, n, f) /\ Told(kind, "lookup", r, n, f + 1)
              /\ kind # "start" =>
                   Told(kind, "idle", r, n, f) /\ Told(kind, "idle", r, n, f + 1)
<1>1. CASE at = "store"
  BY <1>1 DEF Told, One, Sent, RowAhead, ArrivalAhead, StepsOf, ToldKinds, FromUser, Kinds, ToChat
<1>2. CASE at \in {"confirm", "notify"}
  BY <1>2 DEF Told, One, Sent, RowAhead, ArrivalAhead, StepsOf, ToldKinds, FromUser, Kinds, ToChat
<1>. QED
  BY <1>1, <1>2

\* One handler makes a step, with or without a fault.
LEMMA OneUpdate ==
  ASSUME ScriptInv, NEW u \in Updates, step[u] # "unwritten",
         NEW at \in Steps, NEW r \in Nat, NEW list \in Seq(Chats),
         UNCHANGED message,
         step' = [step EXCEPT ![u] = at], rows' = [rows EXCEPT ![u] = r],
         arrivals' = [arrivals EXCEPT ![u] = list],
         chat' \in [Updates -> Chats], target' \in [Admins -> Chats],
         chatFaults' \in {chatFaults, chatFaults + 1},
         Told(message[u].kind, at, r, Len(list), chatFaults')
  PROVE  ScriptInv'
<1>1. /\ step' \in [Updates -> Steps] /\ rows' \in [Updates -> Nat]
      /\ arrivals' \in [Updates -> Seq(Chats)] /\ chatFaults' \in Nat
  BY DEF ScriptInv
<1>2. step'[u] = at /\ rows'[u] = r /\ arrivals'[u] = list
  BY DEF ScriptInv
<1>3. u <= Len(message) /\ (message[u].kind \notin FromUser => message[u].by \in Admins)
  BY DEF ScriptInv, UpdateInv
<1>4. UpdateInv(u)'
  BY <1>2, <1>3 DEF UpdateInv
<1>5. ASSUME NEW v \in Updates, v # u PROVE UpdateInv(v)'
  <2>1. step'[v] = step[v] /\ rows'[v] = rows[v] /\ arrivals'[v] = arrivals[v]
    BY <1>5 DEF ScriptInv
  <2>2. rows[v] \in Nat /\ Len(arrivals[v]) \in Nat
    BY DEF ScriptInv
  <2>3. UpdateInv(v)
    BY DEF ScriptInv
  <2>4. CASE v <= Len(message)
    <3>1. Told(message[v].kind, step[v], rows[v], Len(arrivals[v]), chatFaults)
      BY <2>3, <2>4 DEF UpdateInv
    <3>2. Told(message[v].kind, step[v], rows[v], Len(arrivals[v]), chatFaults')
      BY <2>2, <3>1, ToldFault DEF ScriptInv
    <3>. QED
      BY <2>1, <2>4, <2>3, <3>2 DEF UpdateInv
  <2>5. CASE ~ (v <= Len(message))
    BY <2>1, <2>3, <2>5 DEF UpdateInv
  <2>. QED
    BY <2>4, <2>5
<1>. QED
  BY <1>1, <1>4, <1>5 DEF ScriptInv

\* What is known of a message with a handler.
LEMMA Handled ==
  ASSUME ScriptInv, NEW u \in Updates, step[u] # "unwritten"
  PROVE  /\ u \in 1..Len(message) /\ message[u] \in Messages /\ message[u].kind \in Kinds
         /\ rows[u] \in Nat /\ arrivals[u] \in Seq(Chats) /\ Len(arrivals[u]) \in Nat
         /\ chat[u] \in Chats /\ chatFaults \in Nat
         /\ Told(message[u].kind, step[u], rows[u], Len(arrivals[u]), chatFaults)
         /\ message[u].kind \notin FromUser => message[u].by \in Admins
<1>1. u \in 1..Len(message)
  BY DEF ScriptInv, UpdateInv, Updates
<1>2. message[u] \in Messages
  BY <1>1 DEF ScriptInv
<1>. QED
  BY <1>1, <1>2 DEF ScriptInv, UpdateInv, Messages

LEMMA TargetScript ==
  ASSUME ScriptInv, NEW u \in Updates, SetTarget(u) \/ ClearTarget(u) \/ ReadTarget(u)
  PROVE  ScriptInv'
<1>. DEFINE kind == message[u].kind
<1>0. step[u] \in {"set", "setAfter", "clear", "read"}
  BY DEF SetTarget, ClearTarget, ReadTarget
<1>1. /\ kind \in Kinds /\ rows[u] \in Nat /\ arrivals[u] \in Seq(Chats)
      /\ Len(arrivals[u]) \in Nat /\ chat[u] \in Chats /\ chatFaults \in Nat
      /\ Told(kind, step[u], rows[u], Len(arrivals[u]), chatFaults)
  BY <1>0, Handled
<1>2. /\ UNCHANGED <<message, rows, arrivals, chatFaults>>
      /\ rows' = [rows EXCEPT ![u] = rows[u]] /\ arrivals' = [arrivals EXCEPT ![u] = arrivals[u]]
  BY DEF SetTarget, ClearTarget, ReadTarget, ScriptInv, peopleVars
<1>3. PICK at \in Steps :
        /\ step' = [step EXCEPT ![u] = at]
        /\ Told(kind, at, rows[u], Len(arrivals[u]), chatFaults)
  <2>1. CASE SetTarget(u)
    BY <1>1, <2>1, ToldMoves DEF SetTarget, Goes, Steps
  <2>2. CASE ClearTarget(u)
    BY <1>1, <2>2, ToldMoves DEF ClearTarget, Goes, Steps
  <2>3. CASE ReadTarget(u)
    BY <1>1, <2>3, ToldMoves DEF ReadTarget, Goes, Steps
  <2>. QED
    BY <2>1, <2>2, <2>3
<1>4. target' \in [Admins -> Chats] /\ chat' \in [Updates -> Chats]
  <2>1. CASE SetTarget(u) \/ ClearTarget(u)
    BY <1>1, <2>1 DEF SetTarget, ClearTarget, ScriptInv, Chats, peopleVars
  <2>2. CASE ReadTarget(u)
    <3>1. kind = "text" /\ message[u].by \in Admins
      BY <1>0, <1>1, <2>2, Handled DEF ReadTarget, Told, StepsOf, FromUser
    <3>. QED
      BY <1>1, <2>2, <3>1 DEF ReadTarget, ScriptInv, peopleVars
  <2>. QED
    BY <2>1, <2>2
<1>. QED
  BY <1>0, <1>1, <1>2, <1>3, <1>4, OneUpdate

LEMMA SendScript ==
  ASSUME ScriptInv, NEW u \in Updates,
         Send(u) \/ SendFails(u) \/ SendPhoto(u) \/ SendPhotoFails(u)
  PROVE  ScriptInv'
<1>. DEFINE kind == message[u].kind
            n == Len(arrivals[u])
<1>0. step[u] \in {"send", "photo"}
  BY DEF Send, SendFails, SendPhoto, SendPhotoFails
<1>1. /\ kind \in Kinds /\ rows[u] \in Nat /\ arrivals[u] \in Seq(Chats)
      /\ n \in Nat /\ chat[u] \in Chats /\ chatFaults \in Nat
      /\ Told(kind, step[u], rows[u], n, chatFaults)
  BY <1>0, Handled
<1>2. /\ UNCHANGED <<message, target, chat>> /\ rows' = [rows EXCEPT ![u] = rows[u]]
      /\ chatFaults' \in {chatFaults, chatFaults + 1}
  BY DEF Send, SendFails, SendPhoto, SendPhotoFails, ScriptInv, peopleVars, ChatFault
<1>. DEFINE more == Append(arrivals[u], chat[u])
<1>3. more \in Seq(Chats) /\ Len(more) = n + 1
  BY <1>1
<1>4. \/ arrivals' = [arrivals EXCEPT ![u] = more]
      \/ arrivals' = [arrivals EXCEPT ![u] = arrivals[u]] /\ chatFaults' = chatFaults + 1
  BY DEF Send, SendFails, SendPhoto, SendPhotoFails, Arrives, ScriptInv, ChatFault
<1>5. PICK list \in {more, arrivals[u]} :
        /\ arrivals' = [arrivals EXCEPT ![u] = list]
        /\ list = arrivals[u] => chatFaults' = chatFaults + 1
  <2>1. CASE arrivals' = [arrivals EXCEPT ![u] = more]
    <3>1. more # arrivals[u]
      BY <1>1, <1>3
    <3>. QED
      BY <2>1, <3>1
  <2>. QED
    BY <1>4, <2>1
<1>6. list \in Seq(Chats) /\ (Len(list) = n + 1 \/ (Len(list) = n /\ list = arrivals[u]))
  BY <1>1, <1>3
<1>. HIDE DEF more
<1>7. PICK at \in Steps :
        step' = [step EXCEPT ![u] = at] /\ Told(kind, at, rows[u], Len(list), chatFaults')
  <2>1. CASE Send(u)
    <3>1. chatFaults' = chatFaults /\ Len(list) = n + 1 /\ step[u] = "send"
      BY <1>1, <1>5, <1>6, <2>1 DEF Send
    <3>2. AfterSend(u) \in Steps /\ Told(kind, AfterSend(u), rows[u], n + 1, chatFaults)
      BY <1>1, <3>1, ToldSends DEF AfterSend, Steps
    <3>. QED
      BY <2>1, <3>1, <3>2 DEF Send, Goes
  <2>2. CASE SendFails(u)
    <3>1. chatFaults' = chatFaults + 1 /\ step[u] = "send" /\ step' = [step EXCEPT ![u] = "idle"]
      BY <2>2 DEF SendFails, ChatFault, Goes
    <3>2. Told(kind, "idle", rows[u], Len(list), chatFaults + 1)
      BY <1>1, <1>6, <3>1, ToldSends
    <3>. QED
      BY <3>1, <3>2 DEF Steps
  <2>3. CASE SendPhoto(u)
    <3>1. chatFaults' = chatFaults /\ Len(list) = n + 1 /\ step[u] = "photo"
          /\ step' = [step EXCEPT ![u] = "idle"]
      BY <1>1, <1>5, <1>6, <2>3 DEF SendPhoto, Goes
    <3>2. Told(kind, "idle", rows[u], n + 1, chatFaults)
      BY <1>1, <3>1, ToldSends
    <3>. QED
      BY <3>1, <3>2 DEF Steps
  <2>4. CASE SendPhotoFails(u)
    <3>1. chatFaults' = chatFaults + 1 /\ step[u] = "photo" /\ step' = [step EXCEPT ![u] = "send"]
      BY <2>4 DEF SendPhotoFails, ChatFault, Goes
    <3>2. Told(kind, "send", rows[u], Len(list), chatFaults + 1)
      BY <1>1, <1>6, <3>1, ToldSends
    <3>. QED
      BY <3>1, <3>2 DEF Steps
  <2>. QED
    BY <2>1, <2>2, <2>3, <2>4
<1>8. step[u] # "unwritten" /\ UNCHANGED message
      /\ chat' \in [Updates -> Chats] /\ target' \in [Admins -> Chats]
  BY <1>0, <1>2 DEF ScriptInv
<1>. QED
  BY <1>1, <1>2, <1>5, <1>6, <1>7, <1>8, OneUpdate

LEMMA StoreScript ==
  ASSUME ScriptInv, NEW u \in Updates,
         Store(u) \/ StoreFails(u) \/ Confirm(u) \/ ConfirmFails(u) \/ LookUpEvent(u)
  PROVE  ScriptInv'
<1>. DEFINE kind == message[u].kind
            n == Len(arrivals[u])
<1>0. step[u] \in {"store", "confirm", "notify", "lookup"}
  BY DEF Store, StoreFails, Confirm, ConfirmFails, LookUpEvent
<1>1. /\ kind \in Kinds /\ rows[u] \in Nat /\ arrivals[u] \in Seq(Chats)
      /\ n \in Nat /\ chatFaults \in Nat
      /\ Told(kind, step[u], rows[u], n, chatFaults)
  BY <1>0, Handled
<1>2. /\ UNCHANGED <<message, target, chat>>
      /\ arrivals' = [arrivals EXCEPT ![u] = arrivals[u]]
  BY DEF Store, StoreFails, Confirm, ConfirmFails, LookUpEvent, ScriptInv, peopleVars
<1>3. /\ AfterStore(u) \in Steps /\ AfterConfirm(u) \in Steps
  BY DEF AfterStore, AfterConfirm, Steps
<1>4. \E at \in Steps, r \in Nat :
        /\ step' = [step EXCEPT ![u] = at] /\ rows' = [rows EXCEPT ![u] = r]
        /\ chatFaults' \in {chatFaults, chatFaults + 1}
        /\ Told(kind, at, r, n, chatFaults')
  <2>1. CASE Store(u)
    <3>1. Told(kind, AfterStore(u), rows[u] + 1, n, chatFaults)
      BY <1>1, <2>1, ToldStores DEF Store, AfterStore
    <3>2. rows[u] + 1 \in Nat
      BY <1>1
    <3>. QED
      BY <1>3, <2>1, <3>1, <3>2 DEF Store, Goes
  <2>2. CASE StoreFails(u)
    <3>1. Told(kind, AfterStore(u), rows[u], n, chatFaults + 1)
      BY <1>1, <2>2, ToldStores DEF StoreFails, AfterStore
    <3>2. rows' = [rows EXCEPT ![u] = rows[u]] /\ chatFaults' = chatFaults + 1
      BY <2>2 DEF StoreFails, ScriptInv, ChatFault
    <3>. QED
      BY <1>1, <1>3, <2>2, <3>1, <3>2 DEF StoreFails, Goes
  <2>3. CASE Confirm(u)
    <3>1. Told(kind, AfterConfirm(u), rows[u], n, chatFaults)
      BY <1>1, <2>3, ToldStores DEF Confirm, AfterConfirm
    <3>2. rows' = [rows EXCEPT ![u] = rows[u]] /\ chatFaults' = chatFaults
      BY <2>3 DEF Confirm, ScriptInv
    <3>. QED
      BY <1>1, <1>3, <2>3, <3>1, <3>2 DEF Confirm, Goes
  <2>4. CASE ConfirmFails(u)
    <3>1. Told(kind, AfterConfirm(u), rows[u], n, chatFaults + 1)
      BY <1>1, <2>4, ToldStores DEF ConfirmFails, AfterConfirm
    <3>2. rows' = [rows EXCEPT ![u] = rows[u]] /\ chatFaults' = chatFaults + 1
      BY <2>4 DEF ConfirmFails, ScriptInv, ChatFault
    <3>. QED
      BY <1>1, <1>3, <2>4, <3>1, <3>2 DEF ConfirmFails, Goes
  <2>5. CASE LookUpEvent(u)
    <3>1. /\ Told(kind, "photo", rows[u], n, chatFaults)
          /\ Told(kind, "send", rows[u], n, chatFaults)
      BY <1>1, <2>5, ToldMoves DEF LookUpEvent
    <3>2. rows' = [rows EXCEPT ![u] = rows[u]] /\ chatFaults' = chatFaults
      BY <2>5 DEF LookUpEvent, ScriptInv
    <3>3. PICK at \in {"photo", "send"} : step' = [step EXCEPT ![u] = at]
      BY <2>5 DEF LookUpEvent, Goes
    <3>. QED
      BY <1>1, <3>1, <3>2, <3>3 DEF Steps
  <2>. QED
    BY <2>1, <2>2, <2>3, <2>4, <2>5
<1>5. step[u] # "unwritten" /\ UNCHANGED message
      /\ chat' \in [Updates -> Chats] /\ target' \in [Admins -> Chats]
  BY <1>0, <1>2 DEF ScriptInv
<1>. QED
  BY <1>1, <1>2, <1>4, <1>5, OneUpdate

LEMMA AgainScript ==
  ASSUME ScriptInv, NEW u \in Updates, AnswerLost(u)
  PROVE  ScriptInv'
<1>. DEFINE kind == message[u].kind
            n == Len(arrivals[u])
<1>1. /\ kind \in Kinds /\ rows[u] \in Nat /\ arrivals[u] \in Seq(Chats)
      /\ n \in Nat /\ chatFaults \in Nat
      /\ Told(kind, step[u], rows[u], n, chatFaults)
  BY Handled DEF AnswerLost
<1>2. /\ UNCHANGED <<message, target, chat>> /\ step[u] # "unwritten"
      /\ arrivals' = [arrivals EXCEPT ![u] = arrivals[u]]
      /\ rows' = [rows EXCEPT ![u] = rows[u]] /\ chatFaults' = chatFaults + 1
      /\ step' = [step EXCEPT ![u] = Again(u)]
  BY DEF AnswerLost, ScriptInv, peopleVars, Goes, ChatFault
<1>3. Again(u) \in Steps
  BY DEF Again, First, Steps
<1>4. Told(kind, Again(u), rows[u], n, chatFaults + 1)
  BY <1>1, ToldAgain DEF Again
<1>5. chat' \in [Updates -> Chats] /\ target' \in [Admins -> Chats]
  BY <1>2 DEF ScriptInv
<1>. QED
  BY <1>1, <1>2, <1>3, <1>4, <1>5, OneUpdate

LEMMA CrashScript ==
  ASSUME ScriptInv, ChatCrash
  PROVE  ScriptInv'
<1>1. /\ UNCHANGED <<message, chat, rows, arrivals>> /\ chatFaults' = chatFaults + 1
      /\ step' = [u \in Updates |->
           IF step[u] \in {"unwritten", "idle"} THEN step[u] ELSE Again(u)]
      /\ target' = [a \in Admins |-> NoChat] /\ chatFaults \in Nat
  BY DEF ChatCrash, ChatFault, peopleVars, ScriptInv
<1>2. \A u \in Updates : Again(u) \in Steps
  BY DEF Again, First, Steps
<1>3. step' \in [Updates -> Steps] /\ target' \in [Admins -> Chats] /\ chatFaults' \in Nat
  BY <1>1, <1>2 DEF ScriptInv, Chats
<1>4. ASSUME NEW u \in Updates PROVE UpdateInv(u)'
  <2>1. CASE step[u] = "unwritten"
    <3>1. ~ (u <= Len(message)) /\ rows[u] = 0 /\ arrivals[u] = << >>
      BY <2>1 DEF ScriptInv, UpdateInv, Told, StepsOf
    <3>. QED
      BY <1>1, <2>1, <3>1 DEF UpdateInv
  <2>2. CASE step[u] # "unwritten"
    <3>1. /\ u \in 1..Len(message) /\ message[u].kind \in Kinds
          /\ rows[u] \in Nat /\ Len(arrivals[u]) \in Nat
          /\ Told(message[u].kind, step[u], rows[u], Len(arrivals[u]), chatFaults)
          /\ message[u].kind \notin FromUser => message[u].by \in Admins
      BY <2>2, Handled
    <3>2. Told(message[u].kind, step'[u], rows[u], Len(arrivals[u]), chatFaults')
      <4>1. CASE step[u] = "idle"
        BY <1>1, <3>1, <4>1, ToldFault
      <4>2. CASE step[u] # "idle"
        <5>1. step'[u] = Again(u)
          BY <1>1, <2>2, <4>2
        <5>. QED
          BY <1>1, <3>1, <5>1, ToldAgain DEF Again
      <4>. QED
        BY <4>1, <4>2
    <3>. QED
      BY <1>1, <3>1, <3>2 DEF UpdateInv
  <2>. QED
    BY <2>1, <2>2
<1>. QED
  BY <1>1, <1>3, <1>4 DEF ScriptInv

LEMMA WriteScript ==
  ASSUME ScriptInv, NEW m \in Messages, Write(m), m.kind \notin FromUser => m.by \in Admins
  PROVE  ScriptInv'
<1>0. PICK u : u = Len(message) + 1
  OBVIOUS
<1>1. /\ u \in Updates /\ Len(message) \in Nat /\ LastUpdate \in Nat
  BY <1>0, ChatAssumption DEF Write, ScriptInv, Updates
<1>2. /\ message' = Append(message, m) /\ step' = [step EXCEPT ![u] = First(m.kind)]
      /\ chat' = [chat EXCEPT ![u] = m.to]
      /\ UNCHANGED <<target, rows, arrivals, chatFaults>>
  BY <1>0 DEF Write
<1>3. /\ message' \in Seq(Messages) /\ Len(message') = u /\ message'[u] = m
      /\ \A v \in 1..Len(message) : message'[v] = message[v]
      /\ Len(message') <= LastUpdate
  BY <1>0, <1>1, <1>2 DEF ScriptInv, Updates
<1>4. m.kind \in Kinds /\ m.to \in Chats
  BY DEF Messages, Chats
<1>5. First(m.kind) \in Steps
  BY DEF First, Steps
<1>6. step' \in [Updates -> Steps] /\ chat' \in [Updates -> Chats]
  BY <1>1, <1>2, <1>4, <1>5 DEF ScriptInv
<1>7. UpdateInv(u)'
  <2>1. rows[u] = 0 /\ arrivals[u] = << >>
    BY <1>0, <1>1 DEF ScriptInv, UpdateInv
  <2>2. step'[u] = First(m.kind)
    BY <1>1, <1>2 DEF ScriptInv
  <2>3. Told(m.kind, First(m.kind), 0, 0, chatFaults)
    BY <1>4, ToldFirst DEF ScriptInv
  <2>4. rows'[u] = 0 /\ Len(arrivals'[u]) = 0 /\ chatFaults' = chatFaults
    BY <1>2, <2>1
  <2>5. Told(message'[u].kind, step'[u], rows'[u], Len(arrivals'[u]), chatFaults')
    BY <1>3, <2>2, <2>3, <2>4
  <2>6. u <= Len(message') /\ (message'[u].kind \notin FromUser => message'[u].by \in Admins)
    BY <1>1, <1>3
  <2>. QED
    BY <2>5, <2>6 DEF UpdateInv
<1>8. ASSUME NEW v \in Updates, v # u PROVE UpdateInv(v)'
  <2>1. step'[v] = step[v] /\ UpdateInv(v) /\ v \in Nat /\ 1 <= v
    BY <1>1, <1>2, <1>8 DEF ScriptInv, Updates
  <2>2. CASE v <= Len(message)
    <3>1. v \in 1..Len(message) /\ v <= Len(message')
      BY <1>0, <1>1, <1>3, <2>1, <2>2
    <3>. QED
      BY <1>2, <1>3, <2>1, <2>2, <3>1 DEF UpdateInv
  <2>3. CASE ~ (v <= Len(message))
    <3>1. ~ (v <= Len(message'))
      BY <1>0, <1>1, <1>3, <1>8, <2>1, <2>3
    <3>. QED
      BY <1>2, <2>1, <2>3, <3>1 DEF UpdateInv
  <2>. QED
    BY <2>2, <2>3
<1>9. \A v \in Updates : UpdateInv(v)'
  BY <1>7, <1>8
<1>10. /\ target' \in [Admins -> Chats] /\ rows' \in [Updates -> Nat]
       /\ arrivals' \in [Updates -> Seq(Chats)] /\ chatFaults' \in Nat
  BY <1>2 DEF ScriptInv
<1>. QED
  BY <1>3, <1>6, <1>9, <1>10 DEF ScriptInv

\* What the people write.
Wrote(m) ==
  /\ m.kind \notin FromUser => m.by \in Admins
  /\ m.waited => Waited(m.by)
  /\ m.kind = "cancel" => m.to = NoChat
  /\ m.kind = "text" => m.to = meant[m.by]
  /\ m.kind \notin {"cancel", "text"} => m.to \in Users
  /\ meant' = IF m.kind \in {"select", "cancel", "reply"}
              THEN [meant EXCEPT ![m.by] = m.to] ELSE meant

LEMMA PeopleWrite ==
  ASSUME People, meant \in [Admins -> Chats]
  PROVE  \E m \in Messages : Write(m) /\ Wrote(m)
<1>1. ASSUME NEW a \in Admins, NEW kind \in ToChat, NEW c \in Users, WriteToChat(a, kind, c)
      PROVE  \E m \in Messages : Write(m) /\ Wrote(m)
  <2>. DEFINE m == [kind |-> kind, by |-> a, to |-> c, waited |-> Waited(a)]
  <2>1. m \in Messages
    BY DEF Messages, Kinds, Waited
  <2>2. Write(m)
    BY <1>1 DEF WriteToChat
  <2>3. m.kind = kind /\ m.by = a /\ m.to = c /\ m.waited = Waited(a)
    OBVIOUS
  <2>. HIDE DEF m
  <2>4. kind \in {"select", "cancel", "reply"} <=> kind # "panel"
    BY DEF ToChat
  <2>5. kind # "cancel" /\ kind # "text"
    BY DEF ToChat
  <2>6. meant' = IF m.kind \in {"select", "cancel", "reply"}
                 THEN [meant EXCEPT ![m.by] = m.to] ELSE meant
    BY <1>1, <2>3, <2>4 DEF WriteToChat
  <2>. QED
    BY <2>1, <2>2, <2>3, <2>5, <2>6 DEF Wrote
<1>2. ASSUME NEW a \in Admins, WriteCancel(a)
      PROVE  \E m \in Messages : Write(m) /\ Wrote(m)
  <2>. DEFINE m == [kind |-> "cancel", by |-> a, to |-> NoChat, waited |-> Waited(a)]
  <2>1. m \in Messages
    BY DEF Messages, Kinds, Waited
  <2>2. Write(m)
    BY <1>2 DEF WriteCancel
  <2>3. m.kind = "cancel" /\ m.by = a /\ m.to = NoChat /\ m.waited = Waited(a)
    OBVIOUS
  <2>. HIDE DEF m
  <2>. QED
    BY <1>2, <2>1, <2>2, <2>3 DEF Wrote, WriteCancel
<1>3. ASSUME NEW a \in Admins, WriteText(a)
      PROVE  \E m \in Messages : Write(m) /\ Wrote(m)
  <2>. DEFINE m == [kind |-> "text", by |-> a, to |-> meant[a], waited |-> Waited(a)]
  <2>1. m \in Messages
    BY DEF Messages, Kinds, Waited, Chats
  <2>2. Write(m)
    BY <1>3 DEF WriteText
  <2>3. m.kind = "text" /\ m.by = a /\ m.to = meant[a] /\ m.waited = Waited(a)
    OBVIOUS
  <2>. HIDE DEF m
  <2>. QED
    BY <1>3, <2>1, <2>2, <2>3 DEF Wrote, WriteText
<1>4. ASSUME NEW c \in Users, NEW kind \in FromUser, WriteIncoming(c, kind)
      PROVE  \E m \in Messages : Write(m) /\ Wrote(m)
  <2>. DEFINE m == [kind |-> kind, by |-> c, to |-> c, waited |-> FALSE]
  <2>1. m \in Messages
    BY DEF Messages, Kinds
  <2>2. Write(m)
    BY <1>4 DEF WriteIncoming
  <2>3. m.kind = kind /\ m.to = c /\ m.waited = FALSE
    OBVIOUS
  <2>. HIDE DEF m
  <2>4. m.kind \in FromUser /\ m.kind \notin {"select", "cancel", "reply", "text"}
    BY <2>3 DEF FromUser
  <2>. QED
    BY <1>4, <2>1, <2>2, <2>3, <2>4 DEF Wrote, WriteIncoming
<1>. QED
  BY <1>1, <1>2, <1>3, <1>4 DEF People

ChatInv == ScriptInv /\ meant \in [Admins -> Chats]

LEMMA ScriptInitial == ChatInit => ChatInv
<1>1. SUFFICES ASSUME ChatInit PROVE ScriptInv /\ meant \in [Admins -> Chats]
  BY DEF ChatInv
<1>2. message = << >> /\ Len(message) = 0 /\ message \in Seq(Messages) /\ LastUpdate \in Nat
  BY <1>1, ChatAssumption DEF ChatInit
<1>3. /\ step = [u \in Updates |-> "unwritten"] /\ chat = [u \in Updates |-> NoChat]
      /\ target = [a \in Admins |-> NoChat] /\ meant = [a \in Admins |-> NoChat]
      /\ rows = [u \in Updates |-> 0] /\ arrivals = [u \in Updates |-> << >>]
      /\ chatFaults = 0
  BY <1>1 DEF ChatInit
<1>4. << >> \in Seq(Chats) /\ NoChat \in Chats /\ "unwritten" \in Steps
  BY DEF Chats, Steps
<1>5. \A u \in Updates : UpdateInv(u)
  BY <1>2, <1>3 DEF UpdateInv, Updates
<1>. QED
  BY <1>2, <1>3, <1>4, <1>5 DEF ScriptInv

LEMMA ScriptStep == ChatInv /\ [ChatNext]_chatVars => ChatInv'
<1>1. SUFFICES ASSUME ScriptInv, meant \in [Admins -> Chats], [ChatNext]_chatVars
               PROVE  ScriptInv' /\ meant' \in [Admins -> Chats]
  BY DEF ChatInv
<1>2. CASE People
  <2>1. ScriptInv'
    BY <1>1, <1>2, PeopleWrite, WriteScript DEF Wrote
  <2>2. meant' \in [Admins -> Chats]
    BY <1>1, <1>2 DEF People, WriteToChat, WriteCancel, WriteText, WriteIncoming, Chats
  <2>. QED
    BY <2>1, <2>2
<1>3. ASSUME NEW u \in Updates,
             \/ SetTarget(u) \/ ClearTarget(u) \/ ReadTarget(u)
             \/ Send(u) \/ SendFails(u) \/ SendPhoto(u) \/ SendPhotoFails(u)
             \/ Store(u) \/ StoreFails(u) \/ Confirm(u) \/ ConfirmFails(u) \/ LookUpEvent(u)
             \/ AnswerLost(u)
      PROVE  ScriptInv' /\ UNCHANGED meant
  <2>1. ScriptInv'
    BY <1>1, <1>3, TargetScript, SendScript, StoreScript, AgainScript
  <2>2. UNCHANGED meant
    BY <1>3 DEF SetTarget, ClearTarget, ReadTarget, Send, SendFails, SendPhoto,
       SendPhotoFails, Store, StoreFails, Confirm, ConfirmFails, LookUpEvent, AnswerLost,
       peopleVars
  <2>. QED
    BY <2>1, <2>2
<1>4. CASE ChatCrash
  BY <1>1, <1>4, CrashScript DEF ChatCrash, peopleVars
<1>5. CASE UNCHANGED chatVars
  BY <1>1, <1>5 DEF chatVars, peopleVars, ScriptInv, UpdateInv
<1>. QED
  BY <1>1, <1>2, <1>3, <1>4, <1>5 DEF ChatNext, Handle

\* The transcript of the chat shows no text that has not reached its chat, each
\* message told again has a fault of its own, and without faults each is told
\* once: for any number of administrators, users, messages and faults.
THEOREM TranscriptTheorem == ChatSpec => []TranscriptTruthful
<1>1. ChatInv => TranscriptTruthful
  <2>1. SUFFICES ASSUME ScriptInv, NEW u \in 1..Len(message)
        PROVE  /\ Outgoing(u) => rows[u] <= Len(arrivals[u])
               /\ rows[u] <= 1 + chatFaults /\ Len(arrivals[u]) <= 1 + chatFaults
               /\ chatFaults = 0 /\ step[u] = "idle" =>
                    /\ Outgoing(u) => rows[u] = Len(arrivals[u])
                    /\ message[u].kind \in FromUser => rows[u] = 1
                    /\ message[u].kind \in {"reply", "panel", "start"} => Len(arrivals[u]) = 1
    BY DEF TranscriptTruthful, ChatInv
  <2>2. u \in Updates /\ u <= Len(message)
    BY <2>1, ChatAssumption DEF ScriptInv, Updates
  <2>3. /\ rows[u] \in Nat /\ Len(arrivals[u]) \in Nat /\ chatFaults \in Nat
        /\ Told(message[u].kind, step[u], rows[u], Len(arrivals[u]), chatFaults)
    BY <2>1, <2>2 DEF ScriptInv, UpdateInv
  <2>4. PICK kind, at, r, n :
          kind = message[u].kind /\ at = step[u] /\ r = rows[u] /\ n = Len(arrivals[u])
    OBVIOUS
  <2>5. /\ r \in Nat /\ n \in Nat /\ chatFaults \in Nat /\ Told(kind, at, r, n, chatFaults)
        /\ Outgoing(u) <=> kind \in ToldKinds
    BY <2>3, <2>4 DEF Outgoing, ToldKinds
  <2>6. r <= 1 + chatFaults /\ n <= 1 + chatFaults /\ (kind \in ToldKinds => r <= n)
    BY <2>5, ToldBounds
  <2>7. ASSUME chatFaults = 0, at = "idle"
        PROVE  /\ kind \in ToldKinds => r = n
               /\ kind \in FromUser => r = 1
               /\ kind \in {"reply", "panel", "start"} => n = 1
    <3>1. Told(kind, "idle", r, n, 0)
      BY <2>5, <2>7
    <3>. QED
      BY <2>5, <3>1, ToldWell
  <2>. QED
    BY <2>4, <2>5, <2>6, <2>7
<1>. QED
  BY <1>1, ScriptInitial, ScriptStep, PTL DEF ChatSpec

-----------------------------------------------------------------------------
(***************************************************************************)
(* And its texts: an administrator who waits for each confirmation has his *)
(* selections made in their order, so that the target is of the last one   *)
(* made or of a later one.                                                 *)
(***************************************************************************)
IsLast(w, S) == \A v \in S : v <= w

Earlier(u) == {v \in Selections(message[u].by) : v < u}

AuthorInv(u) ==
  /\ message[u].kind \in {"select", "cancel", "reply"} => chat[u] = message[u].to
  /\ message[u].kind = "cancel" => message[u].to = NoChat
  /\ message[u].waited => Earlier(u) \subseteq confirmed
  /\ message[u].kind = "text" =>
       \/ Earlier(u) = {} /\ message[u].to = NoChat
       \/ \E w \in Earlier(u) : IsLast(w, Earlier(u)) /\ message[u].to = message[w].to

MeantInv(a) ==
  \/ Selections(a) = {} /\ meant[a] = NoChat
  \/ \E w \in Selections(a) : IsLast(w, Selections(a)) /\ meant[a] = message[w].to

\* The selection has set the target of its author.
HasSet(v) == step[v] \in {"store", "confirm"} \/ v \in confirmed

ToFrom(a, v) == {message[w].to : w \in {w \in Selections(a) : w >= v}}

TargetInv(a) ==
  /\ target[a] \in {NoChat} \cup {message[w].to : w \in Selections(a)}
  /\ \A v \in Selections(a) :
       /\ v \in confirmed => step[v] = "idle"
       /\ message[v].waited /\ HasSet(v) => target[a] \in ToFrom(a, v)

ReachInv(u) ==
  message[u].kind = "text" /\ Patient(u) =>
    LET Right == {message[u].to} \cup LaterChats(u)
    IN  /\ step[u] = "send" => chat[u] \in Right
        /\ \A n \in 1..Len(arrivals[u]) : arrivals[u][n] \in Right

AuthorsInv ==
  /\ confirmed \subseteq 1..Len(message)
  /\ \A u \in 1..Len(message) : AuthorInv(u)
  /\ \A a \in Admins : MeantInv(a)

TextsInv ==
  /\ \A a \in Admins : TargetInv(a)
  /\ \A u \in 1..Len(message) : ReachInv(u)

PeopleInv == AuthorsInv /\ (repeated \/ TextsInv)

LEMMA SelectionsStay ==
  ASSUME UNCHANGED message
  PROVE  /\ \A a : Selections(a)' = Selections(a)
         /\ \A u : /\ Earlier(u)' = Earlier(u) /\ LaterChats(u)' = LaterChats(u)
                   /\ Patient(u)' = Patient(u)
         /\ \A a, v : ToFrom(a, v)' = ToFrom(a, v)
BY DEF Selections, Earlier, LaterChats, Patient, ToFrom

LEMMA SelectionFacts ==
  ASSUME ScriptInv, NEW a, NEW v \in Selections(a)
  PROVE  /\ v \in 1..Len(message) /\ v \in Updates /\ v \in Nat /\ message[v].by = a
         /\ message[v].kind \in {"select", "cancel", "reply"}
BY ChatAssumption DEF Selections, ScriptInv, Updates

\* A handler leaves what was written, and the chat of all but a text.
LEMMA AuthorsStay ==
  ASSUME ScriptInv, AuthorsInv, UNCHANGED <<message, meant>>,
         confirmed \subseteq confirmed', confirmed' \subseteq 1..Len(message),
         \A v \in 1..Len(message) : message[v].kind # "text" => chat'[v] = chat[v]
  PROVE  AuthorsInv'
<1>1. ASSUME NEW u \in 1..Len(message) PROVE AuthorInv(u)'
  <2>1. AuthorInv(u) /\ Earlier(u)' = Earlier(u)
    BY SelectionsStay DEF AuthorsInv
  <2>2. message[u].kind \in {"select", "cancel", "reply"} => chat'[u] = message[u].to
    BY <2>1 DEF AuthorInv
  <2>. QED
    BY <2>1, <2>2 DEF AuthorInv, IsLast
<1>2. ASSUME NEW a \in Admins PROVE MeantInv(a)'
  BY SelectionsStay DEF AuthorsInv, MeantInv, IsLast
<1>. QED
  BY <1>1, <1>2 DEF AuthorsInv

\* A handler makes a step that leaves the targets alone.
LEMMA TargetStays ==
  ASSUME ScriptInv, AuthorsInv, TextsInv, NEW u \in Updates, NEW at \in Steps,
         UNCHANGED <<message, target>>, step[u] # "idle",
         step' = [step EXCEPT ![u] = at],
         confirmed \subseteq confirmed', confirmed' \subseteq confirmed \cup {u},
         \A a \in Admins : u \in Selections(a) =>
           /\ u \in confirmed' => at = "idle"
           /\ HasSet(u)' => HasSet(u)
  PROVE  \A a \in Admins : TargetInv(a)'
<1>1. SUFFICES ASSUME NEW a \in Admins PROVE TargetInv(a)'
  OBVIOUS
<1>2. TargetInv(a) /\ Selections(a)' = Selections(a) /\ \A v : ToFrom(a, v)' = ToFrom(a, v)
  BY SelectionsStay DEF TextsInv
<1>3. ASSUME NEW v \in Selections(a)
      PROVE  /\ v \in confirmed' => step'[v] = "idle"
             /\ HasSet(v)' => HasSet(v)
  <2>1. v \in Updates
    BY SelectionFacts
  <2>2. CASE v = u
    BY <1>3, <2>1, <2>2 DEF ScriptInv
  <2>3. CASE v # u
    <3>1. step'[v] = step[v] /\ (v \in confirmed' <=> v \in confirmed)
      BY <2>1, <2>3 DEF ScriptInv
    <3>. QED
      BY <1>2, <1>3, <3>1 DEF TargetInv, HasSet
  <2>. QED
    BY <2>2, <2>3
<1>4. target'[a] \in {NoChat} \cup {message'[w].to : w \in Selections(a)'}
  BY <1>2 DEF TargetInv
<1>5. ASSUME NEW v \in Selections(a), message[v].waited, HasSet(v)'
      PROVE  target'[a] \in ToFrom(a, v)
  BY <1>2, <1>3, <1>5 DEF TargetInv
<1>. QED
  BY <1>2, <1>3, <1>4, <1>5 DEF TargetInv

\* The target is set for a selection: those it knows of, which have waited, are
\* no later ones.
LEMMA TargetIsSet ==
  ASSUME ScriptInv, AuthorsInv, TextsInv, NEW u \in Updates, SetTarget(u) \/ ClearTarget(u)
  PROVE  \A a \in Admins : TargetInv(a)'
<1>0. PICK b : b = message[u].by
  OBVIOUS
<1>1. /\ step[u] \in {"set", "setAfter", "clear"} /\ step[u] # "idle"
      /\ UNCHANGED <<message, confirmed>> /\ u \in 1..Len(message)
      /\ message[u].kind \in {"select", "cancel", "reply"} /\ b \in Admins
      /\ u \in Selections(b)
  <2>1. step[u] \in {"set", "setAfter", "clear"} /\ UNCHANGED <<message, confirmed>>
    BY DEF SetTarget, ClearTarget, peopleVars
  <2>2. /\ u \in 1..Len(message) /\ message[u].kind \in Kinds
        /\ Told(message[u].kind, step[u], rows[u], Len(arrivals[u]), chatFaults)
        /\ message[u].kind \notin FromUser => message[u].by \in Admins
    BY <2>1, Handled
  <2>3. message[u].kind \in {"select", "cancel", "reply"}
    BY <2>1, <2>2 DEF Told, StepsOf
  <2>. QED
    BY <1>0, <2>1, <2>2, <2>3 DEF FromUser, Selections
<1>2. target' = [target EXCEPT ![b] = message[u].to]
  <2>1. chat[u] = message[u].to /\ (message[u].kind = "cancel" => message[u].to = NoChat)
    BY <1>1 DEF AuthorsInv, AuthorInv
  <2>2. CASE SetTarget(u)
    BY <1>0, <2>1, <2>2 DEF SetTarget
  <2>3. CASE ClearTarget(u)
    <3>1. message[u].kind = "cancel"
      BY <1>1, <2>3, Handled DEF ClearTarget, Told, StepsOf
    <3>. QED
      BY <1>0, <2>1, <2>3, <3>1 DEF ClearTarget
  <2>. QED
    BY <2>2, <2>3
<1>3. PICK at \in Steps : step' = [step EXCEPT ![u] = at]
  BY DEF SetTarget, ClearTarget, Goes, Steps
<1>4. SUFFICES ASSUME NEW a \in Admins PROVE TargetInv(a)'
  OBVIOUS
<1>5. TargetInv(a) /\ Selections(a)' = Selections(a) /\ \A v : ToFrom(a, v)' = ToFrom(a, v)
  BY <1>1, SelectionsStay DEF TextsInv
<1>6. TargetInv(b)
  BY <1>1 DEF TextsInv
<1>7. u \notin confirmed
  BY <1>1, <1>6 DEF TargetInv
<1>8. ASSUME NEW v \in Selections(a)
      PROVE  /\ v \in confirmed => step'[v] = "idle"
             /\ v # u => (HasSet(v)' => HasSet(v))
  <2>1. v \in Updates
    BY SelectionFacts
  <2>2. v # u => step'[v] = step[v]
    BY <1>3, <2>1 DEF ScriptInv
  <2>. QED
    BY <1>1, <1>5, <1>7, <1>8, <2>2 DEF TargetInv, HasSet
<1>9. /\ UNCHANGED <<message, confirmed>> /\ Selections(a)' = Selections(a)
       /\ \A v : ToFrom(a, v)' = ToFrom(a, v)
  BY <1>1, <1>5
<1>10. \A v \in Selections(a) : v \in confirmed => step'[v] = "idle"
  BY <1>8
<1>11. CASE a = b
  <2>1. target'[a] = message[u].to
    BY <1>1, <1>2, <1>11 DEF ScriptInv
  <2>2. ASSUME NEW v \in Selections(a), message[v].waited, HasSet(v)'
        PROVE  target'[a] \in ToFrom(a, v)
    <3>1. v \in 1..Len(message) /\ v \in Nat /\ u \in Nat /\ message[v].by = a
      BY <1>1, SelectionFacts
    <3>2. u >= v
      <4>1. SUFFICES ASSUME u < v PROVE FALSE
        BY <3>1
      <4>2. u \in Earlier(v)
        BY <1>1, <1>11, <3>1, <4>1 DEF Earlier
      <4>3. Earlier(v) \subseteq confirmed
        BY <2>2, <3>1 DEF AuthorsInv, AuthorInv
      <4>. QED
        BY <1>7, <4>2, <4>3
    <3>. QED
      BY <1>1, <1>11, <2>1, <3>2 DEF ToFrom
  <2>3. target'[a] \in {NoChat} \cup {message'[w].to : w \in Selections(a)'}
    BY <1>1, <1>5, <1>11, <2>1
  <2>. QED
    BY <1>9, <1>10, <2>2, <2>3 DEF TargetInv
<1>12. CASE a # b
  <2>1. target'[a] = target[a] /\ u \notin Selections(a)
    BY <1>0, <1>2, <1>12 DEF ScriptInv, Selections
  <2>2. ASSUME NEW v \in Selections(a), message[v].waited, HasSet(v)'
        PROVE  target'[a] \in ToFrom(a, v)
    BY <1>5, <1>8, <2>1, <2>2 DEF TargetInv
  <2>3. target'[a] \in {NoChat} \cup {message'[w].to : w \in Selections(a)'}
    BY <1>1, <1>5, <2>1 DEF TargetInv
  <2>. QED
    BY <1>9, <1>10, <2>2, <2>3 DEF TargetInv
<1>. QED
  BY <1>11, <1>12

\* A handler reads no target and sends no text.
LEMMA ReachStays ==
  ASSUME TextsInv, UNCHANGED message,
         \A v \in 1..Len(message) : message[v].kind = "text" =>
           /\ step'[v] = "send" => step[v] = "send" /\ chat'[v] = chat[v]
           /\ arrivals'[v] = arrivals[v]
  PROVE  \A v \in 1..Len(message) : ReachInv(v)'
BY SelectionsStay DEF TextsInv, ReachInv

\* The author of a text has waited, so the target is of his last selection
\* before it, or of one he has made since.
LEMMA TargetIsMeant ==
  ASSUME ScriptInv, AuthorsInv, TextsInv, NEW u \in 1..Len(message),
         message[u].kind = "text", Patient(u), message[u].by \in Admins,
         target[message[u].by] # NoChat
  PROVE  target[message[u].by] \in {message[u].to} \cup LaterChats(u)
<1>0. PICK a : a = message[u].by
  OBVIOUS
<1>1. /\ TargetInv(a) /\ AuthorInv(u) /\ u \in Nat /\ u \notin Selections(a) /\ message[u].waited
      /\ \A v \in Selections(a) : v <= u => message[v].waited
  BY <1>0 DEF TextsInv, AuthorsInv, Selections, Patient
<1>2. \A v \in Selections(a) : v \in Nat /\ v # u
  BY <1>1, SelectionFacts
<1>3. \A v \in Selections(a) : v > u => message[v].to \in LaterChats(u)
  BY <1>0 DEF LaterChats
<1>4. CASE Earlier(u) = {}
  <2>1. \A v \in Selections(a) : v > u
    BY <1>0, <1>1, <1>2, <1>4 DEF Earlier
  <2>. QED
    BY <1>0, <1>1, <1>3, <2>1 DEF TargetInv
<1>5. CASE Earlier(u) # {}
  <2>1. PICK w \in Earlier(u) : IsLast(w, Earlier(u)) /\ message[u].to = message[w].to
    BY <1>1, <1>5 DEF AuthorInv
  <2>2. w \in Selections(a) /\ w < u /\ w \in Nat
    BY <1>0, <1>2, <2>1 DEF Earlier
  <2>3. message[w].waited /\ HasSet(w)
    BY <1>1, <2>1, <2>2 DEF AuthorInv, HasSet
  <2>4. target[a] \in ToFrom(a, w)
    BY <1>1, <2>2, <2>3 DEF TargetInv
  <2>5. PICK v \in Selections(a) : v >= w /\ target[a] = message[v].to
    BY <2>4 DEF ToFrom
  <2>6. CASE v > u
    BY <1>0, <1>3, <2>5, <2>6
  <2>7. CASE ~ (v > u)
    <3>1. v \in Earlier(u)
      BY <1>0, <1>1, <1>2, <2>7 DEF Earlier
    <3>2. v <= w
      BY <2>1, <3>1 DEF IsLast
    <3>3. v \in Nat
      BY <1>2
    <3>4. v = w
      BY <2>2, <2>5, <3>2, <3>3
    <3>. QED
      BY <1>0, <2>1, <2>5, <3>4
  <2>. QED
    BY <2>6, <2>7
<1>. QED
  BY <1>4, <1>5

LEMMA ReachReads ==
  ASSUME ScriptInv, AuthorsInv, TextsInv, NEW u \in Updates, ReadTarget(u)
  PROVE  \A v \in 1..Len(message) : ReachInv(v)'
<1>1. /\ UNCHANGED <<message, arrivals>> /\ step[u] = "read"
      /\ chat' = [chat EXCEPT ![u] = target[message[u].by]]
  BY DEF ReadTarget, peopleVars
<1>2. u \in 1..Len(message) /\ message[u].kind = "text" /\ message[u].by \in Admins
  BY <1>1, Handled DEF Told, StepsOf, FromUser
<1>3. step'[u] = "send" => target[message[u].by] # NoChat
  BY DEF ReadTarget, Goes, ScriptInv
<1>4. chat'[u] = target[message[u].by]
  BY <1>1 DEF ScriptInv
<1>5. ReachInv(u)'
  <2>1. /\ LaterChats(u)' = LaterChats(u) /\ Patient(u)' = Patient(u)
    BY <1>1, SelectionsStay
  <2>2. ASSUME Patient(u), step'[u] = "send"
        PROVE  chat'[u] \in {message[u].to} \cup LaterChats(u)
    BY <1>2, <1>3, <1>4, <2>2, TargetIsMeant
  <2>3. ASSUME Patient(u), NEW n \in 1..Len(arrivals[u])
        PROVE  arrivals[u][n] \in {message[u].to} \cup LaterChats(u)
    BY <1>2, <2>3 DEF TextsInv, ReachInv
  <2>. QED
    BY <1>1, <2>1, <2>2, <2>3 DEF ReachInv
<1>6. ASSUME NEW v \in 1..Len(message), v # u PROVE ReachInv(v)'
  <2>1. v \in Updates
    BY ChatAssumption DEF ScriptInv, Updates
  <2>2. step'[v] = step[v] /\ chat'[v] = chat[v]
    BY <1>1, <1>6, <2>1 DEF ReadTarget, Goes, ScriptInv
  <2>3. ReachInv(v) /\ LaterChats(v)' = LaterChats(v) /\ Patient(v)' = Patient(v)
    BY <1>1, SelectionsStay DEF TextsInv
  <2>. QED
    BY <1>1, <2>2, <2>3 DEF ReachInv
<1>. QED
  BY <1>5, <1>6

LEMMA ReachSends ==
  ASSUME ScriptInv, AuthorsInv, TextsInv, NEW u \in Updates, Send(u) \/ SendFails(u)
  PROVE  \A v \in 1..Len(message) : ReachInv(v)'
<1>1. /\ UNCHANGED <<message, chat>> /\ step[u] = "send"
      /\ arrivals' = [arrivals EXCEPT ![u] = Append(@, chat[u])] \/ arrivals' = arrivals
  BY DEF Send, SendFails, peopleVars, Arrives
<1>2. /\ u \in 1..Len(message) /\ arrivals[u] \in Seq(Chats) /\ chat[u] \in Chats
  BY <1>1, Handled
<1>3. step'[u] # "send"
  BY DEF Send, SendFails, Goes, AfterSend, ScriptInv
<1>4. ReachInv(u)'
  <2>1. /\ LaterChats(u)' = LaterChats(u) /\ Patient(u)' = Patient(u)
    BY <1>1, SelectionsStay
  <2>2. ASSUME message[u].kind = "text", Patient(u), NEW n \in 1..Len(arrivals'[u])
        PROVE  arrivals'[u][n] \in {message[u].to} \cup LaterChats(u)
    <3>1. /\ chat[u] \in {message[u].to} \cup LaterChats(u)
          /\ \A k \in 1..Len(arrivals[u]) : arrivals[u][k] \in {message[u].to} \cup LaterChats(u)
      BY <1>1, <1>2, <2>2 DEF TextsInv, ReachInv
    <3>2. CASE arrivals' = arrivals
      BY <2>2, <3>1, <3>2
    <3>3. CASE arrivals' = [arrivals EXCEPT ![u] = Append(@, chat[u])]
      <4>1. arrivals'[u] = Append(arrivals[u], chat[u])
        BY <3>3 DEF ScriptInv
      <4>2. n \in 1..Len(arrivals[u]) \/ n = Len(arrivals[u]) + 1
        BY <1>2, <2>2, <4>1
      <4>3. n \in 1..Len(arrivals[u]) => arrivals'[u][n] = arrivals[u][n]
        BY <1>2, <4>1
      <4>4. n = Len(arrivals[u]) + 1 => arrivals'[u][n] = chat[u]
        BY <1>2, <4>1
      <4>. QED
        BY <3>1, <4>2, <4>3, <4>4
    <3>. QED
      BY <1>1, <3>2, <3>3
  <2>. QED
    BY <1>1, <1>3, <2>1, <2>2 DEF ReachInv
<1>5. ASSUME NEW v \in 1..Len(message), v # u PROVE ReachInv(v)'
  <2>1. v \in Updates
    BY ChatAssumption DEF ScriptInv, Updates
  <2>2. step'[v] = step[v] /\ arrivals'[v] = arrivals[v]
    BY <1>1, <1>5, <2>1 DEF Send, SendFails, Goes, ScriptInv
  <2>3. ReachInv(v) /\ LaterChats(v)' = LaterChats(v) /\ Patient(v)' = Patient(v)
    BY <1>1, SelectionsStay DEF TextsInv
  <2>. QED
    BY <1>1, <2>2, <2>3 DEF ReachInv
<1>. QED
  BY <1>4, <1>5

\* What a message adds to the selections.
LEMMA SelectionsGrow ==
  ASSUME ScriptInv, NEW m \in Messages, Write(m), NEW n, n = Len(message) + 1
  PROVE  /\ n \in Updates /\ n \in Nat /\ n \notin 1..Len(message)
         /\ 1..Len(message') = 1..Len(message) \cup {n} /\ message'[n] = m
         /\ \A v \in 1..Len(message) : v \in Nat /\ v < n /\ message'[v] = message[v]
         /\ \A a : Selections(a) \subseteq Selections(a)'
         /\ \A a : Selections(a)' \subseteq Selections(a) \cup {n}
         /\ \A a : n \in Selections(a)'
                  <=> m.by = a /\ m.kind \in {"select", "cancel", "reply"}
<1>1. n \in Updates /\ Len(message) \in Nat /\ n \in Nat
  BY ChatAssumption DEF Write, ScriptInv, Updates
<1>2. /\ message' = Append(message, m) /\ Len(message') = n /\ message'[n] = m
      /\ \A v \in 1..Len(message) : message'[v] = message[v]
  BY <1>1 DEF ScriptInv, Write
<1>3. 1..Len(message') = 1..Len(message) \cup {n} /\ n \notin 1..Len(message)
  BY <1>1, <1>2
<1>4. \A v \in 1..Len(message) : v \in Nat /\ v < n
  BY <1>1
<1>. QED
  BY <1>1, <1>2, <1>3, <1>4 DEF Selections

LEMMA EarlierStays ==
  ASSUME ScriptInv, NEW m \in Messages, Write(m), NEW n, n = Len(message) + 1
  PROVE  /\ \A v \in 1..Len(message) : Earlier(v)' = Earlier(v)
         /\ Earlier(n)' = Selections(m.by)
<1>1. /\ n \in Nat /\ message'[n] = m
      /\ \A v \in 1..Len(message) : v \in Nat /\ v < n /\ message'[v] = message[v]
      /\ \A a : Selections(a) \subseteq Selections(a)' /\ Selections(a)' \subseteq Selections(a) \cup {n}
  BY SelectionsGrow
<1>2. \A a : \A v \in Selections(a) : v \in Nat /\ v < n
  BY <1>1 DEF Selections
<1>3. ASSUME NEW v \in 1..Len(message) PROVE Earlier(v)' = Earlier(v)
  <2>1. message'[v].by = message[v].by /\ v \in Nat /\ v < n /\ ~ (n < v)
    BY <1>1
  <2>. QED
    BY <1>1, <2>1 DEF Earlier
<1>4. Earlier(n)' = Selections(m.by)
  <2>1. ~ (n < n)
    BY <1>1
  <2>. QED
    BY <1>1, <1>2, <2>1 DEF Earlier
<1>. QED
  BY <1>3, <1>4

\* A new message is of an author who has waited for what it says he has.
LEMMA WriteAuthors ==
  ASSUME ScriptInv, AuthorsInv, meant \in [Admins -> Chats],
         NEW m \in Messages, Write(m), Wrote(m)
  PROVE  AuthorsInv'
<1>0. PICK n : n = Len(message) + 1
  OBVIOUS
<1>1. /\ n \in Updates /\ n \in Nat /\ n \notin 1..Len(message)
      /\ 1..Len(message') = 1..Len(message) \cup {n} /\ message'[n] = m
      /\ \A v \in 1..Len(message) : v \in Nat /\ v < n /\ message'[v] = message[v]
  BY <1>0, SelectionsGrow
<1>2. /\ \A v \in 1..Len(message) : Earlier(v)' = Earlier(v)
      /\ Earlier(n)' = Selections(m.by)
  BY <1>0, EarlierStays
<1>3. /\ UNCHANGED confirmed /\ chat' = [chat EXCEPT ![n] = m.to]
  BY <1>0 DEF Write
<1>4. \A a : \A v \in Selections(a) : v \in 1..Len(message)
  BY DEF Selections
<1>5. ASSUME NEW v \in 1..Len(message) PROVE AuthorInv(v)'
  <2>1. AuthorInv(v) /\ message'[v] = message[v] /\ Earlier(v)' = Earlier(v)
    BY <1>1, <1>2 DEF AuthorsInv
  <2>2. chat'[v] = chat[v]
    BY <1>1, <1>3, ChatAssumption DEF ScriptInv, Updates
  <2>3. \A w \in Earlier(v) : message'[w] = message[w]
    BY <1>1, <1>4 DEF Earlier
  <2>. QED
    BY <1>3, <2>1, <2>2, <2>3 DEF AuthorInv, IsLast
<1>6. AuthorInv(n)'
  <2>1. chat'[n] = m.to
    BY <1>1, <1>3 DEF ScriptInv
  <2>2. m.waited => Earlier(n)' \subseteq confirmed
    BY <1>2 DEF Wrote, Waited
  <2>3. ASSUME m.kind = "text"
        PROVE  \/ Earlier(n)' = {} /\ m.to = NoChat
               \/ \E w \in Earlier(n)' : IsLast(w, Earlier(n)') /\ m.to = message'[w].to
    <3>1. m.by \in Admins /\ m.to = meant[m.by]
      BY <2>3 DEF Wrote, FromUser
    <3>2. MeantInv(m.by)
      BY <3>1 DEF AuthorsInv
    <3>3. \A w \in Selections(m.by) : message'[w] = message[w]
      BY <1>1, <1>4
    <3>. QED
      BY <1>2, <3>1, <3>2, <3>3 DEF MeantInv
  <2>4. m.kind = "cancel" => m.to = NoChat
    BY DEF Wrote
  <2>. QED
    BY <1>1, <1>3, <2>1, <2>2, <2>3, <2>4 DEF AuthorInv, IsLast
<1>7. ASSUME NEW a \in Admins PROVE MeantInv(a)'
  <2>1. /\ Selections(a) \subseteq Selections(a)' /\ Selections(a)' \subseteq Selections(a) \cup {n}
        /\ n \in Selections(a)' <=> m.by = a /\ m.kind \in {"select", "cancel", "reply"}
    BY <1>0, SelectionsGrow
  <2>2. CASE n \in Selections(a)'
    <3>1. meant'[a] = m.to
      BY <2>1, <2>2 DEF Wrote
    <3>2. \A v \in Selections(a)' : v <= n
      BY <1>1, <1>4, <2>1
    <3>. QED
      BY <1>1, <2>2, <3>1, <3>2 DEF MeantInv, IsLast
  <2>3. CASE n \notin Selections(a)'
    <3>1. meant'[a] = meant[a]
      BY <2>1, <2>3 DEF Wrote, FromUser
    <3>2. Selections(a)' = Selections(a)
      BY <2>1, <2>3
    <3>3. \A w \in Selections(a) : message'[w] = message[w]
      BY <1>1, <1>4
    <3>. QED
      BY <3>1, <3>2, <3>3 DEF AuthorsInv, MeantInv, IsLast
  <2>. QED
    BY <2>2, <2>3
<1>. QED
  BY <1>1, <1>3, <1>5, <1>6, <1>7 DEF AuthorsInv

LEMMA WriteTexts ==
  ASSUME ScriptInv, AuthorsInv, TextsInv, NEW m \in Messages, Write(m)
  PROVE  TextsInv'
<1>0. PICK n : n = Len(message) + 1
  OBVIOUS
<1>1. /\ n \in Updates /\ n \in Nat /\ n \notin 1..Len(message)
      /\ 1..Len(message') = 1..Len(message) \cup {n} /\ message'[n] = m
      /\ \A v \in 1..Len(message) : v \in Nat /\ v < n /\ message'[v] = message[v]
      /\ \A a : Selections(a) \subseteq Selections(a)'
      /\ \A a : Selections(a)' \subseteq Selections(a) \cup {n}
      /\ \A a : n \in Selections(a)' <=> m.by = a /\ m.kind \in {"select", "cancel", "reply"}
  BY <1>0, SelectionsGrow
<1>2. /\ UNCHANGED <<target, confirmed, arrivals>>
      /\ chat' = [chat EXCEPT ![n] = m.to] /\ step' = [step EXCEPT ![n] = First(m.kind)]
  BY <1>0 DEF Write
<1>3. \A v \in 1..Len(message) : v \in Updates /\ step'[v] = step[v] /\ chat'[v] = chat[v]
  BY <1>1, <1>2, ChatAssumption DEF ScriptInv, Updates
<1>4. \A a : \A v \in Selections(a) : v \in 1..Len(message)
  BY DEF Selections
<1>5. step'[n] = First(m.kind)
  BY <1>1, <1>2 DEF ScriptInv
<1>6. ASSUME NEW a \in Admins PROVE TargetInv(a)'
  <2>1. TargetInv(a)
    BY DEF TextsInv
  <2>2. \A w \in Selections(a) : w \in Selections(a)' /\ message'[w] = message[w]
    BY <1>1, <1>4
  <2>3. target'[a] \in {NoChat} \cup {message'[w].to : w \in Selections(a)'}
    BY <1>2, <2>1, <2>2 DEF TargetInv
  <2>4. ASSUME NEW v \in Selections(a)'
        PROVE  /\ v \in confirmed => step'[v] = "idle"
               /\ message'[v].waited /\ HasSet(v)' => target'[a] \in ToFrom(a, v)'
    <3>1. CASE v \in Selections(a)
      <4>1. step'[v] = step[v] /\ message'[v] = message[v] /\ (HasSet(v)' <=> HasSet(v))
        BY <1>1, <1>2, <1>3, <1>4, <3>1 DEF HasSet
      <4>2. ToFrom(a, v) \subseteq ToFrom(a, v)'
        BY <2>2 DEF ToFrom
      <4>. QED
        BY <1>2, <2>1, <3>1, <4>1, <4>2 DEF TargetInv
    <3>2. CASE v = n
      <4>1. v \notin confirmed
        BY <1>1, <3>2 DEF AuthorsInv
      <4>2. step'[v] \notin {"store", "confirm"}
        <5>1. m.kind \in {"select", "cancel", "reply"}
          BY <1>1, <2>4, <3>2
        <5>. QED
          BY <1>5, <3>2, <5>1 DEF First, FromUser
      <4>. QED
        BY <1>2, <4>1, <4>2 DEF HasSet
    <3>. QED
      BY <1>1, <2>4, <3>1, <3>2
  <2>. QED
    BY <1>2, <2>3, <2>4 DEF TargetInv
<1>7. ASSUME NEW v \in 1..Len(message) PROVE ReachInv(v)'
  <2>1. ReachInv(v) /\ message'[v] = message[v]
    BY <1>1 DEF TextsInv
  <2>0. PICK a : a = message[v].by /\ a = message'[v].by
    BY <2>1
  <2>2. \A w \in Selections(a) : w \in Selections(a)' /\ message'[w] = message[w]
    BY <1>1, <1>4
  <2>3. Patient(v)' => Patient(v)
    BY <2>0, <2>1, <2>2 DEF Patient
  <2>4. LaterChats(v) \subseteq LaterChats(v)'
    BY <2>0, <2>2 DEF LaterChats
  <2>. QED
    BY <1>2, <1>3, <2>1, <2>3, <2>4 DEF ReachInv
<1>8. ReachInv(n)'
  <2>1. arrivals[n] = << >>
    BY <1>1, ChatAssumption DEF ScriptInv, UpdateInv, Updates
  <2>2. m.kind = "text" => step'[n] # "send"
    BY <1>5 DEF First, FromUser
  <2>. QED
    BY <1>1, <1>2, <2>1, <2>2 DEF ReachInv
<1>. QED
  BY <1>1, <1>6, <1>7, <1>8 DEF TextsInv

LEMMA TextsInitial == ChatInit => PeopleInv
<1>1. SUFFICES ASSUME ChatInit PROVE AuthorsInv /\ TextsInv
  BY DEF PeopleInv
<1>2. 1..Len(message) = {} /\ confirmed = {} /\ \A a : Selections(a) = {}
  BY <1>1 DEF ChatInit, Selections
<1>3. \A a \in Admins : meant[a] = NoChat /\ target[a] = NoChat
  BY <1>1 DEF ChatInit
<1>. QED
  BY <1>2, <1>3 DEF AuthorsInv, TextsInv, MeantInv, TargetInv

\* What was written is the same after every handler, repeated or not.
LEMMA AuthorsHandled ==
  ASSUME ScriptInv, AuthorsInv, NEW u \in Updates,
         \/ SetTarget(u) \/ ClearTarget(u) \/ ReadTarget(u)
         \/ Send(u) \/ SendFails(u) \/ SendPhoto(u) \/ SendPhotoFails(u)
         \/ Store(u) \/ StoreFails(u) \/ Confirm(u) \/ ConfirmFails(u) \/ LookUpEvent(u)
  PROVE  AuthorsInv'
<1>1. step[u] # "unwritten" /\ UNCHANGED <<message, meant>>
  BY DEF SetTarget, ClearTarget, ReadTarget, Send, SendFails, SendPhoto, SendPhotoFails,
     Store, StoreFails, Confirm, ConfirmFails, LookUpEvent, peopleVars
<1>2. confirmed' \in {confirmed, confirmed \cup {u}}
  BY DEF SetTarget, ClearTarget, ReadTarget, Send, SendFails, SendPhoto, SendPhotoFails,
     Store, StoreFails, Confirm, ConfirmFails, LookUpEvent
<1>3. u \in 1..Len(message) /\ confirmed \subseteq 1..Len(message)
  BY <1>1, Handled DEF AuthorsInv
<1>4. ASSUME NEW v \in 1..Len(message), message[v].kind # "text" PROVE chat'[v] = chat[v]
  <2>1. CASE ReadTarget(u)
    <3>1. message[u].kind = "text"
      BY <2>1, Handled DEF ReadTarget, Told, StepsOf
    <3>. QED
      BY <1>4, <2>1, <3>1, ChatAssumption DEF ReadTarget, ScriptInv, Updates
  <2>2. CASE ~ ReadTarget(u)
    BY <2>2 DEF SetTarget, ClearTarget, Send, SendFails, SendPhoto, SendPhotoFails,
       Store, StoreFails, Confirm, ConfirmFails, LookUpEvent
  <2>. QED
    BY <2>1, <2>2
<1>. QED
  BY <1>1, <1>2, <1>3, <1>4, AuthorsStay

\* A handler that has set no target and read none: after it as before.
LEMMA QuietHandler ==
  ASSUME ScriptInv, AuthorsInv, TextsInv, NEW u \in Updates,
         \/ LookUpEvent(u) \/ SendPhoto(u) \/ SendPhotoFails(u)
         \/ Store(u) \/ StoreFails(u) \/ Confirm(u) \/ ConfirmFails(u)
  PROVE  TextsInv'
<1>1. /\ step[u] \in {"lookup", "photo", "store", "confirm", "notify"} /\ step[u] # "idle"
      /\ UNCHANGED <<message, meant, target, chat>>
      /\ \/ confirmed' = confirmed
         \/ Confirm(u) /\ confirmed' = confirmed \cup {u}
  <2>1. CASE Confirm(u)
    BY <2>1 DEF Confirm, peopleVars
  <2>2. CASE LookUpEvent(u) \/ SendPhoto(u) \/ SendPhotoFails(u)
    BY <2>2 DEF LookUpEvent, SendPhoto, SendPhotoFails, peopleVars
  <2>3. CASE Store(u) \/ StoreFails(u) \/ ConfirmFails(u)
    BY <2>3 DEF Store, StoreFails, ConfirmFails, peopleVars
  <2>. QED
    BY <2>1, <2>2, <2>3
<1>2. /\ u \in 1..Len(message) /\ message[u].kind \in Kinds
      /\ step[u] \in StepsOf(message[u].kind)
  BY <1>1, Handled DEF Told
<1>3. PICK at \in Steps :
        /\ step' = [step EXCEPT ![u] = at] /\ (message[u].kind = "text" => at # "send")
        /\ step[u] \in {"confirm", "notify"} => at \in {"idle", "lookup"}
  BY <1>1, <1>2 DEF LookUpEvent, SendPhoto, SendPhotoFails, Store, StoreFails, Confirm,
     ConfirmFails, Goes, AfterStore, AfterConfirm, Steps, StepsOf
<1>4. confirmed \subseteq confirmed' /\ confirmed' \subseteq confirmed \cup {u}
  BY <1>1
<1>5. ASSUME NEW a \in Admins, u \in Selections(a)
      PROVE  (u \in confirmed' => at = "idle") /\ (HasSet(u)' => HasSet(u))
  <2>1. message[u].kind \in {"select", "cancel", "reply"}
    BY <1>5, SelectionFacts
  <2>2. step[u] \in {"store", "confirm"}
    BY <1>1, <1>2, <2>1 DEF StepsOf
  <2>3. u \notin confirmed
    BY <1>1, <1>5 DEF TextsInv, TargetInv
  <2>4. Confirm(u) => at = "idle"
    <3>1. SUFFICES ASSUME Confirm(u) PROVE at = "idle"
      OBVIOUS
    <3>2. step'[u] = AfterConfirm(u) /\ step'[u] = at
      BY <1>3, <3>1 DEF Confirm, Goes, ScriptInv
    <3>. QED
      BY <2>1, <3>2 DEF AfterConfirm
  <2>. QED
    BY <1>1, <2>2, <2>3, <2>4 DEF HasSet
<1>6. \A a \in Admins : TargetInv(a)'
  BY <1>1, <1>3, <1>4, <1>5, TargetStays
<1>7. ASSUME NEW v \in 1..Len(message), message[v].kind = "text"
      PROVE  /\ step'[v] = "send" => step[v] = "send" /\ chat'[v] = chat[v]
             /\ arrivals'[v] = arrivals[v]
  <2>1. v \in Updates
    BY ChatAssumption DEF ScriptInv, Updates
  <2>2. step'[v] = "send" => step[v] = "send"
    BY <1>3, <1>7, <2>1 DEF ScriptInv
  <2>3. arrivals'[v] = arrivals[v]
    <3>1. CASE v = u
      <4>1. step[u] # "photo"
        BY <1>2, <1>7, <3>1 DEF StepsOf
      <4>. QED
        BY <3>1, <4>1 DEF LookUpEvent, SendPhoto, SendPhotoFails, Store, StoreFails, Confirm,
           ConfirmFails
    <3>2. CASE v # u
      BY <2>1, <3>2 DEF LookUpEvent, SendPhoto, SendPhotoFails, Store, StoreFails, Confirm,
         ConfirmFails, Arrives, ScriptInv
    <3>. QED
      BY <3>1, <3>2
  <2>. QED
    BY <1>1, <2>2, <2>3
<1>8. \A v \in 1..Len(message) : ReachInv(v)'
  BY <1>1, <1>7, ReachStays
<1>. QED
  BY <1>1, <1>6, <1>8 DEF TextsInv

LEMMA SendHandler ==
  ASSUME ScriptInv, AuthorsInv, TextsInv, NEW u \in Updates, Send(u) \/ SendFails(u)
  PROVE  TextsInv'
<1>1. step[u] = "send" /\ UNCHANGED <<message, meant, target, chat, confirmed>>
  BY DEF Send, SendFails, peopleVars
<1>2. PICK at \in Steps : /\ step' = [step EXCEPT ![u] = at]
                          /\ message[u].kind = "reply" => at \in {"setAfter", "idle"}
  BY DEF Send, SendFails, Goes, AfterSend, Steps
<1>3. u \in 1..Len(message) /\ step[u] \in StepsOf(message[u].kind)
  BY <1>1, Handled DEF Told
<1>4. ASSUME NEW a \in Admins, u \in Selections(a)
      PROVE  (u \in confirmed => at = "idle") /\ (HasSet(u)' => HasSet(u))
  <2>1. message[u].kind \in {"select", "cancel", "reply"}
    BY <1>4, SelectionFacts
  <2>2. message[u].kind = "reply"
    BY <1>1, <1>3, <2>1 DEF StepsOf
  <2>3. u \notin confirmed
    BY <1>1, <1>4 DEF TextsInv, TargetInv
  <2>4. step'[u] \notin {"store", "confirm"}
    BY <1>2, <2>2 DEF ScriptInv
  <2>. QED
    BY <1>1, <2>3, <2>4 DEF HasSet
<1>5. \A a \in Admins : TargetInv(a)'
  BY <1>1, <1>2, <1>4, TargetStays
<1>. QED
  BY <1>1, <1>5, ReachSends DEF TextsInv

LEMMA TargetHandler ==
  ASSUME ScriptInv, AuthorsInv, TextsInv, NEW u \in Updates, SetTarget(u) \/ ClearTarget(u)
  PROVE  TextsInv'
<1>1. /\ step[u] \in {"set", "setAfter", "clear"} /\ UNCHANGED <<message, meant, chat, confirmed, arrivals>>
      /\ \E at \in Steps : at # "send" /\ step' = [step EXCEPT ![u] = at]
  BY DEF SetTarget, ClearTarget, peopleVars, Goes, Steps
<1>2. \A v \in 1..Len(message) : step'[v] = "send" => step[v] = "send"
  BY <1>1, ChatAssumption DEF ScriptInv, Updates
<1>3. \A v \in 1..Len(message) : ReachInv(v)'
  BY <1>1, <1>2, ReachStays
<1>. QED
  BY <1>1, <1>3, TargetIsSet DEF TextsInv

LEMMA ReadHandler ==
  ASSUME ScriptInv, AuthorsInv, TextsInv, NEW u \in Updates, ReadTarget(u)
  PROVE  TextsInv'
<1>1. /\ step[u] = "read" /\ UNCHANGED <<message, meant, target, confirmed>>
      /\ chat' = [chat EXCEPT ![u] = target[message[u].by]]
  BY DEF ReadTarget, peopleVars
<1>2. PICK at \in Steps : at \in {"idle", "send"} /\ step' = [step EXCEPT ![u] = at]
  BY DEF ReadTarget, Goes, Steps
<1>3. message[u].kind = "text"
  BY <1>1, Handled DEF Told, StepsOf
<1>4. \A a \in Admins : u \notin Selections(a)
  BY <1>3 DEF Selections
<1>5. \A a \in Admins : TargetInv(a)'
  BY <1>1, <1>2, <1>4, TargetStays
<1>. QED
  BY <1>1, <1>5, ReachReads DEF TextsInv

\* Telegram delivers again: of the texts nothing is promised any more.
LEMMA AuthorsAgain ==
  ASSUME ScriptInv, AuthorsInv, ChatCrash \/ \E u \in Updates : AnswerLost(u)
  PROVE  AuthorsInv' /\ repeated'
<1>1. UNCHANGED <<message, meant, chat, confirmed>> /\ repeated'
  BY DEF ChatCrash, AnswerLost, peopleVars
<1>2. confirmed' \subseteq 1..Len(message)
  BY <1>1 DEF AuthorsInv
<1>. QED
  BY <1>1, <1>2, AuthorsStay

LEMMA TextsStep == ChatInv /\ PeopleInv /\ [ChatNext]_chatVars => PeopleInv'
<1>1. SUFFICES ASSUME ScriptInv, meant \in [Admins -> Chats], AuthorsInv,
                      repeated \/ TextsInv, [ChatNext]_chatVars
               PROVE  AuthorsInv' /\ (repeated' \/ TextsInv')
  BY DEF ChatInv, PeopleInv
<1>2. CASE People
  <2>1. PICK m \in Messages : Write(m) /\ Wrote(m)
    BY <1>1, <1>2, PeopleWrite
  <2>2. AuthorsInv'
    BY <1>1, <2>1, WriteAuthors
  <2>3. repeated \/ TextsInv'
    BY <1>1, <2>1, WriteTexts
  <2>. QED
    BY <2>1, <2>2, <2>3 DEF Write
<1>3. ASSUME NEW u \in Updates,
             \/ SetTarget(u) \/ ClearTarget(u) \/ ReadTarget(u)
             \/ Send(u) \/ SendFails(u) \/ SendPhoto(u) \/ SendPhotoFails(u)
             \/ Store(u) \/ StoreFails(u) \/ Confirm(u) \/ ConfirmFails(u) \/ LookUpEvent(u)
      PROVE  AuthorsInv' /\ (repeated' \/ TextsInv')
  <2>1. AuthorsInv'
    BY <1>1, <1>3, AuthorsHandled
  <2>2. TextsInv => TextsInv'
    BY <1>1, <1>3, QuietHandler, SendHandler, TargetHandler, ReadHandler
  <2>3. UNCHANGED repeated
    BY <1>3 DEF SetTarget, ClearTarget, ReadTarget, Send, SendFails, SendPhoto,
       SendPhotoFails, Store, StoreFails, Confirm, ConfirmFails, LookUpEvent
  <2>. QED
    BY <1>1, <2>1, <2>2, <2>3
<1>4. CASE ChatCrash \/ \E u \in Updates : AnswerLost(u)
  BY <1>1, <1>4, AuthorsAgain
<1>5. CASE UNCHANGED chatVars
  <2>1. AuthorsInv'
    BY <1>1, <1>5, AuthorsStay DEF chatVars, peopleVars, AuthorsInv
  <2>2. \A a \in Admins : TextsInv => TargetInv(a)'
    BY <1>5, SelectionsStay DEF chatVars, peopleVars, TextsInv, TargetInv, HasSet
  <2>3. TextsInv => \A u \in 1..Len(message) : ReachInv(u)'
    BY <1>5, ReachStays DEF chatVars, peopleVars
  <2>4. TextsInv => TextsInv'
    BY <1>5, <2>2, <2>3 DEF chatVars, peopleVars, TextsInv
  <2>. QED
    BY <1>1, <1>5, <2>1, <2>4 DEF chatVars
<1>. QED
  BY <1>1, <1>2, <1>3, <1>4, <1>5 DEF ChatNext, Handle

\* What a patient administrator writes reaches nobody but the one he selected
\* last before it, or has selected since, as long as Telegram has delivered
\* nothing twice: in every order of the handlers, for any number of
\* administrators, users, messages and faults.
THEOREM TextsReachMeantTheorem == ChatSpec => []TextsReachMeant
<1>1. PeopleInv => TextsReachMeant
  BY DEF PeopleInv, TextsInv, ReachInv, TextsReachMeant
<1>. QED
  BY <1>1, ScriptInitial, ScriptStep, TextsInitial, TextsStep, PTL DEF ChatSpec

-----------------------------------------------------------------------------
(***************************************************************************)
(* The types of the seven components, and the run that holds them side by  *)
(* side: each behaviour of it is one of every component.                   *)
(***************************************************************************)
\* Whoever has a chat to send to has a real one, also when he begins again.
ChatKnown(u) ==
  message[u].kind \notin {"cancel", "text"} \/ step[u] \in {"send", "photo"} =>
    chat[u] \in Users

ChatRest ==
  /\ \A u \in 1..Len(message) : ChatKnown(u)
  /\ \A u \in Updates : arrivals[u] \in Seq(Users)
  /\ confirmed \subseteq Updates
  /\ repeated \in BOOLEAN
  /\ chatFaults \in 0..MaxChatFaults

\* The handler of one message moves on, and may add to what has arrived.
LEMMA ChatRestMoves ==
  ASSUME ScriptInv, ChatRest, NEW u \in Updates, step[u] # "unwritten",
         UNCHANGED message, NEW at, step' = [step EXCEPT ![u] = at],
         \A v \in Updates : v # u => chat'[v] = chat[v],
         ChatKnown(u)',
         \/ UNCHANGED arrivals
         \/ arrivals' = [arrivals EXCEPT ![u] = Append(@, chat[u])] /\ chat[u] \in Users,
         confirmed' \subseteq Updates, repeated' \in BOOLEAN,
         chatFaults' = chatFaults \/ (ChatFault /\ MaxChatFaults \in Nat)
  PROVE  ChatRest'
<1>1. ASSUME NEW v \in 1..Len(message) PROVE ChatKnown(v)'
  <2>1. CASE v # u
    <3>1. v \in Updates
      BY ChatAssumption DEF ScriptInv, Updates
    <3>2. step'[v] = step[v] /\ chat'[v] = chat[v]
      BY <2>1, <3>1 DEF ScriptInv
    <3>. QED
      BY <3>2 DEF ChatRest, ChatKnown
  <2>. QED
    BY <2>1
<1>2. ASSUME NEW v \in Updates PROVE arrivals'[v] \in Seq(Users)
  <2>1. arrivals[v] \in Seq(Users)
    BY DEF ChatRest
  <2>2. arrivals'[v] = arrivals[v] \/ (arrivals'[v] = Append(arrivals[v], chat[u]) /\ chat[u] \in Users)
    BY DEF ScriptInv
  <2>. QED
    BY <2>1, <2>2
<1>3. chatFaults' \in 0..MaxChatFaults
  BY DEF ChatRest, ChatFault
<1>. QED
  BY <1>1, <1>2, <1>3 DEF ChatRest

LEMMA ChatRestHandled ==
  ASSUME ScriptInv, ChatRest, NEW u \in Updates,
         \/ Handle(u)
         \/ SendFails(u) \/ SendPhotoFails(u) \/ StoreFails(u) \/ ConfirmFails(u)
         \/ AnswerLost(u)
  PROVE  ChatRest'
<1>. DEFINE kind == message[u].kind
<1>0. step[u] # "unwritten"
  BY DEF Handle, SetTarget, ClearTarget, ReadTarget, LookUpEvent, SendPhoto, Send, Store,
     Confirm, SendFails, SendPhotoFails, StoreFails, ConfirmFails, AnswerLost
<1>1. /\ kind \in Kinds /\ u \in 1..Len(message) /\ chat[u] \in Chats
      /\ step[u] \in StepsOf(kind) /\ ChatKnown(u)
      /\ kind \notin FromUser => message[u].by \in Admins
  BY <1>0, Handled DEF Told, ChatRest
<1>2. MaxChatFaults \in Nat /\ repeated \in BOOLEAN /\ confirmed \subseteq Updates
  BY ChatAssumption DEF ChatRest
<1>3. ASSUME NEW at, step' = [step EXCEPT ![u] = at], UNCHANGED <<message, chat>>,
             kind \in {"cancel", "text"} /\ at \in {"send", "photo"} =>
               step[u] \in {"send", "photo"}
      PROVE  ChatKnown(u)'
  <2>1. step'[u] = at
    BY <1>3 DEF ScriptInv
  <2>. QED
    BY <1>1, <1>3, <2>1 DEF ChatKnown
<1>4. CASE SetTarget(u) \/ ClearTarget(u)
  <2>1. PICK at : step' = [step EXCEPT ![u] = at] /\ at \notin {"send", "photo"}
    BY <1>4 DEF SetTarget, ClearTarget, Goes
  <2>2. UNCHANGED <<message, chat, arrivals, confirmed, repeated, chatFaults>>
    BY <1>4 DEF SetTarget, ClearTarget, peopleVars
  <2>. QED
    BY <1>0, <1>2, <1>3, <2>1, <2>2, ChatRestMoves
<1>5. CASE ReadTarget(u)
  <2>1. kind = "text" /\ message[u].by \in Admins
    BY <1>1, <1>5 DEF ReadTarget, StepsOf, Kinds, ToChat, FromUser
  <2>2. /\ UNCHANGED <<message, arrivals, confirmed, repeated, chatFaults>>
        /\ chat' = [chat EXCEPT ![u] = target[message[u].by]]
        /\ step' = [step EXCEPT ![u] = IF target[message[u].by] = NoChat THEN "idle" ELSE "send"]
    BY <1>5 DEF ReadTarget, Goes, peopleVars
  <2>3. target[message[u].by] \in Chats
    BY <2>1 DEF ScriptInv
  <2>4. ChatKnown(u)'
    BY <2>1, <2>2, <2>3 DEF ChatKnown, ScriptInv, Chats
  <2>5. \A v \in Updates : v # u => chat'[v] = chat[v]
    BY <2>2 DEF ScriptInv
  <2>. QED
    BY <1>0, <1>2, <2>2, <2>4, <2>5, ChatRestMoves
<1>6. CASE LookUpEvent(u)
  <2>1. kind = "start"
    BY <1>1, <1>6 DEF LookUpEvent, StepsOf, Kinds, ToChat, FromUser
  <2>2. PICK at : step' = [step EXCEPT ![u] = at]
    BY <1>6 DEF LookUpEvent, Goes
  <2>3. UNCHANGED <<message, chat, arrivals, confirmed, repeated, chatFaults>>
    BY <1>6 DEF LookUpEvent, peopleVars
  <2>. QED
    BY <1>0, <1>2, <1>3, <2>1, <2>2, <2>3, ChatRestMoves
<1>7. CASE Send(u) \/ SendPhoto(u) \/ SendFails(u) \/ SendPhotoFails(u)
  <2>1. PICK at : step' = [step EXCEPT ![u] = at]
    BY <1>7 DEF Send, SendPhoto, SendFails, SendPhotoFails, Goes
  <2>2. chat[u] \in Users /\ step[u] \in {"send", "photo"}
    BY <1>1, <1>7 DEF Send, SendPhoto, SendFails, SendPhotoFails, ChatKnown
  <2>3. /\ UNCHANGED <<message, chat, confirmed, repeated>>
        /\ UNCHANGED arrivals \/ arrivals' = [arrivals EXCEPT ![u] = Append(@, chat[u])]
        /\ chatFaults' = chatFaults \/ ChatFault
    BY <1>7 DEF Send, SendPhoto, SendFails, SendPhotoFails, Arrives, peopleVars
  <2>. QED
    BY <1>0, <1>2, <1>3, <2>1, <2>2, <2>3, ChatRestMoves
<1>8. CASE Store(u) \/ StoreFails(u)
  <2>1. step' = [step EXCEPT ![u] = AfterStore(u)] /\ AfterStore(u) \notin {"send", "photo"}
    BY <1>8 DEF Store, StoreFails, Goes, AfterStore
  <2>2. /\ UNCHANGED <<message, chat, arrivals, confirmed, repeated>>
        /\ chatFaults' = chatFaults \/ ChatFault
    BY <1>8 DEF Store, StoreFails, peopleVars
  <2>. QED
    BY <1>0, <1>2, <1>3, <2>1, <2>2, ChatRestMoves
<1>9. CASE Confirm(u) \/ ConfirmFails(u)
  <2>1. step' = [step EXCEPT ![u] = AfterConfirm(u)] /\ AfterConfirm(u) \notin {"send", "photo"}
    BY <1>9 DEF Confirm, ConfirmFails, Goes, AfterConfirm
  <2>2. /\ UNCHANGED <<message, chat, arrivals, repeated>>
        /\ confirmed' = confirmed \/ confirmed' = confirmed \cup {u}
        /\ chatFaults' = chatFaults \/ ChatFault
    BY <1>9 DEF Confirm, ConfirmFails, peopleVars
  <2>. QED
    BY <1>0, <1>2, <1>3, <2>1, <2>2, ChatRestMoves
<1>10. CASE AnswerLost(u)
  <2>1. step' = [step EXCEPT ![u] = Again(u)]
    BY <1>10 DEF AnswerLost, Goes
  <2>2. kind \in {"cancel", "text"} => Again(u) \notin {"send", "photo"}
    BY DEF Again, First, FromUser
  <2>3. UNCHANGED <<message, chat, arrivals, confirmed>> /\ ChatFault /\ repeated' = TRUE
    BY <1>10 DEF AnswerLost, peopleVars
  <2>. QED
    BY <1>0, <1>2, <1>3, <2>1, <2>2, <2>3, ChatRestMoves
<1>. QED
  BY <1>4, <1>5, <1>6, <1>7, <1>8, <1>9, <1>10 DEF Handle

LEMMA ChatRestWrites ==
  ASSUME ScriptInv, ChatRest, NEW m \in Messages, Write(m),
         m.kind \notin {"cancel", "text"} => m.to \in Users
  PROVE  ChatRest'
<1>0. PICK u : u = Len(message) + 1
  OBVIOUS
<1>1. u \in Updates /\ Len(message) \in Nat
  BY <1>0, ChatAssumption DEF Write, ScriptInv, Updates
<1>2. /\ message' = Append(message, m) /\ step' = [step EXCEPT ![u] = First(m.kind)]
      /\ chat' = [chat EXCEPT ![u] = m.to]
      /\ UNCHANGED <<arrivals, confirmed, repeated, chatFaults>>
  BY <1>0 DEF Write
<1>3. /\ 1..Len(message') = 1..Len(message) \cup {u} /\ message'[u] = m
      /\ \A v \in 1..Len(message) : message'[v] = message[v] /\ v # u /\ v \in Updates
  <2>1. Len(message') = u /\ message'[u] = m /\ \A v \in 1..Len(message) : message'[v] = message[v]
    BY <1>0, <1>1, <1>2 DEF ScriptInv
  <2>2. LastUpdate \in Nat /\ Len(message) <= LastUpdate
    BY ChatAssumption DEF ScriptInv
  <2>. QED
    BY <1>0, <1>1, <2>1, <2>2 DEF Updates
<1>4. ChatKnown(u)'
  <2>1. step'[u] = First(m.kind) /\ chat'[u] = m.to
    BY <1>1, <1>2 DEF ScriptInv
  <2>2. m.kind \in {"cancel", "text"} => First(m.kind) \notin {"send", "photo"}
    BY DEF First, FromUser
  <2>. QED
    BY <1>3, <2>1, <2>2 DEF ChatKnown
<1>5. ASSUME NEW v \in 1..Len(message) PROVE ChatKnown(v)'
  <2>1. step'[v] = step[v] /\ chat'[v] = chat[v] /\ message'[v] = message[v]
    BY <1>1, <1>2, <1>3 DEF ScriptInv
  <2>. QED
    BY <2>1 DEF ChatRest, ChatKnown
<1>. QED
  BY <1>2, <1>3, <1>4, <1>5 DEF ChatRest

LEMMA ChatRestCrash ==
  ASSUME ScriptInv, ChatRest, ChatCrash
  PROVE  ChatRest'
<1>1. /\ UNCHANGED <<message, chat, arrivals, confirmed>> /\ ChatFault /\ repeated' = TRUE
      /\ step' = [u \in Updates |->
           IF step[u] \in {"unwritten", "idle"} THEN step[u] ELSE Again(u)]
  BY DEF ChatCrash, peopleVars
<1>2. ASSUME NEW u \in 1..Len(message) PROVE ChatKnown(u)'
  <2>1. u \in Updates /\ ChatKnown(u)
    BY ChatAssumption DEF ScriptInv, Updates, ChatRest
  <2>2. message[u].kind \in {"cancel", "text"} => Again(u) \notin {"send", "photo"}
    BY DEF Again, First, FromUser
  <2>3. step'[u] = step[u] \/ step'[u] = Again(u)
    BY <1>1, <2>1
  <2>. QED
    BY <1>1, <2>1, <2>2, <2>3 DEF ChatKnown
<1>3. chatFaults' \in 0..MaxChatFaults
  BY <1>1, ChatAssumption DEF ChatFault, ChatRest
<1>. QED
  BY <1>1, <1>2, <1>3 DEF ChatRest

\* The chat is well typed: above all nothing is ever sent to no chat, through
\* repeated updates, lost answers and crashes between the statements.
THEOREM ChatTypeCorrect == ChatSpec => []ChatTypeOK
<1>1. ChatInit => ChatRest
  <2>1. SUFFICES ASSUME ChatInit PROVE ChatRest
    OBVIOUS
  <2>2. /\ message = << >> /\ Len(message) = 0 /\ arrivals = [u \in Updates |-> << >>]
        /\ confirmed = {} /\ repeated = FALSE /\ chatFaults = 0 /\ MaxChatFaults \in Nat
    BY <2>1, ChatAssumption DEF ChatInit
  <2>3. 1..Len(message) = {}
    BY <2>2
  <2>4. ASSUME NEW u \in Updates PROVE arrivals[u] \in Seq(Users)
    <3>1. arrivals[u] = << >>
      BY <2>2, Zenon
    <3>. QED
      BY <3>1
  <2>5. confirmed \subseteq Updates /\ chatFaults \in 0..MaxChatFaults
    BY <2>2
  <2>6. repeated \in BOOLEAN
    BY <2>2, Zenon
  <2>. QED
    BY <2>3, <2>4, <2>5, <2>6 DEF ChatRest
<1>2. ChatInv /\ ChatRest /\ [ChatNext]_chatVars => ChatRest'
  <2>1. SUFFICES ASSUME ChatInv, ChatRest, [ChatNext]_chatVars PROVE ChatRest'
    OBVIOUS
  <2>2. ScriptInv /\ meant \in [Admins -> Chats]
    BY <2>1 DEF ChatInv
  <2>3. CASE People
    BY <2>1, <2>2, <2>3, PeopleWrite, ChatRestWrites DEF Wrote
  <2>4. CASE ChatCrash
    BY <2>1, <2>2, <2>4, ChatRestCrash
  <2>5. CASE UNCHANGED chatVars
    BY <2>1, <2>5 DEF chatVars, peopleVars, ChatRest, ChatKnown
  <2>. QED
    BY <2>1, <2>2, <2>3, <2>4, <2>5, ChatRestHandled DEF ChatNext
<1>3. ChatInv /\ ChatRest => ChatTypeOK
  BY DEF ChatInv, ScriptInv, ChatRest, ChatTypeOK, Chats
<1>. QED
  BY <1>1, <1>2, <1>3, ScriptInitial, ScriptStep, PTL DEF ChatSpec

\* The logins are well typed: only people with a row are blocked, and whoever is
\* past the middleware is a person.
THEOREM LoginTypeCorrect == LoginSpec => []LoginTypeOK
<1>1. LoginInv => LoginTypeOK
  <2>1. SUFFICES ASSUME LoginInv, NEW r \in Logons
        PROVE  \/ logon[r] = Idle
               \/ logon[r].at \in LogonSteps /\ logon[r].person \in Persons
               \/ logon[r].at \in {"guard", "inside"} /\ logon[r].owner \in Persons
    BY DEF LoginInv, LoginTypeOK
  <2>2. logon[r] = Idle \/ logon[r] \in PendingLogons \/ logon[r] \in Admitted
    BY <2>1 DEF LoginInv, LogonInv
  <2>. QED
    BY <2>2 DEF PendingLogons, Admitted
<1>. QED
  BY <1>1, LoginInitial, LoginStep, PTL DEF LoginSpec

WalletRest ==
  /\ codes \subseteq Members
  /\ party \in [Parties -> {"visible", "hidden", "deleted"}]
  /\ topUps \in [total : [Members -> Nat], count : 0..MaxTopUps]

\* The wallet is well typed: no balance is negative, no code is without its
\* owner, and no more is added than the bound allows.
THEOREM WalletTypeCorrect == WalletSpec => []WalletTypeOK
<1>1. WalletInit => WalletRest
  BY WalletAssumption DEF WalletInit, WalletRest
<1>2. WalletInv /\ WalletRest /\ [WalletNext]_walletVars => WalletRest'
  <2>1. SUFFICES ASSUME WalletInv, WalletRest, [WalletNext]_walletVars PROVE WalletRest'
    OBVIOUS
  <2>2. ASSUME UNCHANGED <<codes, party, topUps>> PROVE WalletRest'
    BY <2>1, <2>2 DEF WalletRest
  <2>3. ASSUME NEW r \in Transfers,
               \/ \E claim \in Claims : StartClaim(r, claim)
               \/ CheckParty(r) \/ CheckCode(r) \/ InsertClaim(r)
               \/ AddToInviter(r) \/ AddToInvitee(r) \/ CommitClaim(r)
               \/ \E p \in Members :
                    \/ \E amount \in Amounts : TopupToken(r, p, amount)
                    \/ StartTouch(r, p) \/ ReferralCode(r, p)
               \/ TouchUser(r) \/ ReadCode(r) \/ TransferFails(r)
        PROVE  UNCHANGED <<codes, party, topUps>>
    BY <2>3 DEF StartClaim, CheckParty, CheckCode, InsertClaim, AddToInviter, AddToInvitee,
       CommitClaim, TopupToken, StartTouch, ReferralCode, TouchUser, ReadCode, TransferFails,
       Starts, tables, histories
  <2>4. ASSUME NEW r \in Transfers, AddUserTokens(r) PROVE WalletRest'
    <3>1. PICK p, amount : p = transfer[r].who /\ amount = transfer[r].amount
      OBVIOUS
    <3>2. transfer[r] \in Requests /\ transfer[r].at = "topUp"
      BY <2>1, <2>4 DEF WalletInv, AddUserTokens
    <3>3. p \in Members /\ amount \in Nat
      <4>1. transfer[r] \in [at : {"topUp"}, who : Members, amount : Amounts]
        BY <3>2 DEF Requests, AtRest, ClaimSteps
      <4>. QED
        BY <3>1, <4>1, WalletAssumption
    <3>4. /\ topUps' = [total |-> [topUps.total EXCEPT ![p] = @ + amount],
                        count |-> topUps.count + 1]
          /\ topUps.count < MaxTopUps /\ UNCHANGED <<codes, party>>
      BY <2>4, <3>1 DEF AddUserTokens
    <3>5. topUps.total \in [Members -> Nat] /\ topUps.count \in 0..MaxTopUps /\ MaxTopUps \in Nat
      BY <2>1, WalletAssumption DEF WalletRest
    <3>6. [topUps.total EXCEPT ![p] = @ + amount] \in [Members -> Nat]
      BY <3>3, <3>5
    <3>7. topUps.count + 1 \in 0..MaxTopUps
      BY <3>4, <3>5
    <3>8. topUps' \in [total : [Members -> Nat], count : 0..MaxTopUps]
      BY <3>4, <3>6, <3>7
    <3>. QED
      BY <2>1, <3>4, <3>8 DEF WalletRest
  <2>5. ASSUME NEW r \in Transfers, InsertCode(r) PROVE WalletRest'
    <3>1. transfer[r] \in Requests /\ transfer[r].at = "insertCode"
      BY <2>1, <2>5 DEF WalletInv, InsertCode
    <3>2. transfer[r].who \in Members
      BY <3>1 DEF Requests, AtRest, ClaimSteps
    <3>3. codes' = codes \/ codes' = codes \cup {transfer[r].who}
      BY <2>5 DEF InsertCode
    <3>4. UNCHANGED <<party, topUps>>
      BY <2>5 DEF InsertCode, histories
    <3>. QED
      BY <2>1, <3>2, <3>3, <3>4 DEF WalletRest
  <2>6. ASSUME NEW e \in Parties, HideParty(e) \/ DeleteParty(e) PROVE WalletRest'
    BY <2>1, <2>6 DEF HideParty, DeleteParty, WalletRest, histories
  <2>7. CASE UNCHANGED walletVars
    BY <2>2, <2>7 DEF walletVars, tables, histories
  <2>. QED
    BY <2>1, <2>2, <2>3, <2>4, <2>5, <2>6, <2>7 DEF WalletNext
<1>3. WalletInv /\ WalletRest => WalletTypeOK
  <2>1. SUFFICES ASSUME WalletInv, WalletRest, NEW r \in Transfers
        PROVE  \/ transfer[r] = AtRest
               \/ /\ transfer[r].at \in
                       {"party", "code", "insert", "inviter", "invitee", "commit"}
                  /\ transfer[r].claim \in Claims
               \/ /\ transfer[r].at \in {"topUp", "touch", "readCode", "insertCode", "rereadCode"}
                  /\ transfer[r].who \in Members
    BY DEF WalletInv, WalletRest, WalletTypeOK
  <2>2. transfer[r] \in Requests
    BY <2>1 DEF WalletInv
  <2>. QED
    BY <2>2 DEF Requests, ClaimSteps
<1>. QED
  BY <1>1, <1>2, <1>3, WalletInitial, WalletStep, PTL DEF WalletSpec

\* The push tokens are well typed: a row stays a place and a flag through all
\* updates of both.
THEOREM PushTypeCorrect == PushSpec => []PushTypeOK
<1>. DEFINE Known == DOMAIN pushToken \subseteq PushKeys
<1>1. PushInit => Known
  BY DEF PushInit
<1>2. PushInv /\ Known /\ [PushNext]_pushVars => Known'
  <2>1. SUFFICES ASSUME PushInv, Known, [PushNext]_pushVars PROVE Known'
    OBVIOUS
  <2>2. ASSUME NEW r \in Registrars, UpsertRow(r) PROVE Known'
    <3>1. registrar[r].key \in PushKeys
      BY <2>1, <2>2 DEF PushInv, RegistrarTypes, UpsertRow
    <3>2. DOMAIN pushToken' = DOMAIN pushToken \cup {registrar[r].key}
      BY <2>2 DEF UpsertRow
    <3>. QED
      BY <2>1, <3>1, <3>2
  <2>3. ASSUME NEW r \in Registrars, RetireOthers(r) PROVE Known'
    <3>1. DOMAIN pushToken' = DOMAIN pushToken
      BY <2>3 DEF RetireOthers
    <3>. QED
      BY <2>1, <3>1
  <2>4. ASSUME NEW r \in Registrars,
               \/ RegistrarFails(r)
               \/ \E key \in PushKeys, place \in Places : UpsertPushToken(r, key, place)
        PROVE  Known'
    BY <2>1, <2>4 DEF RegistrarFails, UpsertPushToken
  <2>5. CASE UNCHANGED pushVars
    BY <2>1, <2>5 DEF pushVars
  <2>. QED
    BY <2>1, <2>2, <2>3, <2>4, <2>5 DEF PushNext
<1>3. PushInv /\ Known => PushTypeOK
  <2>1. SUFFICES ASSUME PushInv, NEW r \in Registrars
        PROVE  \/ registrar[r] = AtEase
               \/ /\ registrar[r].at \in {"upsert", "retire"}
                  /\ registrar[r].key \in PushKeys /\ registrar[r].place \in Places
    BY DEF PushInv, PushTypeOK
  <2>2. registrar[r] \in RegistrarTypes
    BY <2>1 DEF PushInv
  <2>. QED
    BY <2>2 DEF RegistrarTypes, AtEase
<1>. QED
  BY <1>1, <1>2, <1>3, PushInitial, PushStep, PTL DEF PushSpec

-----------------------------------------------------------------------------
(***************************************************************************)
(* A transaction asks for a row once, and for none that it holds already.  *)
(***************************************************************************)
Distinct(list) == \A i, j \in DOMAIN list : i # j => list[i] # list[j]

\* What is still to be locked.
TodoInv(s) ==
  /\ session[s].todo \in Seq(AllRows) /\ Distinct(session[s].todo)
  /\ \A i \in DOMAIN session[s].todo : session[s].todo[i] \notin session[s].held

LEMMA OrderedDistinct ==
  ASSUME NEW X, NEW list \in Seq(X), Ordered(list)
  PROVE  Distinct(list)
<1>1. ASSUME NEW i \in DOMAIN list, NEW j \in DOMAIN list, i # j PROVE list[i] # list[j]
  <2>1. \A m, n \in DOMAIN list : m < n => list[m] # list[n]
    BY RanksAre DEF Ordered, Before
  <2>2. i < j \/ j < i
    BY <1>1
  <2>. QED
    BY <2>1, <2>2
<1>. QED
  BY <1>1 DEF Distinct

LEMMA DistinctConcat ==
  ASSUME NEW X, NEW Y, NEW a \in Seq(X), NEW b \in Seq(Y), Distinct(a), Distinct(b),
         X \cap Y = {}
  PROVE  a \o b \in Seq(X \cup Y) /\ Distinct(a \o b)
<1>1. a \in Seq(X \cup Y) /\ b \in Seq(X \cup Y)
  OBVIOUS
<1>2. a \o b \in Seq(X \cup Y)
  BY <1>1
<1>3. /\ Len(a) \in Nat /\ Len(b) \in Nat /\ Len(a \o b) = Len(a) + Len(b)
      /\ DOMAIN (a \o b) = 1..(Len(a) + Len(b))
      /\ \A i \in 1..(Len(a) + Len(b)) :
           (a \o b)[i] = IF i <= Len(a) THEN a[i] ELSE b[i - Len(a)]
  BY <1>1
<1>4. /\ \A i \in 1..(Len(a) + Len(b)) : i <= Len(a) => i \in DOMAIN a /\ a[i] \in X
      /\ \A i \in 1..(Len(a) + Len(b)) :
           ~ (i <= Len(a)) => i - Len(a) \in DOMAIN b /\ b[i - Len(a)] \in Y
  <2>1. \A i \in 1..(Len(a) + Len(b)) : i <= Len(a) => i \in 1..Len(a)
    BY <1>3
  <2>2. \A i \in 1..(Len(a) + Len(b)) : ~ (i <= Len(a)) => i - Len(a) \in 1..Len(b)
    BY <1>3
  <2>. QED
    BY <2>1, <2>2
<1>5. ASSUME NEW i \in 1..(Len(a) + Len(b)), NEW j \in 1..(Len(a) + Len(b)), i # j
      PROVE  (a \o b)[i] # (a \o b)[j]
  <2>1. CASE i <= Len(a) /\ j <= Len(a)
    BY <1>3, <1>4, <1>5, <2>1 DEF Distinct
  <2>2. CASE ~ (i <= Len(a)) /\ ~ (j <= Len(a))
    <3>1. i - Len(a) # j - Len(a)
      BY <1>3, <1>5
    <3>. QED
      BY <1>3, <1>4, <2>2, <3>1 DEF Distinct
  <2>3. CASE (i <= Len(a)) # (j <= Len(a))
    BY <1>3, <1>4, <2>3
  <2>. QED
    BY <2>1, <2>2, <2>3
<1>. QED
  BY <1>2, <1>3, <1>5 DEF Distinct

LEMMA SetsListed ==
  ASSUME NEW S, IsFiniteSet(S), NEW f \in SetToSeqs(S)
  PROVE  f \in Seq(S) /\ Distinct(f)
<1>1. Cardinality(S) \in Nat
  BY FS_CardinalityType
<1>2. /\ f \in [1..Cardinality(S) -> S]
      /\ \A i, j \in 1..Cardinality(S) : i # j => f[i] # f[j]
  BY DEF SetToSeqs
<1>. QED
  BY <1>1, <1>2 DEF Distinct

LEMMA SetListed ==
  ASSUME NEW S, IsFiniteSet(S)
  PROVE  SetToSeq(S) \in Seq(S) /\ Distinct(SetToSeq(S))
<1>. DEFINE n == Cardinality(S)
<1>1. n \in Nat /\ ExistsBijection(1..n, S)
  BY FS_CardinalityType, FS_CountingElements
<1>2. PICK f \in [1..n -> S] : IsInjective(f)
  BY <1>1 DEF ExistsBijection, Bijection, Injection, IsInjective
<1>3. SetToSeq(S) \in [1..n -> S] /\ IsInjective(SetToSeq(S))
  BY <1>2 DEF SetToSeq
<1>. QED
  BY <1>1, <1>3 DEF IsInjective, Distinct

LEMMA DeleteEventDistinct ==
  ASSUME NEW list \in DeleteEventRows
  PROVE  list \in Seq(AllRows) /\ Distinct(list)
<1>. DEFINE E == {EventRow}
            P == {PromoRow}
            first == <<EventRow>>
            fourth == <<PromoRow>>
            last == SetToSeq(Orders)
<1>0. IsFiniteSet(Orders) /\ IsFiniteSet(TicketProducts) /\ IsFiniteSet(TransferProducts)
  BY RowAssumption
<1>1. /\ E \cap TicketProducts = {} /\ (E \cup TicketProducts) \cap TransferProducts = {}
      /\ (E \cup TicketProducts \cup TransferProducts) \cap P = {}
      /\ (E \cup TicketProducts \cup TransferProducts \cup P) \cap Orders = {}
  <2>1. /\ \A x \in E : Rank(x) = 5
        /\ \A x \in TicketProducts : Rank(x) = 2
        /\ \A x \in TransferProducts : Rank(x) = 3
        /\ \A x \in P : Rank(x) = 4
        /\ \A x \in Orders : Rank(x) = 1
    BY Ranks
  <2>. QED
    BY <2>1
<1>2. first \in Seq(E) /\ Distinct(first) /\ fourth \in Seq(P) /\ Distinct(fourth)
  BY DEF Distinct
<1>3. last \in Seq(Orders) /\ Distinct(last)
  BY <1>0, SetListed
<1>4. list \in {first \o ts \o fs \o fourth \o last
                  : ts \in SetToSeqs(TicketProducts), fs \in SetToSeqs(TransferProducts)}
  BY DEF DeleteEventRows
<1>5. E \cup TicketProducts \cup TransferProducts \cup P \cup Orders \subseteq AllRows
  BY DEF AllRows, Products
<1>. HIDE DEF E, P, first, fourth, last
<1>6. PICK ts \in SetToSeqs(TicketProducts), fs \in SetToSeqs(TransferProducts) :
        list = first \o ts \o fs \o fourth \o last
  BY <1>4
<1>7. /\ ts \in Seq(TicketProducts) /\ Distinct(ts)
      /\ fs \in Seq(TransferProducts) /\ Distinct(fs)
  BY <1>0, SetsListed
<1>8. first \o ts \in Seq(E \cup TicketProducts) /\ Distinct(first \o ts)
  BY <1>1, <1>2, <1>7, DistinctConcat
<1>9. /\ first \o ts \o fs \in Seq(E \cup TicketProducts \cup TransferProducts)
      /\ Distinct(first \o ts \o fs)
  BY <1>1, <1>7, <1>8, DistinctConcat
<1>10. /\ first \o ts \o fs \o fourth \in Seq(E \cup TicketProducts \cup TransferProducts \cup P)
       /\ Distinct(first \o ts \o fs \o fourth)
  BY <1>1, <1>2, <1>9, DistinctConcat
<1>11. /\ list \in Seq(E \cup TicketProducts \cup TransferProducts \cup P \cup Orders)
       /\ Distinct(list)
  BY <1>1, <1>3, <1>6, <1>10, DistinctConcat
<1>. QED
  BY <1>5, <1>11

LEMMA RedeemDistinct ==
  ASSUME NEW o \in Orders, NEW list \in RedeemRows(o)
  PROVE  list \in Seq(AllRows) /\ Distinct(list)
<1>1. o # TicketsRow(o)
  BY Ranks
<1>2. o \in AllRows /\ TicketsRow(o) \in AllRows
  BY DEF AllRows
<1>3. PICK a, b : list = <<a, b>> /\ {a, b} = {o, TicketsRow(o)} /\ a # b
  BY <1>1, Zenon DEF RedeemRows
<1>. QED
  BY <1>2, <1>3 DEF Distinct

LEMMA OpenTodo ==
  ASSUME LockInv, \A q \in Sessions : TodoInv(q), NEW s \in Sessions, BeginShop(s)
  PROVE  \A q \in Sessions : TodoInv(q)'
<1>1. ASSUME NEW kind, NEW list, Open(s, kind, list), list \in Seq(AllRows), Distinct(list)
      PROVE  \A q \in Sessions : TodoInv(q)'
  <2>1. session' = [session EXCEPT ![s] = [kind |-> kind, todo |-> list, held |-> {}]]
    BY <1>1 DEF Open
  <2>2. session'[s].todo = list /\ session'[s].held = {}
    BY <2>1 DEF LockInv
  <2>3. \A q \in Sessions : q # s => session'[q] = session[q]
    BY <2>1 DEF LockInv
  <2>. QED
    BY <1>1, <2>2, <2>3 DEF TodoInv
<1>2. ASSUME NEW kind, NEW list, Open(s, kind, list), list \in Seq(AllRows), Ordered(list)
      PROVE  \A q \in Sessions : TodoInv(q)'
  BY <1>1, <1>2, OrderedDistinct
<1>3. ASSUME NEW list \in CreateRows, Open(s, "create", list)
      PROVE  \A q \in Sessions : TodoInv(q)'
  BY <1>2, <1>3, CreateOrdered
<1>4. ASSUME NEW list \in DeleteEventRows, Open(s, "deleteEvent", list)
      PROVE  \A q \in Sessions : TodoInv(q)'
  BY <1>1, <1>4, DeleteEventDistinct
<1>5. ASSUME NEW o \in Orders, NEW list \in ConfirmRows(o), Open(s, "confirm", list)
      PROVE  \A q \in Sessions : TodoInv(q)'
  BY <1>2, <1>5, ConfirmOrdered
<1>6. ASSUME NEW o \in Orders, NEW list \in CancelRows(o), Open(s, "cancel", list)
      PROVE  \A q \in Sessions : TodoInv(q)'
  <2>1. list \in Seq({o} \cup Products \cup {PromoRow}) /\ Ordered(list)
    BY CancelOrdered
  <2>2. {o} \cup Products \cup {PromoRow} \subseteq AllRows
    BY DEF AllRows
  <2>3. list \in Seq(AllRows)
    BY <2>1, <2>2
  <2>. QED
    BY <1>2, <1>6, <2>1, <2>3
<1>7. ASSUME NEW o \in Orders, NEW list \in DeleteRows(o), Open(s, "delete", list)
      PROVE  \A q \in Sessions : TodoInv(q)'
  BY <1>2, <1>7, DeleteOrdered
<1>8. ASSUME NEW o \in Orders, NEW list \in RedeemRows(o), Open(s, "redeem", list)
      PROVE  \A q \in Sessions : TodoInv(q)'
  BY <1>1, <1>8, RedeemDistinct
<1>. QED
  BY <1>3, <1>4, <1>5, <1>6, <1>7, <1>8 DEF BeginShop

LEMMA LockRowTodo ==
  ASSUME LockInv, \A q \in Sessions : TodoInv(q), NEW s \in Sessions, LockRow(s)
  PROVE  \A q \in Sessions : TodoInv(q)'
<1>0. PICK todo, kept : todo = session[s].todo /\ kept = session[s].held
  OBVIOUS
<1>1. /\ todo # << >> /\ todo \in Seq(AllRows) /\ Distinct(todo)
      /\ \A i \in DOMAIN todo : todo[i] \notin kept
  BY <1>0 DEF LockRow, TodoInv
<1>2. session'[s].todo = Tail(todo) /\ session'[s].held = kept \cup {Head(todo)}
  <2>1. session[s] = [kind |-> session[s].kind, todo |-> todo, held |-> kept]
    BY <1>0 DEF LockInv, SessionInv
  <2>. QED
    BY <1>0, <2>1 DEF LockRow, LockInv
<1>3. \A q \in Sessions : q # s => session'[q] = session[q]
  BY DEF LockRow, LockInv
<1>4. /\ Tail(todo) \in Seq(AllRows) /\ Head(todo) = todo[1] /\ 1 \in DOMAIN todo
      /\ \A i \in DOMAIN Tail(todo) :
           i + 1 \in DOMAIN todo /\ i + 1 # 1 /\ i \in Nat /\ Tail(todo)[i] = todo[i + 1]
  BY <1>1
<1>5. Distinct(Tail(todo))
  <2>1. ASSUME NEW i \in DOMAIN Tail(todo), NEW j \in DOMAIN Tail(todo), i # j
        PROVE  Tail(todo)[i] # Tail(todo)[j]
    <3>1. i + 1 # j + 1
      BY <1>4, <2>1
    <3>. QED
      BY <1>1, <1>4, <3>1 DEF Distinct
  <2>. QED
    BY <2>1 DEF Distinct
<1>6. \A i \in DOMAIN Tail(todo) : Tail(todo)[i] \notin kept \cup {Head(todo)}
  BY <1>1, <1>4 DEF Distinct
<1>7. TodoInv(s)'
  BY <1>2, <1>4, <1>5, <1>6 DEF TodoInv
<1>. QED
  BY <1>3, <1>7 DEF TodoInv

\* The transactions are well typed, and none asks for a row it holds: for any
\* number of orders, products and transactions.
THEOREM LockTypeCorrect == LockSpec => []LockTypeOK
<1>. DEFINE Todo == \A q \in Sessions : TodoInv(q)
<1>1. LockInit => Todo
  <2>1. SUFFICES ASSUME LockInit, NEW q \in Sessions PROVE TodoInv(q)
    OBVIOUS
  <2>2. session[q].todo = << >>
    BY <2>1 DEF LockInit, Resting
  <2>. QED
    BY <2>2 DEF TodoInv, Distinct
<1>2. LockInv /\ Todo /\ [LockNext]_lockVars => Todo'
  <2>1. SUFFICES ASSUME LockInv, Todo, [LockNext]_lockVars PROVE Todo'
    OBVIOUS
  <2>2. ASSUME NEW s \in Sessions, EndTransaction(s) PROVE Todo'
    <3>1. session'[s] = Resting /\ \A q \in Sessions : q # s => session'[q] = session[q]
      BY <2>1, <2>2 DEF EndTransaction, LockInv
    <3>2. session'[s].todo = << >>
      BY <3>1 DEF Resting
    <3>3. TodoInv(s)'
      BY <3>2 DEF TodoInv, Distinct
    <3>. QED
      BY <2>1, <3>1, <3>3 DEF TodoInv
  <2>3. ASSUME NEW s \in Sessions, Commit(s) \/ StatementFails(s) \/ BreakDeadlock(s)
        PROVE  Todo'
    BY <2>2, <2>3 DEF Commit, StatementFails, BreakDeadlock
  <2>4. CASE UNCHANGED lockVars
    BY <2>1, <2>4 DEF lockVars, TodoInv
  <2>. QED
    BY <2>1, <2>3, <2>4, OpenTodo, LockRowTodo DEF LockNext
<1>3. LockInv /\ Todo => LockTypeOK
  <2>1. SUFFICES ASSUME LockInv, Todo, NEW s \in Sessions
        PROVE  /\ session[s].kind \in
                    {"none", "create", "confirm", "cancel", "delete", "redeem", "deleteEvent"}
               /\ ToSet(session[s].todo) \cap session[s].held = {}
    BY DEF LockInv, LockTypeOK
  <2>2. session[s].kind \in
          {"none", "create", "confirm", "cancel", "delete", "redeem", "deleteEvent"}
    BY <2>1 DEF LockInv, SessionInv, OrderKinds
  <2>. QED
    BY <2>1, <2>2 DEF TodoInv, ToSet
<1>. QED
  BY <1>1, <1>2, <1>3, LockInitial, LockStep, PTL DEF LockSpec

-----------------------------------------------------------------------------
(***************************************************************************)
(* The seven side by side.                                                 *)
(***************************************************************************)
\* A behaviour of the run is one of each component: a step of one of them leaves
\* the others alone.
THEOREM DeskIsItsParts ==
  DeskSpec => /\ ChatSpec /\ TokenSpec /\ LimiterSpec /\ LoginSpec
              /\ WalletSpec /\ PushSpec /\ LockSpec
<1>1. DeskInit => /\ ChatInit /\ TokenInit /\ LimiterInit /\ LoginInit
                  /\ WalletInit /\ PushInit /\ LockInit
  BY DEF DeskInit
<1>2. [DeskNext]_deskVars => [ChatNext]_chatVars
  BY DEF DeskNext, deskVars
<1>3. [DeskNext]_deskVars => [TokenNext]_tokenVars
  BY DEF DeskNext, deskVars
<1>4. [DeskNext]_deskVars => [LimiterNext]_limiterVars
  BY DEF DeskNext, deskVars
<1>5. [DeskNext]_deskVars => [LoginNext]_loginVars
  BY DEF DeskNext, deskVars
<1>6. [DeskNext]_deskVars => [WalletNext]_walletVars
  BY DEF DeskNext, deskVars
<1>7. [DeskNext]_deskVars => [PushNext]_pushVars
  BY DEF DeskNext, deskVars
<1>8. [DeskNext]_deskVars => [LockNext]_lockVars
  BY DEF DeskNext, deskVars
<1>. QED
  BY <1>1, <1>2, <1>3, <1>4, <1>5, <1>6, <1>7, <1>8, PTL
     DEF DeskSpec, ChatSpec, TokenSpec, LimiterSpec, LoginSpec, WalletSpec, PushSpec, LockSpec

\* All of them are well typed in every behaviour of the run.
THEOREM DeskTypeCorrect == DeskSpec => []DeskTypeOK
<1>1. TokenSpec => []TokenTypeOK
  <2>1. TokenInv => TokenTypeOK
    BY DEF TokenInv
  <2>. QED
    BY <2>1, TokenInitial, TokenStep, PTL DEF TokenSpec
<1>2. LimiterSpec => []LimiterTypeOK
  <2>1. LimiterInv => LimiterTypeOK
    BY DEF LimiterInv
  <2>. QED
    BY <2>1, LimiterInitial, LimiterStep, PTL DEF LimiterSpec
<1>3. /\ ChatTypeOK /\ TokenTypeOK /\ LimiterTypeOK /\ LoginTypeOK
      /\ WalletTypeOK /\ PushTypeOK /\ LockTypeOK
      => DeskTypeOK
  BY DEF DeskTypeOK
<1>. QED
  BY <1>1, <1>2, <1>3, DeskIsItsParts, ChatTypeCorrect, LoginTypeCorrect, WalletTypeCorrect,
     PushTypeCorrect, LockTypeCorrect, PTL
=============================================================================
