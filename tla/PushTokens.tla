----------------------------- MODULE PushTokens -----------------------------
(***************************************************************************)
(* The push tokens of the devices: UpsertPushToken in handlers/me.go and   *)
(* UpsertUserPushToken in repository/push_tokens.go, which writes the      *)
(* token and then, in a statement of its own, retires the others.          *)
(***************************************************************************)
EXTENDS Naturals, FiniteSets, FiniteSetsExt

CONSTANTS
  Owners,      \* the users
  Devices,     \* device ids, of one platform
  NoDevice,    \* the empty device id
  PushKeys,    \* the tokens
  Registrars   \* requests that may be under way at the same time

ASSUME PushAssumption == NoDevice \notin Devices

VARIABLES
  pushToken,   \* user_push_tokens, by the unique token
  registrar,   \* the requests
  retireLost   \* history: a request has ended between its statements

pushVars == <<pushToken, registrar, retireLost>>

Places == [owner : Owners, device : Devices \cup {NoDevice}]
AtEase == [at |-> "ease"]

PushTypeOK ==
  /\ DOMAIN pushToken \subseteq PushKeys
  /\ \A k \in DOMAIN pushToken :
       pushToken[k].place \in Places /\ pushToken[k].isActive \in BOOLEAN
  /\ \A r \in Registrars :
       \/ registrar[r] = AtEase
       \/ /\ registrar[r].at \in {"upsert", "retire"}
          /\ registrar[r].key \in PushKeys /\ registrar[r].place \in Places
  /\ retireLost \in BOOLEAN

PushInit ==
  /\ pushToken = << >>
  /\ registrar = [r \in Registrars |-> AtEase]
  /\ retireLost = FALSE

RegistrarGoes(r, next) == registrar' = [registrar EXCEPT ![r] = next]

\* A token of 16 to 4096 bytes and a platform that is known.
UpsertPushToken(r, key, place) ==
  /\ registrar[r] = AtEase
  /\ RegistrarGoes(r, [at |-> "upsert", key |-> key, place |-> place])
  /\ UNCHANGED <<pushToken, retireLost>>

\* INSERT ... ON CONFLICT (token) DO UPDATE: the token moves to the new place.
UpsertRow(r) ==
  /\ registrar[r].at = "upsert"
  /\ LET row == [place |-> registrar[r].place, isActive |-> TRUE]
     IN  pushToken' = [k \in DOMAIN pushToken \cup {registrar[r].key} |->
                         IF k = registrar[r].key THEN row ELSE pushToken[k]]
  /\ RegistrarGoes(r, IF registrar[r].place.device = NoDevice THEN AtEase
                      ELSE [registrar[r] EXCEPT !.at = "retire"])
  /\ UNCHANGED retireLost

\* Mutant: only the tokens of other owners.
RetireStrangers(r) ==
  /\ registrar[r].at = "retire"
  /\ pushToken' = [k \in DOMAIN pushToken |->
       [pushToken[k] EXCEPT !.isActive =
          @ /\ ~ (/\ pushToken[k].place.owner # registrar[r].place.owner
                  /\ pushToken[k].place.device = registrar[r].place.device)]]
  /\ RegistrarGoes(r, AtEase)
  /\ UNCHANGED retireLost

\* The UPDATE of the other tokens of this user and device.
RetireOthers(r) ==
  /\ registrar[r].at = "retire"
  /\ pushToken' = [k \in DOMAIN pushToken |->
       [pushToken[k] EXCEPT !.isActive =
          @ /\ (pushToken[k].place = registrar[r].place => k = registrar[r].key)]]
  /\ RegistrarGoes(r, AtEase)
  /\ UNCHANGED retireLost

\* A statement fails, or the API stops.
RegistrarFails(r) ==
  /\ registrar[r] # AtEase
  /\ retireLost' = (retireLost \/ registrar[r].at = "retire")
  /\ RegistrarGoes(r, AtEase)
  /\ UNCHANGED pushToken

PushNext ==
  \E r \in Registrars :
    \/ \E key \in PushKeys, place \in Places : UpsertPushToken(r, key, place)
    \/ UpsertRow(r) \/ RetireOthers(r) \/ RegistrarFails(r)

PushSpec == PushInit /\ [][PushNext]_pushVars

(***************************************************************************)
(* Properties.                                                             *)
(***************************************************************************)
ActiveAt(place) ==
  {k \in DOMAIN pushToken : pushToken[k].place = place /\ pushToken[k].isActive}

Retiring(place) ==
  {r \in Registrars : registrar[r].at = "retire" /\ registrar[r].place = place}

\* A user has at most one active token on a device, and one more at most for
\* each request between its two statements, however requests for one device
\* interleave and tokens move between users: unless a request was lost there.
OneActivePerDevice ==
  ~ retireLost =>
    \A place \in [owner : Owners, device : Devices] :
      Cardinality(ActiveAt(place)) <= 1 + Cardinality(Retiring(place))
=============================================================================
