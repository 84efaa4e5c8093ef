------------------------------- MODULE Logins -------------------------------
(***************************************************************************)
(* The ways into the system: AuthTelegram, StandaloneAuthExchange, AuthVK  *)
(* in both flows, AuthVKMiniApp and AuthAdmin, down to the row of users    *)
(* and the access token, and the middleware that takes the token.          *)
(*                                                                         *)
(* Signatures are perfect: what Telegram, VK or the API itself has signed  *)
(* is in the set held, and nothing else is accepted.                       *)
(***************************************************************************)
EXTENDS Naturals, FiniteSets

CONSTANTS
  TelegramUsers,
  VKUsers,         \* their telegram_id is negative, so no row is of both
  Administrators,  \* AdminTGIDs
  Logons,          \* requests that may be under way at the same time
  MaxAge,          \* 24 hours in the code
  StateTTL,        \* vkOAuthStateTTL, 10 minutes
  AccessTTL,       \* accessTokenTTL, 15 minutes
  EndOfTime,       \* bound on the clock
  MaxHeld,         \* bound on the credentials held when one is signed
  MaxTokens        \* bound on access tokens at the same time

Persons == TelegramUsers \cup VKUsers

ASSUME LoginAssumption ==
  /\ MaxAge \in Nat /\ StateTTL \in Nat /\ AccessTTL \in Nat /\ EndOfTime \in Nat
  /\ MaxHeld \in Nat /\ MaxTokens \in Nat
  /\ TelegramUsers \cap VKUsers = {}
  /\ Administrators \subseteq TelegramUsers

VARIABLES
  today,     \* the clock
  held,      \* the credentials that people hold
  users,     \* the people with a row in users
  blocked,   \* those with is_blocked
  tokens,    \* the access tokens that are still valid
  logon      \* the requests

loginVars == <<today, held, users, blocked, tokens, logon>>

TelegramKinds == {"initData", "widget"}
VKKinds == {"launch", "vkToken", "vkCode"}

\* date is auth_date, or the time the state of a code was made, or 0 where there
\* is none; signed is the time of the signature it goes back to.
Credentials ==
  [kind : TelegramKinds \cup VKKinds \cup {"password"}, person : Persons,
   date : 0..EndOfTime, signed : 0..EndOfTime]

\* early: the request began before the person had a row; fresh: if the API has
\* read an auth_date, the request came no more than MaxAge after the signature.
AccessTokens ==
  [owner : Persons, new : BOOLEAN, admin : BOOLEAN, at : 0..EndOfTime,
   early : BOOLEAN, fresh : BOOLEAN]

Idle == [at |-> "idle"]

LogonSteps ==
  {"lookup", "exchange", "info", "upsert", "read", "ensure", "insert", "touch", "sign"}

LoginTypeOK ==
  /\ today \in 0..EndOfTime
  /\ held \subseteq Credentials
  /\ users \subseteq Persons /\ blocked \subseteq users
  /\ tokens \subseteq AccessTokens
  /\ \A r \in Logons :
       \/ logon[r] = Idle
       \/ logon[r].at \in LogonSteps /\ logon[r].person \in Persons
       \/ logon[r].at \in {"guard", "inside"} /\ logon[r].owner \in Persons

LoginInit ==
  /\ today = 0
  /\ held = {}
  /\ users = {} /\ blocked = {}
  /\ tokens = {}
  /\ logon = [r \in Logons |-> Idle]

Moves(r, next) == logon' = [logon EXCEPT ![r] = next]

(***************************************************************************)
(* Credentials.                                                            *)
(***************************************************************************)
Holds(c) == Cardinality(held) < MaxHeld /\ held' = held \cup {c}

\* External: Telegram or VK signs, now.
Sign(kind, p) ==
  /\ kind \in IF p \in VKUsers THEN VKKinds \ {"vkCode"} ELSE TelegramKinds
  /\ LET date == IF kind \in TelegramKinds THEN today ELSE 0
     IN  Holds([kind |-> kind, person |-> p, date |-> date, signed |-> date])
  /\ UNCHANGED <<today, users, blocked, tokens, logon>>

\* AuthVKStart, and external VK, which answers a signed state with a code.
AuthVKStart(p) ==
  /\ p \in VKUsers
  /\ Holds([kind |-> "vkCode", person |-> p, date |-> today, signed |-> today])
  /\ UNCHANGED <<today, users, blocked, tokens, logon>>

Young(c) == today <= c.date + MaxAge

\* dated: auth_date is there and is a number.  Without it the age is not asked.
ValidateInitData(c, dated) == c.kind = "initData" /\ (dated => Young(c))

\* Here the date is required.
ValidateLoginWidgetPayload(c) == c.kind = "widget" /\ Young(c)

\* No date is looked at.
ValidateVKLaunchParams(c) == c.kind = "launch"

\* ExpiresAt is made with the state.
ParseVKOAuthState(c) == c.kind = "vkCode" /\ today < c.date + StateTTL

\* Mutant: dated by the exchange.
BuildWebAppInitDataToday(c) == [c EXCEPT !.kind = "initData", !.date = today]

\* auth_date is the date of the payload.
BuildWebAppInitData(c) == [c EXCEPT !.kind = "initData"]

StandaloneAuthExchange(c) ==
  /\ ValidateLoginWidgetPayload(c)
  /\ held' = held \cup {BuildWebAppInitData(c)}
  /\ UNCHANGED <<today, users, blocked, tokens, logon>>

\* Whoever holds it loses it.
Forget(c) ==
  /\ held' = held \ {c}
  /\ UNCHANGED <<today, users, blocked, tokens, logon>>

(***************************************************************************)
(* The logins, up to the statement or the answer they wait for.            *)
(***************************************************************************)
Begin(r, c, step, dated) ==
  /\ logon[r] = Idle
  /\ Moves(r, [at |-> step, person |-> c.person, admin |-> c.kind = "password",
               new |-> FALSE, early |-> c.person \notin users,
               fresh |-> dated => today <= c.signed + MaxAge])
  /\ UNCHANGED <<today, held, users, blocked, tokens>>

AuthTelegram(r, c, dated) == ValidateInitData(c, dated) /\ Begin(r, c, "upsert", dated)

AuthVKLegacy(r, c) == c.kind = "vkToken" /\ Begin(r, c, "lookup", FALSE)

AuthVKCodeFlow(r, c) == ParseVKOAuthState(c) /\ Begin(r, c, "exchange", FALSE)

AuthVKMiniApp(r, c) == ValidateVKLaunchParams(c) /\ Begin(r, c, "read", FALSE)

\* The password of the configuration and a telegram id of AdminTGIDs.
AuthAdmin(r, p) ==
  /\ p \in Administrators
  /\ Begin(r, [kind |-> "password", person |-> p, date |-> 0, signed |-> 0], "ensure", FALSE)

Person(r) == logon[r].person

\* GetUser of the legacy flow: VK names the owner of the token.
GetUser(r) ==
  /\ logon[r].at = "lookup"
  /\ Moves(r, [logon[r] EXCEPT !.at = "upsert"])
  /\ UNCHANGED <<today, held, users, blocked, tokens>>

\* VK takes a code once.
ExchangeCode(r) ==
  /\ logon[r].at = "exchange"
  /\ \E c \in held :
       c.kind = "vkCode" /\ c.person = Person(r) /\ held' = held \ {c}
  /\ Moves(r, [logon[r] EXCEPT !.at = "info"])
  /\ UNCHANGED <<today, users, blocked, tokens>>

\* Without an answer the person comes from the exchange and the names are empty.
GetUserInfo(r) ==
  /\ logon[r].at = "info"
  /\ Moves(r, [logon[r] EXCEPT !.at = "upsert"])
  /\ UNCHANGED <<today, held, users, blocked, tokens>>

Enrol(p) == users' = users \cup {p} /\ UNCHANGED <<today, held, blocked, tokens>>

\* UpsertUser, one statement; xmax = 0 tells an insert from an update.
Upsert(r) ==
  /\ logon[r].at = "upsert"
  /\ Enrol(Person(r))
  /\ Moves(r, [logon[r] EXCEPT !.at = "sign", !.new = Person(r) \notin users])

\* ensureVKMiniAppUser
ReadUser(r) ==
  /\ logon[r].at = "read"
  /\ Moves(r, IF Person(r) \in users
              THEN [logon[r] EXCEPT !.at = "sign"]
              ELSE [logon[r] EXCEPT !.at = "ensure", !.new = TRUE])
  /\ UNCHANGED <<today, held, users, blocked, tokens>>

\* After EnsureUserByTelegramID an administrator is seen, too.
AfterEnsure(r) == IF logon[r].admin THEN "touch" ELSE "sign"

\* EnsureUserByTelegramID reads once more,
EnsureRead(r) ==
  /\ logon[r].at = "ensure"
  /\ Moves(r, [logon[r] EXCEPT !.at =
                 IF Person(r) \in users THEN AfterEnsure(r) ELSE "insert"])
  /\ UNCHANGED <<today, held, users, blocked, tokens>>

\* and inserts, against the unique index on telegram_id.
EnsureInsert(r) ==
  /\ logon[r].at = "insert"
  /\ Enrol(Person(r))
  /\ Moves(r, IF Person(r) \in users THEN Idle
              ELSE [logon[r] EXCEPT !.at = AfterEnsure(r)])

\* TouchUserLastSeen; its error is ignored.
Touch(r) ==
  /\ logon[r].at = "touch"
  /\ Moves(r, [logon[r] EXCEPT !.at = "sign"])
  /\ UNCHANGED <<today, held, users, blocked, tokens>>

SignAccessToken(r) ==
  /\ logon[r].at = "sign" /\ Cardinality(tokens) < MaxTokens
  /\ tokens' = tokens \cup
       {[owner |-> Person(r), new |-> logon[r].new,
         admin |-> logon[r].admin, at |-> today,
         early |-> logon[r].early, fresh |-> logon[r].fresh]}
  /\ Moves(r, Idle)
  /\ UNCHANGED <<today, held, users, blocked>>

\* A statement or a service fails, the person goes away, or the API stops.
LogonFails(r) ==
  /\ logon[r] # Idle
  /\ Moves(r, Idle)
  /\ UNCHANGED <<today, held, users, blocked, tokens>>

(***************************************************************************)
(* The middleware, and the blocks of the administrators.                   *)
(***************************************************************************)
\* AuthMiddleware; BlockedUserMiddleware asks about all but administrators.
Authenticate(r, t) ==
  /\ logon[r] = Idle
  /\ today < t.at + AccessTTL
  /\ Moves(r, [at |-> IF t.admin \/ t.owner \in Administrators THEN "inside" ELSE "guard",
               owner |-> t.owner, admin |-> t.admin])
  /\ UNCHANGED <<today, held, users, blocked, tokens>>

IsUserBlocked(r) ==
  /\ logon[r].at = "guard"
  /\ Moves(r, IF logon[r].owner \in blocked THEN Idle
              ELSE [logon[r] EXCEPT !.at = "inside"])
  /\ UNCHANGED <<today, held, users, blocked, tokens>>

\* The handler behind the middleware; those of the administrators may block.
Handler(r) ==
  /\ logon[r].at = "inside"
  /\ \/ UNCHANGED blocked
     \/ /\ logon[r].admin \/ logon[r].owner \in Administrators
        /\ \E p \in users : blocked' = blocked \cup {p} \/ blocked' = blocked \ {p}
  /\ Moves(r, Idle)
  /\ UNCHANGED <<today, held, users, tokens>>

\* What time has made worthless is forgotten.
Tomorrow ==
  /\ today < EndOfTime
  /\ today' = today + 1
  /\ tokens' = {t \in tokens : today' < t.at + AccessTTL}
  /\ held' = {c \in held : c.kind = "vkCode" => today' < c.date + StateTTL}
  /\ UNCHANGED <<users, blocked, logon>>

LoginNext ==
  \/ \E p \in Persons :
       \/ \E kind \in TelegramKinds \cup VKKinds : Sign(kind, p)
       \/ AuthVKStart(p)
       \/ \E r \in Logons : AuthAdmin(r, p)
  \/ \E c \in held :
       \/ StandaloneAuthExchange(c) \/ Forget(c)
       \/ \E r \in Logons :
            \/ \E dated \in BOOLEAN : AuthTelegram(r, c, dated)
            \/ AuthVKLegacy(r, c) \/ AuthVKCodeFlow(r, c) \/ AuthVKMiniApp(r, c)
  \/ \E r \in Logons :
       \/ GetUser(r) \/ ExchangeCode(r) \/ GetUserInfo(r) \/ Upsert(r)
       \/ ReadUser(r) \/ EnsureRead(r) \/ EnsureInsert(r) \/ Touch(r)
       \/ SignAccessToken(r) \/ LogonFails(r)
       \/ IsUserBlocked(r) \/ Handler(r)
       \/ \E t \in tokens : Authenticate(r, t)
  \/ Tomorrow

LoginSpec == LoginInit /\ [][LoginNext]_loginVars

(***************************************************************************)
(* Properties.                                                             *)
(***************************************************************************)
\* Only a request that began before the account existed says isNew, on which
\* the referral bonus depends, although the mini app reads, reads again and
\* inserts in statements of their own and any other login may come between; and
\* a login of Telegram whose auth_date the API reads goes back to a signature of
\* no more than MaxAge before it, whatever exchanges lie between.
TokensEarned ==
  \A t \in tokens :
    /\ t.new => t.early
    /\ t.fresh
=============================================================================
