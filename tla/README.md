# Verification of gigme

TLA+ models, TLC runs and TLAPS proofs about the gigme backend (`src/backend`),
the Go API and the notification worker behind the Telegram mini app, the web
frontend and the Flutter app.  Line numbers are those of the repository at the
commit this project was written for.

## 1. The system

All state that outlives a request is in one Postgres database.  The API
(`backend/cmd/api`) and the worker (`backend/cmd/worker`) are separate processes
that share nothing else; the clients, Telegram, the Tochka bank API, S3 and the
geocoder are reached over HTTP.

| Component | State | Operations | Interacts through |
|---|---|---|---|
| Ticket shop (`repository/ticketing.go`, `ticketing/`) | `ticket_products`, `transfer_products`, `promo_codes`, `orders`, `order_items`, `tickets` | create, patch and delete products and promo codes; create, confirm, cancel, delete orders; redeem tickets | transactions with `FOR UPDATE` row locks; the cascades of the foreign keys |
| SBP payments (`handlers/ticketing.go`, `repository/payments_sbp.go`, `integrations/tochka`) | `sbp_qr`, `payments`, the bank's own payment state | create an order with a QR code; poll the payment status and confirm the order | the bank over HTTP between single statements; `ConfirmOrder` of the shop |
| Order delivery (`handlers/ticketing.go`) | none of its own | payment message, ticket QR images, `payment_confirmed` job when the message fails | Telegram, after the commit of `ConfirmOrder` |
| Notification queue (`cmd/worker`, `repository.go`) | `notification_jobs` | enqueue, fetch due jobs, send, record, retry, requeue stale jobs | `FOR UPDATE SKIP LOCKED`, Telegram |
| Admin broadcasts (`handlers/admin.go`, `repository/admin.go`, `cmd/worker`) | `admin_broadcasts`, `admin_broadcast_jobs` | create, start, fetch, send, retry, requeue, finalize | two statements of the API against the worker's loop |
| Events (`handlers/events.go`, `repository.go`) | `events`, `event_participants`, likes, comments | create (3 per hour), join (capacity), leave, hide, update, delete; like, comment, promote | notification jobs; cascades into the shop |
| Referrals and wallet (`repository/referrals.go`, `handlers/wallet.go`) | `referral_codes`, `referral_claims`, `users.balance_tokens` | claim once per invitee, get or create a code, top up | one transaction per claim; row locks on `users` |
| Rate limiter (`internal/rate`) | in-memory windows per key | `Allow`, cleanup | a mutex; the clock is read before it |
| Bank token (`integrations/tochka/token_manager.go`) | cached token and expiry | `AccessToken` | a mutex held during the call of the bank's OAuth endpoint |
| Event import (`eventparser/`, `handlers/admin_parser.go`) | `admin_event_parser_*` | fetch page by page, extract, store, reject, delete, import | HTTP; one transaction that creates an event |
| Logins (`handlers/auth*.go`, `internal/auth`, `http/middleware`) | `users`; access tokens and init data in the hands of people | Telegram, standalone exchange, three ways of VK, admin; block and unblock | single statements; signatures |
| Webhook and admin chat (`handlers/telegram_webhook.go`, `admin_bot_messages.go`) | `admin_bot_messages`; `adminReplyTarget` in memory | select a chat, reply, store, confirm, greet | Telegram's updates, handled side by side |
| Push tokens (`handlers/me.go`, `repository/push_tokens.go`) | `user_push_tokens` | upsert, retire the others | two statements |
| Media, geocoding, landing, logs, web and Flutter clients | UI state | request/response | not modelled, see section 7 |

### What is hard here

* Orders are changed by buyers, by two kinds of confirmation (an admin and the
  bank poll) and by admins who cancel, delete and redeem, at any time and in any
  order; stock, promo uses, QR codes and redemptions are kept in separate rows
  that must agree.
* Foreign keys erase rows behind the code's back: a deleted event takes its
  orders along and turns its promo codes into codes for every event.
* Payment handlers run over several statements and a bank call; between any two
  of them another handler, a cancellation or a crash may come.
* What follows a commit (messages, QR images) is not in the transaction.
* The worker may crash between sending a message and recording it.
* Transactions lock several rows one after another, and Postgres aborts one of those
  that wait in a circle.
* A Telegram channel is published to and erased from while it is read page by page, and two
  administrators handle what was stored.
* The webhook handles updates in parallel, and all of an administrator's updates share
  one reply target in memory; Telegram repeats what was not answered.
* The mini app's login reads a user, reads him again and inserts him in statements of
  their own; referral bonuses depend on the answer.
* The limiter's calls read the clock before they wait for the mutex; the bank token may
  expire while a request with it is on its way.

### What makes each component correct

* Shop: `sold_count` is exactly what sold orders hold; no confirmation passes the
  inventory limit; a promo code is used within its limit and its counter follows
  its orders; an order is `REDEEMED` exactly when its last ticket was used; a
  ticket has a QR code exactly when its order was paid; an order never leaves
  `CANCELED`, is paid once, and a ticket admits once.
* Payments: an order nobody confirmed by hand is paid only if the bank accepted
  its payment; an accepted payment that is polled is not lost.
* Delivery: every payment is announced at most once, and exactly once without
  faults.
* Queues: every job ends as sent or failed; a job that is sent was delivered; every
  duplicate is due to a fault; a finished broadcast has no job left.
* Events: participants within the capacity, up to the requests in flight; who takes
  part gets the reminder; a private event is entered with its key.
* Import: no post is stored twice by a run, none of the window is left out by a run that
  succeeds, and no row becomes two events.
* Chat: a text reaches only the chat its author had selected, and the transcript
  shows what was sent.
* Accounts: only who is new is called new; a login goes back to a recent signature;
  balances are what was added and earned, and a bonus is paid once per invitee; a device
  has one active push token.
* Bank token and limiter: no request carries an expired token; nobody gets more than
  twice the limit in any window.

## 2. The modules

| Module | What it is |
|---|---|
| `Ticketing` | the shop: one action per database transaction |
| `TicketLedger` | what the shop promises about an order and its tickets (abstract) |
| `TicketingProofs` | theorems about `Ticketing`; it implements `TicketLedger` |
| `SbpPayment` | bank payments, `EXTENDS Ticketing`: one action per statement or bank call |
| `Transactions` | `EXTENDS Ticketing`: the same transactions statement by statement, with their row locks |
| `RefinementProofs` | theorems about `SbpPayment` and `Transactions`; the theorems of the shop carry over to both |
| `NotificationContract` | what a job queue promises about a job (abstract) |
| `NotificationQueue` | `notification_jobs` and the first half of the worker's loop |
| `Broadcast` | broadcasts, their jobs, their handlers and the second half of the loop |
| `BroadcastProofs` | theorems about `Broadcast`; it implements `NotificationContract` |
| `NotificationProofs` | theorems about `NotificationQueue`; one worker implements `NotificationContract` |
| `Events` | events, participants and reminders: one action per statement of the handlers |
| `EventsProofs` | theorems about `Events` |
| `EventParser` | the parser: dispatch, fetch and retry, paging through a channel |
| `EventImport` | `EXTENDS EventParser`: the stored rows, their rejection, deletion and import |
| `EventImportProofs` | theorems about `EventImport` and the parser below it |
| `AdminChat` | the webhook and the chat of the administrators with users |
| `BankToken` | the cached token of the bank |
| `RateLimiter` | one limiter of `internal/rate` |
| `Logins` | the seven logins, accounts, access tokens and their end |
| `Wallet` | referral codes, claims, balances, with the row locks they take |
| `PushTokens` | the two statements of `UpsertUserPushToken` |
| `RowLocks` | the row locks of the shop's transactions, one by one |
| `DeskProofs` | theorems about the seven modules from `AdminChat` to `RowLocks` |
| `Counting` | lemmas about sizes of sets that the proofs share |
| `MCDesk` | the seven modules from `AdminChat` to `RowLocks` side by side, for one run |
| other `MC...` | instances of the above for TLC |

Composition: `SbpPayment` extends `Ticketing` and takes its actions as the
transactions inside the payment handlers: each of its steps is a step of the
shop or leaves it alone (`PaymentsAreShop` in `RefinementProofs`), by the way it is written.
`Transactions` extends `Ticketing` as well, for what is committed, and opens its actions
up: `CommitsAtOnce` is the specification of `Ticketing` itself, instantiated.
`NotificationQueue` and `Broadcast` both implement `NotificationContract`, each
through its own `INSTANCE ... WITH`.  `EventImport` extends the parser and stores what
its runs have found.  The seven modules of `MCDesk` share no state in the code either
(`Wallet` and `RowLocks` meet `Ticketing` only in that they all use Postgres).

### From the code to the models

**Ticketing.** The variables are columns: `soldCount`, `inventoryLimit`, `active` and `priced`
of `ticket_products` and `transfer_products` (one set `Products`, since the code treats both
alike), `usedCount`, `usageLimit`, `promoScope` and `promoOpen` of `promo_codes`, `orderStatus`
and `orderPromo` of `orders`, `items` for `order_items`, `qrIssued` and `redeemed` for
`tickets`.  A row that does not exist yet is "none", one that was deleted "gone"; ids are never
reused.  The tickets of an order are computed from its items, as `createOrderTx` inserts one
row per unit. Each handler is one action because it is one transaction that locks, with `FOR
UPDATE`, the row it decides on before it reads it; the stock is taken by a conditional
`UPDATE`, which decides under the lock it takes.  That this makes one step of it is not taken
for granted: `Transactions` has the statements, and implements `Ticketing`.  `DeleteEvent` and
`DeleteProduct` include what the foreign keys do.  `MigrateTo18` is migration 018, which
renames the status `CONFIRMED` to `PAID`; before it, `updateOrderToPaidCompatible` falls back
to `CONFIRMED`.  A limit of 0 stands for NULL.  Prices only matter as "free or not", the time
window of a promo code as open or closed (`PromoWindowTurns` is the clock).

**Transactions.** A session is a connection with a transaction open, as `WithTx` runs it:
`Begin...` is its first statement, `CheckProduct`, `TakeUnits` and `GiveUnits` a statement on
one product each, `UseCode` and `ReturnCode` those on the promo code, `InsertOrder` and its
like the last ones, on rows that are the transaction's own by then; then comes `Commit...`,
after which the locks are released, or `Rollback` at any point (an error reply, a failing
statement, a lost connection, the deadlock detector).  The variables of `Ticketing` are what is
committed and what every statement sees (READ COMMITTED); `txn` is what the transaction was
asked for and has read first, `sold`, `used` and `draft` its own versions of rows, invisible
until the commit installs them.  The locks follow from `step` and `taken`; a statement waits by
being disabled.  Statements of the catalogue, `DeleteEvent` with its cascades and the migration
are transactions of one statement and wait for all the rows they touch.  Deleted rows have no
lock, so that an `UPDATE` of a product that is gone touches nothing.  The rows of `order_items`
and `tickets` are locked after their order's only, whose lock stands for them.

**SbpPayment.** `request` holds what each request under way is about to do and
what it has read; between two of its steps anything may happen.
`CreateSBPQRCodePayment` is `CreateSbpOrder`, `Register`, `StoreQr`, `StorePayment`;
`GetSBPQRCodePaymentStatus` is `ReadStatus`, `Ask`, `SaveQr`, `SavePayment`,
`ConfirmByBank`, `Announce`; the administrator's `ConfirmOrder` is `ConfirmByAdmin`,
`Announce`.  `StepFails`, `SaveFails`, `AskEmpty` and `AnnounceTwice` are the error
paths and lost answers, `Crash` a stop of the API.  `BankMoves` is the bank.
`Shop` is every other transaction of `Ticketing`, with the cascades into `sbp_qr` and
`payments`.

**NotificationQueue and Broadcast.** `phase`, `batch` and `sending` are the local
variables of the worker's loop: the jobs it has fetched and not handled, and the job
it has sent and not recorded.  `GoStale` is the ten minutes of
`RequeueStaleProcessing`, and may come while the worker still holds the job.
`copies` counts what reached the user, including messages whose answer was lost.  In
`Broadcast` the two statements of `FinalizeAdminBroadcast` are two steps, in the API
(`Count`, `Finish`) and in the worker (`CountTouched`, `FinishTouched`).

**Events.** `eventRow`, `creator`, `capacity`, `hidden` and `private` are columns of
`events`; `young` and `distant` are what the two clocks say of a row (created within the
last hour, starting more than an hour ahead); `participants` is `event_participants` and
`reminders` the `reminder_60m` rows of `notification_jobs`.  `request` holds what a request
has read.  `CreateEvent` is `CountHour`, `InsertEvent`, `JoinCreator`, `TellAll`, `Remind`;
`JoinEvent` is `ReadEvent`, `Access`, `Count`, `Insert`, `Tell`, `Start`, `Remind`, none of
them in a transaction; `UpdateEventAdmin` is `ReadForUpdate` and `WriteEvent`, which writes
back every column of what was read.  `LeaveEvent`, `HideEvent` and `DeleteEvent` are one
statement each.  `ErrorIgnored` are the statements whose error the handlers drop,
`RequestEnds` those that end them.  The kinds `event_created` and `joined` are rows nothing
in this module reads, so that `TellAll` and `Tell` are steps in which time passes.

**EventParser and EventImport.** `channel` is what the site holds, changed by
`Publish` and its like at any time; a post is the age it had at the start of the run and
what its text offers.  `run` is one `ParserService.ParseEventsWithSource` under way:
`Source` is the dispatcher, `FetchFails` and its retry the fetcher, and the page
step is the loop of `ParseMany` with `before`, the posts seen, the window of 24 hours,
the posts kept as a fallback and the fallback to the whole page.
`parseAndStore` is one `StoreItem` per event, `StoreRefused` and `StoreError` where an
INSERT fails, `Respond` at the end; `ImportParsedEvent` is `ImportRead` and then the
transaction, which locks the row and looks at its status again.  `touched` and
`created` are histories.

**AdminChat.** A message is written (`People`) and its handler goes through the
statements and sends of `TelegramWebhook` or `ReplyAdminBotMessage`, one step each, in the
order `First`, `AfterSend`, `AfterStore`, `AfterConfirm` give; `target` is
`adminReplyTarget`, which `ChatCrash` empties.  `Again` is Telegram's repetition of an
update that was not answered in time.  `meant` and `confirmed` are what the author knows,
`arrivals` what has reached a chat.

**BankToken.** A call waits for the mutex, takes the cached token or asks the bank for a
new one while it holds the mutex, and presents it.  A token is the time at which the
bank lets it expire, `cachedExpiry` the time the API computes from `expires_in` after
the answer has come.

**RateLimiter.** `Arrive` reads the clock, `Allow` runs under the mutex, cleaning
included, up to `MaxLag` later.

**Logins.** `held` is what people hold that Telegram, VK or the API has signed;
each login begins with a check of one of them and goes on statement by statement:
`AuthTelegram`, `StandaloneAuthExchange` (which signs init data anew), `AuthVKLegacy`,
`AuthVKCodeFlow`, `AuthVKMiniApp` (`ReadUser`, `EnsureRead`, `EnsureInsert`), `AuthAdmin`.
`ValidateInitData` asks the age of init data only where `auth_date` is there and is a number
(`telegram.go:54`); `dated` says whether it is.  `Authenticate` is the middleware,
`IsUserBlocked` what handlers ask.

**Wallet.** A transaction's writes are in `transfer` until it commits, and the rows it has
locked follow from the step it has reached, so that a second claim of the same invitee waits
at the unique index, and claims and top-ups wait at the rows of `users`.  `TransferFails`
is any failing statement, a crash, and the one that Postgres picks in a deadlock.

**PushTokens.** `UpsertRow` and `RetireOthers` (or `RetireStrangers`, without a device
id) are the two statements, `RegistrarFails` a failure between them.

**RowLocks.** A transaction is the sequence of the rows it has still to lock; the
sequences are those the code's statements produce, with every order of a Go map where the
code iterates over one.  `BreakDeadlock` is Postgres.

## 3. What the runs check

| Run | Instance | Shows |
|---|---|---|
| `stock` | 2 orders, a ticket and a transfer product, up to 2 units each, limit 1 or none | `SoldCountExact`, `NoOversell`, `RedeemedIffAllUsed`, `QrFollowsPayment`, `ImplementsLedger` |
| `transactions` | 2 sessions, 2 orders, 2 events, a ticket and a transfer product of one of them, a promo code; one unit each, limits 1 or none | `CommitsAtOnce`, `PromoUseCounted`, `PromoCapHeld`, `SpelledBySchema` |
| `sbp` | 1 bank order, 2 requests, 1 fault | `PaidNeedsBank`, `BooksTruthful`, `AnnouncedOnce` |
| `sbp_live` | a bank order against a manual one, 1 request, 1 fault | `ImplementsLedger`, `AcceptedGetsPaid` |
| `sbp_accepted` | a bank order against a manual one | the first finding below |
| `queue` | 1 worker, 2 jobs, 2 faults | `OneDuplicatePerFault`, `EventuallySettled`, the contract |
| `queue_overlap` | 2 workers, 2 jobs, 1 fault | `DuplicatesExcused` |
| `broadcast` | 1 broadcast to 2 users, 2 requests, 2 faults | `DoneMeansSent`, `OneDuplicatePerFault`, `JobsSettle`, `BroadcastFinishes`, the contract |
| `events` | 2 users, 2 events, 2 requests, capacity 1 or none, 1 event per hour, 1 fault | `TypeOK`, `OverrunBounded`, `RemindersReach`, `PrivateGuarded`, `HourlyLimitBounded` |
| `import` | a channel of 2 posts on pages of 1, 1 run, 2 rows, 2 imports, 1 fault | `EachPostOnce`, `WindowStored`, `ImportedOnce` |
| `import_all` | a channel of 3 posts on pages of 1, read 2 pages back | the second finding below |
| `desk` | seven parts, one at a time | `DeskTypeOK`, `TextsReachMeant`, `TranscriptTruthful` (`AdminChat`), `HeldTokenValid` (`BankToken`), `TwiceTheLimit` (`RateLimiter`), `TokensEarned` (`Logins`), `WalletExact` (`Wallet`), `OneActivePerDevice` (`PushTokens`), `CirclesOverProducts` (`RowLocks`) |

Each property has a mutant, an operator beside the definition it replaces that makes
one plausible mistake (a limit checked for one unit, a promo use returned twice, a
status not checked, a job sent and counted twice); the property fails on it.

`CHECK_DEADLOCK FALSE` is set for the shop, its transactions, the payments, the events, the
import and the desk, whose instances stop when all rows were created, all messages were written
or the clock is at its bound; the queues never stop, since their worker loops.

In `desk` the variable `part` chooses one of the seven modules; the others keep their
initial state, so that the run explores the sum of their state spaces and not
the product.  As the parts meet nowhere, one permutation may exchange the pairs of all
of them at once (`Symmetry` of `MCDesk`).  Type invariants are in the runs of the events
and the desk; those of `Ticketing`, `SbpPayment` and `Transactions` are proved only
(`TypeCorrect`, `SbpTypeCorrect`, `TxnTypeCorrect`), that of `Broadcast` as a part of its
`BroadcastInv`; those of `NotificationQueue` and `EventImport` document the variables.

Three runs have a state constraint.  `Bounded` of `MCDesk` lets at most one of the three
messages come from a user or the panel: neither looks at a reply target. `Bounded` of
`MCEvents` asks two questions of one run, and leaves out their product: how two users meet on
one event of any kind, without faults and within its first hour, and how one user creates
several plain ones, with a fault.  `Bounded` of `MCTransactions` asks how transactions meet on
a ticket and a transfer product whose limit is patched, how they meet on a promo code with one
plain product and another event that the code may be for, and what the migration, patches and
deletions of a single product do to them.

### The bounds and why they are enough

* Two orders are what a race for the last unit or the last promo use takes; units of
  one product in one order (`MaxQty = 2`) and two products are what a wrong order of
  partial updates takes.  The proofs below remove the bound.
* Two sessions are a transaction and whoever comes between its statements; a third one would
  meet the same locks.  Two of the sessions' orders may be the same one.  Both orders are of
  one event, and the other event only gives the code its scope: an order with the code that
  outlives the event of another one is left to the proofs (`PromoUseTheorem`, `TxnShopTheorem`).
* Two requests at a time are what a payment race takes; a third one meets the same
  rows. The administrator, the bank and the crash come on top of them.
* Two users and two requests on an event for one are what it takes to pass its
  capacity; that the bound is met, and the hourly limit passed, was seen in runs that
  claim the contrary.  `Capacities`, `Starts` and `Privacy` are what requests may name;
  each run fixes those its properties do not depend on.
* A history counter is bounded by `MaxFaults`: crashes, failing statements and lost
  answers.  With two of them a fault hits the recovery from another one.
* Three messages (`LastUpdate`) are a selection, a second selection and a text, the least
  with which a text can go to the wrong chat; one fault is a lost answer or a crash
  among them.
* `Skew` is twice `MaxDelay`, as tight as the proof's assumption allows, and
  `DefaultLifetime` the shortest life that assumption allows; six units of time take a
  token through its whole life.  A window of 3 with a lag of 1 lets two windows of a key
  meet and a call come late.
* Two claims, two members and two events are what a race for one invitee, and two members
  who invite each other, take; the second code tried (`MaxTries`) meets a code that is taken
  (5 in the code).
* Pages of one post make every post a page border; two posts let posts be published
  and erased while the run is between them.  In `import` the channel is shorter than
  `MaxPages`, so that the limit on pages plays no part; it does in `import_all`.
* Two sessions on one order and two ticket products close every circle of two; `BeginShop`
  lets each session be any transaction.  `CirclesTheorem` is about circles of any length.
* `MaxExcuses` bounds requeues and doubtful copies of one job and is at least
  `MaxFaults`, so that it never keeps a worker from a step.
* One doubtful answer per `Send` is allowed, which may deliver two copies (a photo and
  a text); more lost answers in one send are more faults.
* `BatchLimit` of 1 with two jobs makes the limit bite (`queue_overlap`), of 2 lets a crash hit
  a batch in the middle.

### Two disagreements with the documentation

`README.md:251` says that when the payment is `Accepted` the backend marks the order
`PAID`.  The stock is taken only then, in `ConfirmOrder`: an order placed while there
was stock, whose payment the bank accepts after another order has taken the last unit,
is refused with `ErrInventoryLimitReached` by every poll and stays `PENDING`, while
`sbp_qr` says `Accepted` and `payments` says `PAID`.  `sbp_accepted` finds it
(`AcceptedMarksPaid`); `AcceptedGetsPaid` is what does hold.

`README.md:303` says that the parser "now extracts all channel messages for the last 24 hours
from `/s/` view".  `ParseMany` reads at most eight pages back (`maxPages`,
`parsers/telegram.go:70`; a page has some 20 messages) and then returns what it has, without
an error: of a busier channel the older messages are left out.  `import_all`
finds it with three messages and two pages (`AllPostsExtracted`), without any fault;
`WindowStored`, about runs that report success within the limit, is what does hold.

### What else the models show about the code

Things that no document denies, so that they are not findings, and that the
properties are worded around:

* The cascade of `DeleteEvent` erases orders without returning their promo uses, so
  `used_count` is exact only while no event was deleted, an upper bound afterwards.
* `sbp_qr` and `payments` may lag behind the bank for good: a poll that answers late
  overwrites a newer status.
* A crash after the commit of `ConfirmOrder` loses the payment message; the next
  poll finds the order paid and sends none.  The message is also lost, without a fault of
  the worker, when the direct message fails and the event was deleted by then.
* With two workers `UpdateNotificationJobStatus`, which goes by id alone, may put a job
  that another worker has sent back to pending.  The duplicates stay bounded
  (`DuplicatesExcused`); the contract, by which a settled job stays settled, holds for one
  worker, which is what `docker-compose` deploys.
* A broadcast that an administrator starts between the insert of its row and the
  insert of its jobs is finalized as done with no job, and its jobs are never fetched
  until it is started again.  `DoneMeansSent` leaves these jobs (`late`) out; without
  that it fails within five steps.
* A broadcast whose worker stops after its last job, or whose payload cannot be
  loaded, stays `processing` until it is started again; hence `faults > 0` in
  `BroadcastFinishes`.

* The capacity of an event and the limit of three events per hour can be passed by
  concurrent requests; `OverrunBounded` and `HourlyLimitBounded` say by how many.  Events
  that an administrator imports count for the limit as well but are not refused; the
  module leaves them out, and the bound is about users who import none.
* `UpdateEventAdmin` loses updates: a patch of the title, read before another
  administrator set a capacity and written after, takes that capacity away again.
* Moving the start of an event moves no reminder: those in the queue keep their time, and
  who joined when the event was less than an hour ahead gets none.  `RemindersReach` is
  about events whose start was not changed (`moved`).
* Leaving an event leaves the reminder in the queue.
* When no post of the first page is within the window, `ParseMany` takes the texts of all
  its posts, a fallback for pages without wrappers, before it looks at the older posts it
  has kept: what it finds then has the date of its text or none, although a comment speaks of
  the time of the message as a fallback.
* `GuessName` cuts a name at its 120th byte (`extract/text.go:39`), which may be in the middle
  of a Cyrillic letter; Postgres refuses such a text, and `parseAndStore` ends the run with an
  error at the first INSERT that fails (`handlers/admin_parser.go:594`): the messages after
  it are not stored.
* `ValidateInitData` accepts init data of any age when its `auth_date` is missing or is not a
  number.  `TokensEarned` bounds the age where it is one, or is required to be (the
  login widget, and what the standalone login signs itself).
* `mergeSelections` compares the ids of products as they are written, so that one product in
  two spellings of its UUID is two selections.  `RowLocks` leaves this out: the
  transaction asks for a row it holds already, which makes nobody wait.
* `createOrderTx` takes the stock of products in the random order of a Go map, so that
  two orders of two products may deadlock; Postgres ends one of them, which is an error
  reply.  `CirclesOverProducts` says that nothing but such a pair of products closes a
  circle, except with a redemption, whose order the planner chooses, or a
  deletion of the event.
* Two members who claim each other's codes may deadlock on the two rows of `users`; one
  claim is rolled back.
* Two requests that register tokens for one device may each retire the other's token,
  and leave none active; only the bound above is claimed.
* A text of an administrator who does not wait for the confirmation of his selection, or an
  update that Telegram repeats, may go to another chat than he meant, which is why
  `TextsReachMeant` is about patient authors.

## 4. Fairness

* `SbpFairness`: weak fairness of the steps of a request (the goroutine runs on) and
  strong fairness of `ReadStatus` for each order: the app polls the status of an
  open order again and again (`purchase_ticket_flow.dart`, with a back-off from 2 to 15
  seconds), and a new slot for a request is free again and again.  The app gives up after
  15 minutes, so `AcceptedGetsPaid` speaks of a buyer who keeps the order open.
* `Fairness` of the queues: the clock runs (`GoStale`, `BecomeDue`), the worker's loop
  goes on, and a worker that stopped is started again.  `docker-compose` has no
  `restart:` policy, so the last is what an operator does.  Faults have no fairness:
  they are bounded by `MaxFaults`, so that they end.
* `Serve` of `Broadcast`: requests of the API run on.

The import and the parts of `desk` have safety properties only and no fairness.

Nothing is assumed about the bank, buyers or administrators.

## 5. What is proved

All proofs are for every value of the constants, under `ConstantsAssumption` (finitely many
orders; ticket and transfer products are different rows; every product has an event; the
sentinels are no ids), for the payments also `SbpAssumption`, for the events `EventsAssumption`
and `RequestAssumption`, for the queue `QueueAssumption`, for the broadcasts
`BroadcastAssumption`, for the import `ParserAssumption`, `SlotAssumption` and
`ImportAssumption`, and for the parts of the desk:

* `TokenAssumption`: what the bank lets live, or `DefaultLifetime`, lives longer than two
  exchanges, and `refreshSkew` covers two exchanges (30 seconds, against timeouts of 10 and 15
  seconds in `token_manager.go:44` and `client.go:143`);
* `LimiterAssumption`: a call waits for the mutex for less than a window (a minute or more);
* `RowAssumption`: rows of different tables are different, and there are finitely many orders
  and products;
* `LoginAssumption`: people of Telegram and of VK have different rows, and administrators come
  from Telegram; `WalletAssumption`: a bonus is positive, what is added not negative;
* `PushAssumption` and `ChatAssumption`: the sentinels are no devices or users, the bounds numbers.

| Theorem | Property | Module |
|---|---|---|
| `TypeCorrect` | `TypeOK` | `TicketingProofs` |
| `SoldCountTheorem` | `SoldCountExact` | `TicketingProofs` |
| `PromoUseTheorem` | `PromoUseCounted` | `TicketingProofs` |
| `RedeemedTheorem` | `RedeemedIffAllUsed` | `TicketingProofs` |
| `QrTheorem` | `QrFollowsPayment` | `TicketingProofs` |
| `SpellingTheorem` | `SpelledBySchema` | `TicketingProofs` |
| `NoOversellTheorem` | `NoOversell` | `TicketingProofs` |
| `PromoCapTheorem` | `PromoCapHeld` | `TicketingProofs` |
| `LedgerTheorem` | `ImplementsLedger` | `TicketingProofs` |
| `SbpTypeCorrect` | `SbpTypeOK` | `RefinementProofs` |
| `PaidNeedsBankTheorem` | `PaidNeedsBank` | `RefinementProofs` |
| `BooksTruthfulTheorem` | `BooksTruthful` | `RefinementProofs` |
| `SbpNoOversell` | `NoOversell` of the shop with bank payments | `RefinementProofs` |
| `SbpShopTheorem` | the other properties of the shop, with bank payments | `RefinementProofs` |
| `AnnouncedOnceTheorem` | `AnnouncedOnce` | `RefinementProofs` |
| `TxnTypeCorrect` | `TxnTypeOK` | `RefinementProofs` |
| `AtOnceTheorem` | `CommitsAtOnce` | `RefinementProofs` |
| `TxnShopTheorem` | `SoldCountExact`, `PromoUseCounted`, `RedeemedIffAllUsed`, `QrFollowsPayment`, `SpelledBySchema` of the interleaved transactions | `RefinementProofs` |
| `TxnNoOversell`, `TxnPromoCap` | `NoOversell`, `PromoCapHeld` of the interleaved transactions | `RefinementProofs` |
| `EventsTypeCorrect` | `TypeOK` of `Events` | `EventsProofs` |
| `Overrun` | `OverrunBounded` | `EventsProofs` |
| `HourlyLimit` | `HourlyLimitBounded` | `EventsProofs` |
| `KeyNeeded` | `PrivateGuarded` | `EventsProofs` |
| `Reminded` | `RemindersReach` | `EventsProofs` |
| `DuplicatesTheorem` | `DuplicatesExcused` | `NotificationProofs` |
| `ContractTheorem` | `ImplementsContract` of the queue, one worker | `NotificationProofs` |
| `OneDuplicateTheorem` | `OneDuplicatePerFault` of the queue, one worker | `NotificationProofs` |
| `DoneMeansSentTheorem` | `DoneMeansSent` | `BroadcastProofs` |
| `BroadcastContractTheorem` | `ImplementsContract` of the broadcasts | `BroadcastProofs` |
| `BroadcastDuplicatesTheorem` | `OneDuplicatePerFault` of the broadcasts | `BroadcastProofs` |
| `ImportedOnceTheorem` | `ImportedOnce` | `EventImportProofs` |
| `EachPostOnceTheorem` | `EachPostOnce` | `EventImportProofs` |
| `WindowStoredTheorem` | `WindowStored` | `EventImportProofs` |
| `TextsReachMeantTheorem` | `TextsReachMeant` | `DeskProofs` |
| `TranscriptTheorem` | `TranscriptTruthful` | `DeskProofs` |
| `HeldTokenTheorem` | `HeldTokenValid` | `DeskProofs` |
| `TwiceTheLimitTheorem` | `TwiceTheLimit` | `DeskProofs` |
| `TokensEarnedTheorem` | `TokensEarned` | `DeskProofs` |
| `WalletExactTheorem` | `WalletExact` | `DeskProofs` |
| `OneActiveTheorem` | `OneActivePerDevice` | `DeskProofs` |
| `CirclesTheorem` | `CirclesOverProducts` | `DeskProofs` |
| `DeskIsItsParts` | the run `desk` is a run of each of the seven modules | `DeskProofs` |
| `DeskTypeCorrect` | `DeskTypeOK` | `DeskProofs` |

**The shop.** None of the properties is inductive alone; `IInv` is.  The stock counter is
exact after a cancellation only if the order holds products that exist, the promo
counter only if an order has a code while the code's row is there, and an order is
redeemed with its last ticket only if it has tickets and its unused ones have codes:
this is `OrderWellFormed`, with two conjuncts for products and codes that do not exist
yet.  `InvStep` is split by what is counted: `SoldCountStep` (cardinalities of the set of
sold units; `AddUnits` and `GiveBackExact` are the two ways it changes),
`PromoStep`, `TicketsStep`, `WellFormedStep`, `NewRowsStep`; `SpellingStep` is about the
status and the schema that spells it.  `NoOversell` and `PromoCapHeld`
are action properties: `OnlyConfirmSells` and `OnlyOrdersUse` show which actions can
make the set grow, `SellWithinLimit` and `UseWithinLimit` that these keep the limit,
because the counter they test is exact by `IInv`.

**The ledger.** Each transaction of the shop is mapped to `Place`, `Pay`, `Admit`, `Void`,
`Erase` or a stutter (`LedgerStep`).  `RedeemTicket` needs `IInv`: that the order is
closed exactly with its last ticket.

**The payments.** `BankInv` adds to `PaidNeedsBank` and `BooksTruthful` what requests
under way know: an answer `Accepted` in the memory of a request is true, a request
about to confirm has such an answer, and an order is registered at the bank by the one
request that created it.  Without these, a poll that is between two statements could
confirm an order on an answer nobody gave.  `ShopStep` maps every step to a step of
`Ticketing` or a stutter, so that payments are behaviours of the shop (`PaymentsAreShop`) and
every theorem of the shop holds for the system with payments (`SbpNoOversell`, `SbpShopTheorem`).

`AnnouncedOnce` counts messages and needs an invariant of its own, `AnnounceInv`: an order
that was paid never is `PENDING` again (`Settled`), so that one request at most, the one
that changed it, is about to announce it (`OneAnnouncer`).  That its message is lost
without a fault only together with the order takes two more facts: the event a
request holds is the event of its order until the order is erased (`OwnEvent`), and an order
that has items has an event that exists (`LiveEvents`, the cascade of `DeleteEvent`).
The steps then are of three kinds: those that leave the messages alone (`QuietStep`), the
one that pays (`PayingStep`), and the end of an announcement (`AnnouncingStep`).

**The transactions.** `AtOnceTheorem` is a refinement: a commit is the step of `Ticketing`, and
the other statements are stutters.  Its invariant `TxnInv` says of each session that what it
has read or drafted is what the step at its commit would compute: the status, the promo code
and the items of its order (`OrderRead`), the new `sold_count` of the products it is through
with, and for a confirmation that there is room (`ProductRead`), that a product of an order is
still active and of the event; the new `used_count` and that the code is valid (`PromoRead`),
the last statements (`DraftRight`); and that no two sessions hold the same row (`Exclusive`).
Each is kept because whoever else changes such a row must hold its lock (`TurnKeeps`,
`PromoKeeps`, `CommitKeeps`, `SinglesKeep`; `SessionKept` is the frame they share).  With it
`StepAtCommit` goes through the kinds of transaction, field by field.  The shop's invariant is
needed at the same time, for the columns' types and for what an order's rows refer to
(`OrderWellFormed`), which is why `TxnInvariant` proves both together.

One thing does not map literally: the window of a promo code may close between its check and
the commit. In `CommitsAtOnce` a code counts as open until the transactions that have found it
open are over (`OpenAtCommit`), so the clock's step of `Ticketing` is when the last of them
ends (`ForgetIsClock`).  Nothing else in the shop looks at the window.  The properties of the
shop do not either, and hold of the committed rows as they are (`TxnShopTheorem`,
`TxnNoOversell`, `TxnPromoCap`).

**The events.** `OverrunBounded` counts, beside the participants, the requests about to
insert one, and becomes inductive with three facts (`RoomInv`): requests know only rows
that were inserted (`Known`), an event without a row has no participants (`Cascaded`), and
a request that will compare with a capacity holds one the event had, while one that will
write a capacity takes none away (`LimitsHeld`).  A step then either lets nobody in
(`RoomShrinks`), turns an inserting request into a participant (`RoomMoves`), or has just
counted fewer participants than there was room for, after which even all requests
together stay within the bound (`RoomFound`).  `HourlyLimitBounded` goes the same way.

For `PrivateGuarded` the invariant `GuardInv` says of requests that have passed
`allowPrivateEvent` that their user may be a participant: it created the event, brought
its key, or took part already (`Welcome`).  For `RemindersReach` the invariant `RemindInv`
follows the reminder from the row of the participant to its job: while a request is between
the two it knows that the event is far ahead (`KnowsAhead`), unless its start was
moved; where it ends without a job, the event is near, moved or erased, and an erased
event has no participants (`Cascaded`).

**The queue.** A further copy of a message can come from three places: the row while it
is pending, the batch a worker has fetched (`InBatch`), and a failed send that has
still to be written back as pending (`Returning`).  `JobInv` says that the copies and these
places together are at most one more than the excuses of the job.  Fetching moves
one from the row to a batch, a send moves it to the copies or to `Returning`, a
requeue or a lost answer adds an excuse; the bound on copies is what is left.  `BatchInv`
(a batch has a job once) makes the moves exact.

`ContractTheorem` assumes one worker, as it is deployed (`OneWorker`).  Claiming and requeueing are
invisible to `NotificationContract`, where both statuses are owed; a send is a
`Deliver`, a write a `Settle` or a stutter.  `HoldsOpen` is what the steps rest on: whatever
is in the batch or being sent is owed or erased, because nobody requeues while the
worker works on it, and a send that counts as good has reached its user.

`OneDuplicateTheorem`, also for one worker, is about all jobs together, a sum that is stated as
the size of a set: `Duplicates` has an element for every copy after the first. The invariant
(`ChargedInv`) charges the faults with them and, already before it is made, with the further
copy of every job that has arrived and is still open in the queue (`Risk`), except the one
being sent and recorded.  A second copy then costs nothing when it comes; what puts a job at
risk is a failing write, a doubtful answer or a crash while its message is on its way, each one
fault of its own.  The requeue of stale jobs puts none at risk, as they arrived nowhere or were
charged before. The counting is in `Counting` (`Charges`, `RiskCharged`, `SendCharged`,
`CopyCharged`).

**The broadcasts.** `BroadcastInv`: the worker holds claimed jobs only (`HoldsClaimed`),
jobs belong to broadcasts that have begun, and a count of zero, in the hands of
a request or of the worker, is still true of the jobs that were there when it was made
(`CountsBegun`, `DoneTruthful`).  The last is what makes two statements as good as one: no
action gives a broadcast that has begun another open job except its start, and jobs
that come late are excluded by the property.  `BroadcastContractTheorem` and
`BroadcastDuplicatesTheorem` then go as for the queue; one worker is
part of the model here.

**The import.** `RowInv` ties the count of events made of a row to its status and is
inductive because the transaction of the import tests the status under the lock of the row;
that `ImportRead` saw another status before does not matter, and nothing is needed of
the parser.

`EachPostOnce` and `WindowStored` are about the parser.  `CollectedInv`: an item is of a post
the run has seen, and of a post there is one; the loop skips what it has seen, so that pages
may overlap.  `ScanInv`: while nothing has cut the run short, every post with text that was in
the window from the start of the run on (`steady`) and whose id is at or behind `before` has
been collected, and when the run is through, all have.  That the run may stop at a page without
a post of the window takes `ChannelInv`: ages follow ids, so that behind a stale post there is
no fresh one.  A page is an arbitrary set of newest posts before an id, and its least element,
the next `before`, exists by well-founded induction (`Least` and `Greatest` of `Counting`).

**The chat.** For the transcript, `Told` is a table over the kinds of messages and the steps of
their handlers: how many rows and sends there are, how many are still due in this round
(`RowAhead`, `ArrivalAhead`, `Sent`), and that both together are at most one more than the
faults.  Repetition and crash add a fault and at most one round.

For the texts, `AuthorInv` says what waiting means: the selections before a message of a
patient author are all confirmed, and the text is meant for the last of them.  `TargetInv`:
from the moment a patient author's selection has set the target, the target is of it or of a
later one.  Its step is `TargetIsSet`: the handler that sets the target is of an unconfirmed
selection, and so cannot be of one before a selection whose author had waited.  `TargetIsMeant`
puts the two together when a text reads the target, and `ReachInv` keeps the result until the
text has arrived.  All of it is under `repeated \/ ...`: a repeated update sets the target
again.

**The limiter.** The calls of a key that were let through fall into spells, one for
each entry of the map.  `SpellInv`: a spell has at most `Limit` calls, everything before it lies
before its begin, and a window that reaches the present meets at most the last spell and the
one before.  `EntryInv` says why: an entry that is gone, erased by its own key or by the
cleaning of another one, has outlived its window, less the longest wait, whatever the order of
the calls.

**The row locks.** `LockInv` gives every row a rank (order, ticket product, transfer
product, promo code, event, tickets) and says that what a transaction on an order holds comes before
what it has still to lock.  In a circle of any length the waiting rows can then have no
greatest rank unless all have the same, and rows of one rank wait for each other only
among the products of a kind.

**The logins.** `LoginInv`: a row of `users` is never taken back, so that a request that finds none
began before there was one (`early`), through every statement between its two reads and its
insert; and every credential of Telegram in somebody's hands carries the date of the
signature it descends from, which the exchange of the standalone login must keep.  `fresh` is
true of a request whose login has asked the age only if that signature was young enough.

**The wallet.** `IndexInv` is the unique index, also between claims that are not committed;
`BalanceInv` and `InvitationInv` count: a bonus for each committed claim of either side, and
claims and erased claims together are the invitations that were paid.  Committing a claim adds
one element to each (`Awards` is the set of all bonuses), a deleted event moves claims to
`erased`.

**The push tokens.** The number of active tokens is compared with the requests between
their two statements.  Both counts grow together in `UpsertRow`; `RetireOthers`
leaves one token of the device.  Only finiteness and the types are added.

**The bank token.** `CacheInv`: what the API believes is too late by one exchange at most,
since the life begins at the bank and the expiry is computed when the answer has come;
`ExchangeInv`: an exchange has not passed its deadline; `IssuedInv` and `PresentInv`: a
token on its way outlives the exchange that brings it and the one that uses it.

**The desk.** `DeskIsItsParts` shows that a behaviour of the run is a behaviour of each of its
seven modules, so that their theorems speak of it.  Three of their type invariants say more
than ranges, and need an invariant of their own: that nothing is sent to
`NoChat` (`ChatRest`: a handler that is about to send has found a user), that a
resting transaction of the wallet is empty (`WalletRest`), and that a transaction of
the shop never asks for a row it holds (`TodoInv`: the rows of one transaction are distinct,
which rests on the merging of selections for orders and on the tables for the rest).

### What is only model-checked

Liveness (`AcceptedGetsPaid`, `EventuallySettled`, `JobsSettle`, `BroadcastFinishes`), which
the prover does not do.  For more than one worker the contract of the
queue and `OneDuplicatePerFault` do not hold; `DuplicatesExcused` is what does.  Induction over
data is not used: where a proof needs the least or the greatest of some numbers it takes the
minimum of a well-founded order (`WFMin`), and no module with a theorem has a recursive operator.

## 6. Plan

Done: the modules of section 2, and a theorem for every safety property that a run
checks.  Next, in this order:

1. Pure functions against reference definitions: `mergeSelections`, `ValidatePromo`
   with prices, `AggregateStats`, `normalizeImportedStartsAt`.
2. The QR images after the payment message.

## 7. Not modelled

* Likes, comments, promotion, landing publication and media of events: single rows that
  nothing else depends on.
* Payment settings, geocoding, client logs, the table of the parser's sources:
  independent single statements or pure I/O, with no invariant across rows.
* The extraction of dates, places and links from a text: what a text offers is an
  input of the parser.
* QR images after the payment message: they change no row and are sent at most once.
* Statistics: a read.
* Circles of waiting transactions inside `Transactions`: there one of them rolls back, as any
  may at any time; `RowLocks` has the circles, and which rows they are made of.
* The choice of the rows of a `SELECT ... FOR UPDATE` before its locks: Postgres looks at a row
  again once it has the lock, so that reading and locking are one step.
* Cryptography: a scanned code either is the one of the ticket or is not; signatures of
  sessions, init data, launch parameters and OAuth states are taken as perfect.  The pages
  of the standalone login and the password of `AuthAdmin` are left out.
* The clients, except that the app polls.
