----------------------------- MODULE SbpPayment -----------------------------
(***************************************************************************)
(* Payment of ticket orders through the bank (Tochka SBP QR codes): the    *)
(* handlers CreateSBPQRCodePayment, GetSBPQRCodePaymentStatus and          *)
(* ConfirmOrder of internal/http/handlers/ticketing.go, the rows of sbp_qr *)
(* and payments, and the bank, on top of the shop of module Ticketing.     *)
(*                                                                         *)
(* A request runs over several statements and a call of the bank; each is  *)
(* a step, and other requests, the bank, an administrator or a crash of    *)
(* the API may come between any two.  The QR images that follow the        *)
(* payment message change no row and are left out.                         *)
(***************************************************************************)
EXTENDS Ticketing

CONSTANTS
  SbpOrders,   \* the orders with payment_method TOCHKA_SBP_QR
  Requests,    \* requests the API works on at the same time
  NoRequest,   \* a free slot of Requests
  MaxFaults    \* bound on crashes, failing statements and failing calls

VARIABLES
  byAdmin,    \* the orders whose confirmed_by is not NULL
  sbpQr,      \* sbp_qr.status, "none" before the row, "gone" after it
  payment,    \* payments.status, likewise
  bank,       \* the payment at the bank, "none" before a QR code is registered
  request,    \* what each request is doing, with what it has read
  everPaid,   \* history: the orders that turned from PENDING to PAID
  announced,  \* history: payment messages sent or queued for an order
  faults      \* history: how many faults there were

rowVars  == <<byAdmin, sbpQr, payment>>
pastVars == <<everPaid, announced, faults>>
sbpVars  == <<vars, rowVars, bank, request, pastVars>>

\* What the bank says of a payment: Received stands for InProgress as well.
BankStatuses == {"NotStarted", "Received", "Accepted", "Rejected"}

\* The stages of a request, named for the step that comes next.
Stages == {"register", "storeQr", "storePayment",
           "ask", "saveQr", "savePayment", "confirm", "announce"}

RequestStates ==
  [stage : Stages, order : Orders, event : Events,
   answer : BankStatuses \cup {"none", "REGISTERED"}]

ASSUME SbpAssumption ==
  /\ SbpOrders \subseteq Orders
  /\ MaxFaults \in Nat
  /\ NoRequest \notin RequestStates

SbpTypeOK ==
  /\ TypeOK
  /\ byAdmin \subseteq Orders
  /\ sbpQr \in [Orders -> BankStatuses \cup {"none", "REGISTERED", "gone"}]
  /\ payment \in [Orders -> {"none", "REGISTERED", "PENDING", "PAID", "FAILED",
                             "UNKNOWN", "gone"}]
  /\ bank \in [Orders -> BankStatuses \cup {"none"}]
  /\ request \in [Requests -> RequestStates \cup {NoRequest}]
  /\ everPaid \subseteq Orders
  /\ announced \in [Orders -> Nat]
  /\ faults \in 0..MaxFaults

\* Migration 018 has run: it creates sbp_qr and payments.
SbpInit ==
  /\ Init
  /\ schema = 18
  /\ byAdmin = {}
  /\ sbpQr = [o \in Orders |-> "none"]
  /\ payment = [o \in Orders |-> "none"]
  /\ bank = [o \in Orders |-> "none"]
  /\ request = [r \in Requests |-> NoRequest]
  /\ everPaid = {}
  /\ announced = [o \in Orders |-> 0]
  /\ faults = 0

-----------------------------------------------------------------------------
HasRow(o) == orderStatus[o] \notin {"none", "gone"}

\* The request r is about to take this step.
At(r, stage) == request[r] # NoRequest /\ request[r].stage = stage

GoTo(r, stage) == request' = [request EXCEPT ![r].stage = stage]

\* The handler answers its client.
Finish(r) == request' = [request EXCEPT ![r] = NoRequest]

Fault ==
  /\ faults < MaxFaults
  /\ faults' = faults + 1

-----------------------------------------------------------------------------
(***************************************************************************)
(* The bank, and the buyer in its app.                                     *)
(***************************************************************************)
\* The QR code was shown: the row of sbp_qr is or was there.
BankMoves(o) ==
  /\ \/ bank[o] = "NotStarted" /\ sbpQr[o] # "none" /\ bank' = [bank EXCEPT ![o] = "Received"]
     \/ bank[o] = "NotStarted" /\ bank' = [bank EXCEPT ![o] = "Rejected"]
     \/ bank[o] = "Received" /\ \E s \in {"Accepted", "Rejected"} : bank' = [bank EXCEPT ![o] = s]
  /\ UNCHANGED <<vars, rowVars, request, pastVars>>

-----------------------------------------------------------------------------
(***************************************************************************)
(* POST /payments/sbp/qr/create.                                           *)
(***************************************************************************)

\* The order is committed first.  A promo code may cover all of it: then the
\* client gets an error, and the order stays.
CreateSbpOrder(r, o, e, qty, c) ==
  /\ request[r] = NoRequest
  /\ o \in SbpOrders
  /\ CreateOrder(o, e, qty, c)
  /\ \/ request' = [request EXCEPT ![r] = [stage |-> "register", order |-> o,
                                           event |-> e, answer |-> "none"]]
     \/ c # NoPromo /\ UNCHANGED request
  /\ UNCHANGED <<rowVars, bank, pastVars>>

\* RegisterQRCode.  A code whose answer is lost is never shown, hence as good
\* as none.
Register(r) ==
  /\ At(r, "register")
  /\ bank' = [bank EXCEPT ![request[r].order] = "NotStarted"]
  /\ GoTo(r, "storeQr")
  /\ UNCHANGED <<vars, rowVars, pastVars>>

\* UpsertSbpQR; the foreign key refuses a row for an erased order.
StoreQr(r) ==
  LET o == request[r].order IN
  /\ At(r, "storeQr")
  /\ IF HasRow(o)
     THEN sbpQr' = [sbpQr EXCEPT ![o] = "REGISTERED"] /\ GoTo(r, "storePayment")
     ELSE UNCHANGED sbpQr /\ Finish(r)
  /\ UNCHANGED <<vars, byAdmin, payment, bank, pastVars>>

\* UpsertPayment; its failure is only logged.
StorePayment(r) ==
  LET o == request[r].order IN
  /\ At(r, "storePayment")
  /\ payment' = IF HasRow(o) THEN [payment EXCEPT ![o] = "REGISTERED"] ELSE payment
  /\ Finish(r)
  /\ UNCHANGED <<vars, byAdmin, sbpQr, bank, pastVars>>

-----------------------------------------------------------------------------
(***************************************************************************)
(* GET /payments/sbp/qr/{orderId}/status.                                  *)
(***************************************************************************)

\* The order and its QR code are read; of a paid order nothing more is asked.
ReadStatus(r, o) ==
  /\ request[r] = NoRequest
  /\ HasRow(o)
  /\ orderStatus[o] \notin SoldStatuses
  /\ sbpQr[o] \notin {"none", "gone"}
  /\ \E e \in Events :
       /\ OrderOfEvent(o, e)
       /\ request' = [request EXCEPT ![r] = [stage |-> "ask", order |-> o,
                                             event |-> e, answer |-> sbpQr[o]]]
  /\ UNCHANGED <<vars, rowVars, bank, pastVars>>

\* GetQRCodesPaymentStatus.
Ask(r) ==
  /\ At(r, "ask")
  /\ request' = [request EXCEPT ![r].stage = "saveQr", ![r].answer = bank[request[r].order]]
  /\ UNCHANGED <<vars, rowVars, bank, pastVars>>

\* The bank's list is empty: the status read from sbp_qr stands in for it.
AskEmpty(r) ==
  /\ At(r, "ask")
  /\ Fault
  /\ GoTo(r, "saveQr")
  /\ UNCHANGED <<vars, rowVars, bank, everPaid, announced>>

\* Mutant: a payment on its way counts as paid.
NormalizeReceivedPaid(s) ==
  CASE s \in {"Accepted", "Received"} -> "PAID"
    [] s = "Rejected" -> "FAILED"
    [] s = "NotStarted" -> "PENDING"
    [] OTHER -> "UNKNOWN"

\* normalizeProviderStatus.
Normalize(s) ==
  CASE s = "Accepted" -> "PAID"
    [] s = "Rejected" -> "FAILED"
    [] s \in {"NotStarted", "Received"} -> "PENDING"
    [] OTHER -> "UNKNOWN"

\* UpdateSbpQRStatus, whatever the row says meanwhile.
SaveQr(r) ==
  LET o == request[r].order IN
  /\ At(r, "saveQr")
  /\ sbpQr' = IF HasRow(o) THEN [sbpQr EXCEPT ![o] = request[r].answer] ELSE sbpQr
  /\ GoTo(r, "savePayment")
  /\ UNCHANGED <<vars, byAdmin, payment, bank, pastVars>>

\* Mutants: a payment on its way is taken for one that arrived; no payment is.
IsPaidEarly(s) == s \in {"Accepted", "Received"}
IsPaidNever(s) == s = "PAID"

\* IsPaidStatus.
IsPaid(s) == s = "Accepted"

AfterSaving(r) == IF IsPaid(request[r].answer) THEN GoTo(r, "confirm") ELSE Finish(r)

\* UpsertPayment, likewise.
SavePayment(r) ==
  LET o == request[r].order IN
  /\ At(r, "savePayment")
  /\ payment' = IF HasRow(o) THEN [payment EXCEPT ![o] = Normalize(request[r].answer)]
                ELSE payment
  /\ AfterSaving(r)
  /\ UNCHANGED <<vars, byAdmin, sbpQr, bank, pastVars>>

\* Mutant: the poll marks the order paid by itself, whatever its status.
ConfirmByBankUnchecked(r) ==
  LET o == request[r].order IN
  /\ At(r, "confirm")
  /\ IF HasRow(o)
     THEN /\ orderStatus' = [orderStatus EXCEPT ![o] = PaidStatus]
          /\ everPaid' = everPaid \cup {o}
          /\ UNCHANGED <<eventVars, productVars, promoVars, ticketVars, schema, items, orderPromo>>
     ELSE UNCHANGED <<vars, everPaid>>
  /\ Finish(r)
  /\ UNCHANGED <<rowVars, bank, announced, faults>>

\* Mutant: every confirmation that succeeds is announced, the second one too.
ConfirmByBankAlways(r) ==
  LET o == request[r].order IN
  /\ At(r, "confirm")
  /\ \/ ConfirmOrder(o) /\ everPaid' = everPaid \cup {o} /\ GoTo(r, "announce")
     \/ orderStatus[o] \notin {"PENDING"} \cup SoldStatuses
          /\ Finish(r) /\ UNCHANGED <<vars, everPaid>>
  /\ UNCHANGED <<rowVars, bank, announced, faults>>

\* ConfirmOrder refuses an order that is not there, was canceled, or has
\* become too large for the stock.
Refused(o) ==
  /\ orderStatus[o] \notin SoldStatuses
  /\ orderStatus[o] = "PENDING" => \E p \in Products : items[o][p] > 0 /\ ~HasRoom(p, items[o][p])

\* ConfirmOrder without an administrator: confirmed_by stays NULL.  Only the
\* confirmation that changed the order is announced.
ConfirmByBank(r) ==
  LET o == request[r].order IN
  /\ At(r, "confirm")
  /\ \/ ConfirmPending(o) /\ everPaid' = everPaid \cup {o} /\ GoTo(r, "announce")
     \/ ConfirmAgain(o) /\ Finish(r) /\ UNCHANGED everPaid
     \/ Refused(o) /\ Finish(r) /\ UNCHANGED <<vars, everPaid>>
  /\ UNCHANGED <<rowVars, bank, announced, faults>>

-----------------------------------------------------------------------------
(***************************************************************************)
(* POST /admin/orders/{orderId}/confirm, and what follows a confirmation.  *)
(***************************************************************************)
ConfirmByAdmin(r, o) ==
  /\ request[r] = NoRequest
  /\ \/ /\ ConfirmPending(o)
        /\ byAdmin' = byAdmin \cup {o}
        /\ everPaid' = everPaid \cup {o}
        /\ \E e \in Events :
             /\ OrderOfEvent(o, e)
             /\ request' = [request EXCEPT ![r] = [stage |-> "announce", order |-> o,
                                                   event |-> e, answer |-> "none"]]
     \/ ConfirmAgain(o) /\ UNCHANGED <<byAdmin, everPaid, request>>
  /\ UNCHANGED <<sbpQr, payment, bank, announced, faults>>

\* The message goes to the buyer's chat at once; if that fails, say because
\* the buyer has blocked the bot, a payment_confirmed job is queued for it,
\* which the foreign key refuses once the event is erased.
Announce(r) ==
  /\ At(r, "announce")
  /\ \/ announced' = [announced EXCEPT ![request[r].order] = @ + 1]
     \/ eventRow[request[r].event] = "gone" /\ UNCHANGED announced
  /\ Finish(r)
  /\ UNCHANGED <<vars, rowVars, bank, everPaid, faults>>

\* The message arrives, its answer does not: the job is queued as well.
AnnounceTwice(r) ==
  /\ At(r, "announce")
  /\ Fault
  /\ eventRow[request[r].event] = "live"
  /\ announced' = [announced EXCEPT ![request[r].order] = @ + 2]
  /\ Finish(r)
  /\ UNCHANGED <<vars, rowVars, bank, everPaid>>

-----------------------------------------------------------------------------
(***************************************************************************)
(* Faults.                                                                 *)
(***************************************************************************)

\* A statement or a call fails, or the five seconds of the request are over:
\* the answer is an error.  At "announce" either neither the message nor its
\* job went through, or the answer to the commit was lost.
StepFails(r) ==
  /\ \E s \in {"register", "storeQr", "storePayment", "ask", "confirm", "announce"} : At(r, s)
  /\ Fault
  /\ Finish(r)
  /\ UNCHANGED <<vars, rowVars, bank, everPaid, announced>>

\* While a payment status is saved, a failure is only logged.
SaveFails(r) ==
  /\ Fault
  /\ \/ At(r, "saveQr") /\ GoTo(r, "savePayment")
     \/ At(r, "savePayment") /\ AfterSaving(r)
  /\ UNCHANGED <<vars, rowVars, bank, everPaid, announced>>

\* The API ends and is started again; the requests it worked on are lost.
Crash ==
  /\ Fault
  /\ \E r \in Requests : request[r] # NoRequest
  /\ request' = [r \in Requests |-> NoRequest]
  /\ UNCHANGED <<vars, rowVars, bank, everPaid, announced>>

-----------------------------------------------------------------------------
(***************************************************************************)
(* The rest of the shop.                                                   *)
(***************************************************************************)

\* ON DELETE CASCADE of sbp_qr and payments.
Cascade ==
  LET erased(o) == orderStatus'[o] = "gone" IN
  /\ byAdmin' = {o \in byAdmin : ~erased(o)}
  /\ sbpQr' = [o \in Orders |-> IF erased(o) /\ sbpQr[o] # "none" THEN "gone" ELSE sbpQr[o]]
  /\ payment' = [o \in Orders |-> IF erased(o) /\ payment[o] # "none" THEN "gone" ELSE payment[o]]

\* Everything but the orders the bank is paid for and the confirmations.
Shop ==
  /\ \/ Catalogue
     \/ \E o \in Orders \ SbpOrders, e \in Events, qty \in Quantities, c \in Promos \cup {NoPromo} :
          CreateOrder(o, e, qty, c)
     \/ \E o \in Orders : CancelOrder(o) \/ DeleteOrder(o)
     \/ \E t \in TicketIds, scan \in qrIssued \cup {NoScan} : RedeemTicket(t, scan)
     \/ \E e \in Events : DeleteEvent(e)
  /\ Cascade
  /\ UNCHANGED <<bank, request, pastVars>>

-----------------------------------------------------------------------------
\* The next step of a request that is under way, unless a fault prevents it.
Handle(r) ==
  \/ Register(r) \/ StoreQr(r) \/ StorePayment(r)
  \/ Ask(r) \/ SaveQr(r) \/ SavePayment(r) \/ ConfirmByBank(r)
  \/ Announce(r)

Disturb(r) ==
  AskEmpty(r) \/ AnnounceTwice(r) \/ StepFails(r) \/ SaveFails(r)

Arrive(r) ==
  \/ \E o \in Orders, e \in Events, qty \in Quantities, c \in Promos \cup {NoPromo} :
       CreateSbpOrder(r, o, e, qty, c)
  \/ \E o \in Orders : ReadStatus(r, o) \/ ConfirmByAdmin(r, o)

SbpNext ==
  \/ \E r \in Requests : Arrive(r) \/ Handle(r) \/ Disturb(r)
  \/ \E o \in Orders : BankMoves(o)
  \/ Crash
  \/ Shop

SbpSpec == SbpInit /\ [][SbpNext]_sbpVars

\* Requests that are under way go on, and the app asks for the status again
\* and again until the order is paid.
SbpFairness ==
  /\ \A r \in Requests : WF_sbpVars(Handle(r))
  /\ \A o \in Orders : SF_sbpVars(\E r \in Requests : ReadStatus(r, o))

SbpFairSpec == SbpSpec /\ SbpFairness

-----------------------------------------------------------------------------
(***************************************************************************)
(* Properties.                                                             *)
(***************************************************************************)

\* No ticket without money: an order that is paid, or used, was confirmed by an
\* administrator, or the bank has accepted its payment.  No stale answer, no
\* answer left over from another poll and no empty one confirms an order.
PaidNeedsBank ==
  \A o \in Orders :
    orderStatus[o] \in SoldStatuses /\ o \notin byAdmin => bank[o] = "Accepted"

\* The books never claim money the bank has not accepted, in whichever order
\* the polls write their answers; they may lag behind.
BooksTruthful ==
  \A o \in Orders :
    sbpQr[o] = "Accepted" \/ payment[o] = "PAID" => bank[o] = "Accepted"

\* The payment messages of an order, those still to be sent included.
Messages(o) ==
  announced[o] + Cardinality({r \in Requests : At(r, "announce") /\ request[r].order = o})

\* A payment is announced once: two confirmations of the same order, by polls
\* and by administrators, send one message, and each fault loses or repeats at
\* most one.
AnnouncedOnce ==
  \A o \in Orders :
    LET owed == IF o \in everPaid THEN 1 ELSE 0 IN
    /\ Messages(o) <= owed + faults
    /\ HasRow(o) => owed <= Messages(o) + faults

\* Accepted money buys the tickets: a PENDING order whose payment the bank has
\* accepted is paid, canceled or erased, or its products are sold out.
AcceptedGetsPaid ==
  \A o \in Orders :
    bank[o] = "Accepted" /\ orderStatus[o] = "PENDING"
      ~> orderStatus[o] # "PENDING" \/ Refused(o)

\* README.md:251, "when payment is `Accepted`, backend marks order `PAID`": the
\* confirmation of a PENDING order with an accepted payment, while its products
\* are still offered, leaves it paid.
AcceptedMarksPaid ==
  [][\A r \in Requests :
       LET o == request[r].order IN
       /\ ConfirmByBank(r)
       /\ orderStatus[o] = "PENDING"
       /\ \A p \in Products : items[o][p] > 0 => productRow[p] = "live"
       => orderStatus'[o] \in SoldStatuses]_sbpVars

-----------------------------------------------------------------------------
\* What a request knows is true, and only an order's own request registers a
\* payment for it.
RequestOk(r) ==
  LET q == request[r] IN
  q # NoRequest =>
    /\ q.answer = "Accepted" => bank[q.order] = "Accepted"
    /\ q.stage = "confirm" => q.answer = "Accepted"
    /\ q.stage = "register" => orderStatus[q.order] # "none" /\ bank[q.order] = "none"

OneRegistration ==
  \A r, s \in Requests :
    /\ At(r, "register")
    /\ At(s, "register")
    /\ request[r].order = request[s].order
    => r = s

\* The inductive invariant of the payments.
BankInv ==
  /\ SbpTypeOK
  /\ PaidNeedsBank
  /\ BooksTruthful
  /\ \A r \in Requests : RequestOk(r)
  /\ OneRegistration
  /\ \A o \in Orders : orderStatus[o] = "none" => bank[o] = "none"
=============================================================================
