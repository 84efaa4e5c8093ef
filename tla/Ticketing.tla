----------------------------- MODULE Ticketing -----------------------------
(***************************************************************************)
(* The ticket shop of the backend: the rows of ticket_products,            *)
(* transfer_products, promo_codes, orders, order_items and tickets, and    *)
(* the transactions of internal/repository/ticketing.go that change them.  *)
(*                                                                         *)
(* Each action is one committed database transaction.  Every one of them   *)
(* takes FOR UPDATE locks on the rows it decides on before it reads them,  *)
(* so that committed transactions are serializable; a transaction that     *)
(* fails rolls back and is no step.                                        *)
(***************************************************************************)
EXTENDS Naturals, FiniteSets

CONSTANTS
  Orders,            \* the uuids of orders, each used for at most one order
  Events,            \* the events that sell tickets
  TicketProducts,    \* the uuids of ticket_products rows
  TransferProducts,  \* the uuids of transfer_products rows
  Promos,            \* the uuids of promo_codes rows
  EventOf,           \* the event_id of every product
  MaxQty,            \* bound on the quantity of one product in an order
  MaxLimit,          \* bound on inventory_limit and usage_limit
  NoPromo,           \* orders.promo_code_id IS NULL
  AnyEvent,          \* promo_codes.event_id IS NULL
  NoScan             \* a redemption by ticket id, without a QR payload

Products == TicketProducts \cup TransferProducts

\* The shop has finitely many orders at any time; ids are not shared.
ASSUME ConstantsAssumption ==
  /\ IsFiniteSet(Orders)
  /\ TicketProducts \cap TransferProducts = {}
  /\ EventOf \in [Products -> Events]
  /\ MaxQty \in Nat
  /\ MaxLimit \in Nat
  /\ NoPromo \notin Promos
  /\ AnyEvent \notin Events

VARIABLES
  eventRow,        \* "live", or "gone" once the events row is deleted
  productRow,      \* "none", "live" or "gone"
  active,          \* the products with is_active
  priced,          \* the products with price_cents > 0
  inventoryLimit,  \* inventory_limit, 0 for NULL
  soldCount,       \* sold_count
  promoRow,        \* "none", "live" or "gone"
  promoOpen,       \* the promo codes with is_active inside their time window
  promoScope,      \* promo_codes.event_id
  usageLimit,      \* usage_limit, 0 for NULL
  usedCount,       \* used_count
  schema,          \* 17 until 018_sbp_tochka_payments.up.sql has run, then 18
  orderStatus,     \* orders.status, "none" before the insert, "gone" after
  items,           \* order_items: the quantity of each product
  orderPromo,      \* orders.promo_code_id
  qrIssued,        \* the tickets whose qr_payload, hash and qr_issued_at are set
  redeemed         \* the tickets whose redeemed_at is set

eventVars   == <<eventRow>>
productVars == <<productRow, active, priced, inventoryLimit, soldCount>>
promoVars   == <<promoRow, promoOpen, promoScope, usageLimit, usedCount>>
orderVars   == <<schema, orderStatus, items, orderPromo>>
ticketVars  == <<qrIssued, redeemed>>
vars == <<eventVars, productVars, promoVars, orderVars, ticketVars>>

Quantities == [Products -> 0..MaxQty]
NoItems    == [p \in Products |-> 0]
TicketIds  == Orders \X TicketProducts \X (1..MaxQty)

\* isPaidOrderStatus: the status of a paid order, under either schema.
PaidStatuses == {"PAID", "CONFIRMED"}

\* The statuses whose units are in sold_count.
SoldStatuses == PaidStatuses \cup {"REDEEMED"}

\* The tickets of an order: one row for each unit of a ticket product.
TicketsOf(o) == {t \in TicketIds : t[1] = o /\ t[3] <= items[o][t[2]]}

\* Every item of an order is of one event, the order's event_id.
OrderOfEvent(o, e) == \E p \in Products : items[o][p] > 0 /\ EventOf[p] = e

TypeOK ==
  /\ eventRow \in [Events -> {"live", "gone"}]
  /\ productRow \in [Products -> {"none", "live", "gone"}]
  /\ active \subseteq Products
  /\ priced \subseteq Products
  /\ inventoryLimit \in [Products -> 0..MaxLimit]
  /\ soldCount \in [Products -> Nat]
  /\ promoRow \in [Promos -> {"none", "live", "gone"}]
  /\ promoOpen \subseteq Promos
  /\ promoScope \in [Promos -> Events \cup {AnyEvent}]
  /\ usageLimit \in [Promos -> 0..MaxLimit]
  /\ usedCount \in [Promos -> Nat]
  /\ schema \in {17, 18}
  /\ orderStatus \in [Orders -> {"none", "PENDING", "PAID", "CONFIRMED",
                                 "REDEEMED", "CANCELED", "gone"}]
  /\ items \in [Orders -> Quantities]
  /\ orderPromo \in [Orders -> Promos \cup {NoPromo}]
  /\ qrIssued \subseteq TicketIds
  /\ redeemed \subseteq TicketIds

Init ==
  /\ eventRow = [e \in Events |-> "live"]
  /\ productRow = [p \in Products |-> "none"]
  /\ active = {}
  /\ priced = {}
  /\ inventoryLimit = [p \in Products |-> 0]
  /\ soldCount = [p \in Products |-> 0]
  /\ promoRow = [c \in Promos |-> "none"]
  /\ promoOpen = {}
  /\ promoScope = [c \in Promos |-> AnyEvent]
  /\ usageLimit = [c \in Promos |-> 0]
  /\ usedCount = [c \in Promos |-> 0]
  /\ schema \in {17, 18}
  /\ orderStatus = [o \in Orders |-> "none"]
  /\ items = [o \in Orders |-> NoItems]
  /\ orderPromo = [o \in Orders |-> NoPromo]
  /\ qrIssued = {}
  /\ redeemed = {}

-----------------------------------------------------------------------------
(***************************************************************************)
(* The catalogue: products and promo codes.                                *)
(***************************************************************************)

\* Put x in the set S if the flag says so, take it out otherwise.
Flag(S, x, on) == IF on THEN S \cup {x} ELSE S \ {x}

\* The column after a patch: 0 stands for an absent or non-positive value,
\* which nullIntPtr turns into NULL and COALESCE into the old value.
Coalesce(old, new) == IF new = 0 THEN old ELSE new

\* CreateTicketProduct and CreateTransferProduct.
CreateProduct(p, limit, isActive, isPriced) ==
  /\ productRow[p] = "none"
  /\ eventRow[EventOf[p]] = "live"
  /\ productRow' = [productRow EXCEPT ![p] = "live"]
  /\ active' = Flag(active, p, isActive)
  /\ priced' = Flag(priced, p, isPriced)
  /\ inventoryLimit' = [inventoryLimit EXCEPT ![p] = limit]
  /\ UNCHANGED <<soldCount, eventVars, promoVars, orderVars, ticketVars>>

\* UpdateTicketProduct and UpdateTransferProduct: the limit may fall below
\* what is sold already.
UpdateProduct(p, limit, isActive, isPriced) ==
  /\ productRow[p] = "live"
  /\ active' = Flag(active, p, isActive)
  /\ priced' = Flag(priced, p, isPriced)
  /\ inventoryLimit' = [inventoryLimit EXCEPT ![p] = Coalesce(@, limit)]
  /\ UNCHANGED <<productRow, soldCount, eventVars, promoVars, orderVars, ticketVars>>

\* The rows of the products in S disappear; order_items keep the ids.
EraseProducts(S) ==
  /\ productRow' = [p \in Products |-> IF p \in S THEN "gone" ELSE productRow[p]]
  /\ active' = active \ S
  /\ priced' = priced \ S
  /\ inventoryLimit' = [p \in Products |-> IF p \in S THEN 0 ELSE inventoryLimit[p]]
  /\ soldCount' = [p \in Products |-> IF p \in S THEN 0 ELSE soldCount[p]]

\* DeleteTicketProduct and DeleteTransferProduct.
DeleteProduct(p) ==
  /\ productRow[p] = "live"
  /\ EraseProducts({p})
  /\ UNCHANGED <<eventVars, promoVars, orderVars, ticketVars>>

LiveScope(e) == e = AnyEvent \/ (e \in Events /\ eventRow[e] = "live")

CreatePromoCode(c, limit, open, scope) ==
  /\ promoRow[c] = "none"
  /\ LiveScope(scope)
  /\ promoRow' = [promoRow EXCEPT ![c] = "live"]
  /\ promoOpen' = Flag(promoOpen, c, open)
  /\ promoScope' = [promoScope EXCEPT ![c] = scope]
  /\ usageLimit' = [usageLimit EXCEPT ![c] = limit]
  /\ UNCHANGED <<usedCount, eventVars, productVars, orderVars, ticketVars>>

\* A patch cannot make a code global again: a NULL event_id is "keep".
UpdatePromoCode(c, limit, open, scope) ==
  /\ promoRow[c] = "live"
  /\ LiveScope(scope)
  /\ promoOpen' = Flag(promoOpen, c, open)
  /\ promoScope' = [promoScope EXCEPT ![c] = IF scope = AnyEvent THEN @ ELSE scope]
  /\ usageLimit' = [usageLimit EXCEPT ![c] = Coalesce(@, limit)]
  /\ UNCHANGED <<promoRow, usedCount, eventVars, productVars, orderVars, ticketVars>>

\* The clock passes active_from or active_to.
PromoWindowTurns(c) ==
  /\ promoRow[c] = "live"
  /\ promoOpen' = Flag(promoOpen, c, c \notin promoOpen)
  /\ UNCHANGED <<promoRow, promoScope, usageLimit, usedCount,
                 eventVars, productVars, orderVars, ticketVars>>

\* ON DELETE SET NULL: the orders that used the code forget it.
DeletePromoCode(c) ==
  /\ promoRow[c] = "live"
  /\ promoRow' = [promoRow EXCEPT ![c] = "gone"]
  /\ promoOpen' = promoOpen \ {c}
  /\ promoScope' = [promoScope EXCEPT ![c] = AnyEvent]
  /\ usageLimit' = [usageLimit EXCEPT ![c] = 0]
  /\ usedCount' = [usedCount EXCEPT ![c] = 0]
  /\ orderPromo' = [o \in Orders |-> IF orderPromo[o] = c THEN NoPromo ELSE orderPromo[o]]
  /\ UNCHANGED <<schema, orderStatus, items, eventVars, productVars, ticketVars>>

-----------------------------------------------------------------------------
(***************************************************************************)
(* Orders.                                                                 *)
(***************************************************************************)

\* Mutant: the last use is checked with <= instead of <.
PromoValidOneMore(c, e) ==
  /\ promoRow[c] = "live"
  /\ c \in promoOpen
  /\ usageLimit[c] > 0 => usedCount[c] <= usageLimit[c]
  /\ promoScope[c] \in {AnyEvent, e}

\* ValidatePromo, for a positive subtotal: active and in its window, not used
\* up, and of this event.
PromoValid(c, e) ==
  /\ promoRow[c] = "live"
  /\ c \in promoOpen
  /\ usageLimit[c] > 0 => usedCount[c] < usageLimit[c]
  /\ promoScope[c] \in {AnyEvent, e}

\* One more, or one less, use of a promo code whose row still exists; "less"
\* is GREATEST(0, used_count - 1).
UsePromo(c) ==
  IF c \in Promos THEN [usedCount EXCEPT ![c] = @ + 1] ELSE usedCount

ReturnPromo(c) ==
  IF c \in Promos
  THEN [usedCount EXCEPT ![c] = IF @ = 0 THEN 0 ELSE @ - 1]
  ELSE usedCount

\* CreateOrder: the merged selection qty holds a ticket, every product is an
\* active one of the event, and the subtotal is positive.  Inventory is not
\* looked at here.
CreateOrder(o, e, qty, c) ==
  /\ orderStatus[o] = "none"
  /\ eventRow[e] = "live"
  /\ \E p \in TicketProducts : qty[p] > 0
  /\ \A p \in Products : qty[p] > 0 =>
        productRow[p] = "live" /\ p \in active /\ EventOf[p] = e
  /\ \E p \in priced : qty[p] > 0
  /\ c # NoPromo => PromoValid(c, e)
  /\ usedCount' = UsePromo(c)
  /\ orderStatus' = [orderStatus EXCEPT ![o] = "PENDING"]
  /\ items' = [items EXCEPT ![o] = qty]
  /\ orderPromo' = [orderPromo EXCEPT ![o] = c]
  /\ UNCHANGED <<schema, promoRow, promoOpen, promoScope, usageLimit,
                 eventVars, productVars, ticketVars>>

\* Mutant: room is asked for one unit, whatever the item's quantity.
HasRoomForOne(p, q) ==
  /\ productRow[p] = "live"
  /\ inventoryLimit[p] > 0 => soldCount[p] < inventoryLimit[p]

\* The conditional UPDATE of sold_count finds the row and room for q units.
HasRoom(p, q) ==
  /\ productRow[p] = "live"
  /\ inventoryLimit[p] > 0 => soldCount[p] + q <= inventoryLimit[p]

\* updateOrderToPaidCompatible: PAID, or CONFIRMED where the status check of
\* migration 017 still rejects PAID.
PaidStatus == IF schema = 17 THEN "CONFIRMED" ELSE "PAID"

\* Mutant: the order is paid before its QR codes are issued.
ConfirmPendingWithoutCodes(o) ==
  /\ orderStatus[o] = "PENDING"
  /\ \A p \in Products : items[o][p] > 0 => HasRoom(p, items[o][p])
  /\ soldCount' = [p \in Products |-> soldCount[p] + items[o][p]]
  /\ orderStatus' = [orderStatus EXCEPT ![o] = PaidStatus]
  /\ UNCHANGED <<productRow, active, priced, inventoryLimit, schema, items,
                 orderPromo, ticketVars, eventVars, promoVars>>

\* ConfirmOrder of a PENDING order: the units are taken, the order is paid.
ConfirmPending(o) ==
  /\ orderStatus[o] = "PENDING"
  /\ \A p \in Products : items[o][p] > 0 => HasRoom(p, items[o][p])
  /\ soldCount' = [p \in Products |-> soldCount[p] + items[o][p]]
  /\ orderStatus' = [orderStatus EXCEPT ![o] = PaidStatus]
  /\ qrIssued' = qrIssued \cup TicketsOf(o)
  /\ UNCHANGED <<productRow, active, priced, inventoryLimit, schema, items,
                 orderPromo, redeemed, eventVars, promoVars>>

\* ConfirmOrder of an order that is paid already only completes its QR codes.
ConfirmAgain(o) ==
  /\ orderStatus[o] \in SoldStatuses
  /\ qrIssued' = qrIssued \cup TicketsOf(o)
  /\ UNCHANGED <<redeemed, eventVars, productVars, promoVars, orderVars>>

ConfirmOrder(o) == ConfirmPending(o) \/ ConfirmAgain(o)

\* sold_count after the units of an order are given back: GREATEST(0, ...),
\* and only where the product row still exists.
GiveBack(o) ==
  [p \in Products |->
     IF productRow[p] # "live" THEN soldCount[p]
     ELSE IF soldCount[p] < items[o][p] THEN 0
     ELSE soldCount[p] - items[o][p]]

\* Mutant: a used order can be canceled too.
CancelOrderUsed(o) ==
  /\ orderStatus[o] \in {"PENDING"} \cup SoldStatuses
  /\ soldCount' = IF orderStatus[o] \in SoldStatuses THEN GiveBack(o) ELSE soldCount
  /\ usedCount' = ReturnPromo(orderPromo[o])
  /\ orderStatus' = [orderStatus EXCEPT ![o] = "CANCELED"]
  /\ UNCHANGED <<productRow, active, priced, inventoryLimit, promoRow, promoOpen,
                 promoScope, usageLimit, schema, items, orderPromo,
                 eventVars, ticketVars>>

\* CancelOrder.  The tickets keep their QR codes and redemptions.
CancelOrder(o) ==
  /\ orderStatus[o] \in {"PENDING"} \cup PaidStatuses
  /\ soldCount' = IF orderStatus[o] \in PaidStatuses THEN GiveBack(o) ELSE soldCount
  /\ usedCount' = ReturnPromo(orderPromo[o])
  /\ orderStatus' = [orderStatus EXCEPT ![o] = "CANCELED"]
  /\ UNCHANGED <<productRow, active, priced, inventoryLimit, promoRow, promoOpen,
                 promoScope, usageLimit, schema, items, orderPromo,
                 eventVars, ticketVars>>

\* The rows of the orders in S disappear, with their items and tickets.
EraseOrders(S) ==
  /\ orderStatus' = [o \in Orders |-> IF o \in S THEN "gone" ELSE orderStatus[o]]
  /\ items' = [o \in Orders |-> IF o \in S THEN NoItems ELSE items[o]]
  /\ orderPromo' = [o \in Orders |-> IF o \in S THEN NoPromo ELSE orderPromo[o]]
  /\ qrIssued' = {t \in qrIssued : t[1] \notin S}
  /\ redeemed' = {t \in redeemed : t[1] \notin S}

\* Mutant: deleting a used order forgets to give its units back.
DeleteOrderUsedKept(o) ==
  /\ orderStatus[o] \notin {"none", "gone"}
  /\ soldCount' = IF orderStatus[o] \in PaidStatuses THEN GiveBack(o) ELSE soldCount
  /\ usedCount' = IF orderStatus[o] = "CANCELED" THEN usedCount
                  ELSE ReturnPromo(orderPromo[o])
  /\ EraseOrders({o})
  /\ UNCHANGED <<schema, productRow, active, priced, inventoryLimit, promoRow,
                 promoOpen, promoScope, usageLimit, eventVars>>

\* DeleteOrder gives back what the order still holds.
DeleteOrder(o) ==
  /\ orderStatus[o] \notin {"none", "gone"}
  /\ soldCount' = IF orderStatus[o] \in SoldStatuses THEN GiveBack(o) ELSE soldCount
  /\ usedCount' = IF orderStatus[o] = "CANCELED" THEN usedCount
                  ELSE ReturnPromo(orderPromo[o])
  /\ EraseOrders({o})
  /\ UNCHANGED <<schema, productRow, active, priced, inventoryLimit, promoRow,
                 promoOpen, promoScope, usageLimit, eventVars>>

\* Mutant: the unused tickets are counted before this one is marked.
RedeemTicketStaleCount(t, scan) ==
  LET o == t[1] IN
  /\ t \in TicketsOf(o)
  /\ t \notin redeemed
  /\ orderStatus[o] \in SoldStatuses
  /\ scan # NoScan => scan = t
  /\ redeemed' = redeemed \cup {t}
  /\ orderStatus' = [orderStatus EXCEPT ![o] =
        IF TicketsOf(o) \subseteq redeemed THEN "REDEEMED" ELSE @]
  /\ UNCHANGED <<qrIssued, schema, items, orderPromo,
                 eventVars, productVars, promoVars>>

\* RedeemTicket: the scanned payload, when there is one, was issued for this
\* very ticket.  The last ticket turns the order REDEEMED.
RedeemTicket(t, scan) ==
  LET o == t[1] IN
  /\ t \in TicketsOf(o)
  /\ t \notin redeemed
  /\ orderStatus[o] \in SoldStatuses
  /\ scan # NoScan => scan = t
  /\ redeemed' = redeemed \cup {t}
  /\ orderStatus' = [orderStatus EXCEPT ![o] =
        IF TicketsOf(o) \subseteq redeemed' THEN "REDEEMED" ELSE @]
  /\ UNCHANGED <<qrIssued, schema, items, orderPromo,
                 eventVars, productVars, promoVars>>

\* DeleteEvent: the cascade erases the event's products and orders and leaves
\* its promo codes without an event.
DeleteEvent(e) ==
  /\ eventRow[e] = "live"
  /\ eventRow' = [eventRow EXCEPT ![e] = "gone"]
  /\ EraseProducts({p \in Products : EventOf[p] = e /\ productRow[p] = "live"})
  /\ promoScope' = [c \in Promos |-> IF promoScope[c] = e THEN AnyEvent ELSE promoScope[c]]
  /\ EraseOrders({o \in Orders : OrderOfEvent(o, e)})
  /\ UNCHANGED <<schema, promoRow, promoOpen, usageLimit, usedCount>>

\* Migration 018 renames the paid status and forbids the old name.
MigrateTo18 ==
  /\ schema = 17
  /\ schema' = 18
  /\ orderStatus' = [o \in Orders |->
        IF orderStatus[o] = "CONFIRMED" THEN "PAID" ELSE orderStatus[o]]
  /\ UNCHANGED <<items, orderPromo, eventVars, productVars, promoVars, ticketVars>>

-----------------------------------------------------------------------------
Catalogue ==
  \/ \E p \in Products : DeleteProduct(p)
  \/ \E p \in Products, limit \in 0..MaxLimit, isActive, isPriced \in BOOLEAN :
       CreateProduct(p, limit, isActive, isPriced) \/ UpdateProduct(p, limit, isActive, isPriced)
  \/ \E c \in Promos : PromoWindowTurns(c) \/ DeletePromoCode(c)
  \/ \E c \in Promos, limit \in 0..MaxLimit, open \in BOOLEAN, scope \in Events \cup {AnyEvent} :
       CreatePromoCode(c, limit, open, scope) \/ UpdatePromoCode(c, limit, open, scope)

Sales ==
  \/ \E o \in Orders, e \in Events, qty \in Quantities, c \in Promos \cup {NoPromo} :
       CreateOrder(o, e, qty, c)
  \/ \E o \in Orders : ConfirmOrder(o) \/ CancelOrder(o) \/ DeleteOrder(o)
  \/ \E t \in TicketIds, scan \in qrIssued \cup {NoScan} : RedeemTicket(t, scan)

Next ==
  \/ Catalogue
  \/ Sales
  \/ \E e \in Events : DeleteEvent(e)
  \/ MigrateTo18

Spec == Init /\ [][Next]_vars
-----------------------------------------------------------------------------
(***************************************************************************)
(* What the shop must get right.                                           *)
(***************************************************************************)

\* The units of a product that orders hold: paid or redeemed, not canceled.
SoldUnits(p) ==
  {u \in Orders \X (1..MaxQty) :
     orderStatus[u[1]] \in SoldStatuses /\ u[2] <= items[u[1]][p]}

\* The orders that hold a use of a promo code.
PromoUses(c) ==
  {o \in Orders : orderPromo[o] = c /\ orderStatus[o] \notin {"CANCELED", "gone"}}

\* sold_count of a product is the number of units its paid orders hold, after
\* any sequence of confirmations, cancellations, deletions and redemptions: no
\* path takes units twice or gives them back twice, and GREATEST(0, ...) never
\* hides a difference.
SoldCountExact ==
  \A p \in Products :
    productRow[p] = "live" => soldCount[p] = Cardinality(SoldUnits(p))

\* used_count of a promo code counts every order that holds it, and only them
\* as long as no event was deleted; the cascade of a deleted event erases
\* orders without returning their uses.
PromoUseCounted ==
  \A c \in Promos :
    promoRow[c] = "live" =>
      /\ usedCount[c] >= Cardinality(PromoUses(c))
      /\ (\A e \in Events : eventRow[e] = "live") =>
            usedCount[c] = Cardinality(PromoUses(c))

\* An order is REDEEMED exactly when it is sold and every ticket of it was
\* used: RedeemTicket neither forgets the last ticket nor closes an order early.
RedeemedIffAllUsed ==
  \A o \in Orders :
    orderStatus[o] \in SoldStatuses =>
      (orderStatus[o] = "REDEEMED" <=> TicketsOf(o) \subseteq redeemed)

\* Every ticket of a sold order has its QR code, and a ticket that has one or
\* was used is a ticket of an order that was paid.
QrFollowsPayment ==
  /\ \A o \in Orders : orderStatus[o] \in SoldStatuses => TicketsOf(o) \subseteq qrIssued
  /\ \A t \in qrIssued \cup redeemed :
       t \in TicketsOf(t[1]) /\ orderStatus[t[1]] \in SoldStatuses \cup {"CANCELED"}

\* Every order has a status that the schema in force knows: an order that was
\* paid before migration 018, or whose payment was under way when it came, does
\* not keep the old spelling, and no payment writes the new one before it.
SpelledBySchema ==
  \A o \in Orders : orderStatus[o] # IF schema = 17 THEN "PAID" ELSE "CONFIRMED"

\* No payment ever sells more than the inventory limit in force: whenever the
\* units orders hold of a product grow, they are within its limit afterwards.
NoOversell ==
  [][\A p \in Products :
       Cardinality(SoldUnits(p)') > Cardinality(SoldUnits(p)) =>
         /\ productRow[p] = "live"
         /\ inventoryLimit[p] > 0 => Cardinality(SoldUnits(p)') <= inventoryLimit[p]]_vars

\* No order takes a promo code beyond its usage limit: whenever one more order
\* holds the code, the orders that hold it are within the limit in force.
PromoCapHeld ==
  [][\A c \in Promos :
       Cardinality(PromoUses(c)') > Cardinality(PromoUses(c)) =>
         (usageLimit[c] = 0 \/ Cardinality(PromoUses(c)') <= usageLimit[c])]_vars

\* The rows of one order belong together: it holds nothing before it is placed
\* and after it is erased, at least one ticket in between, products of one
\* event that all were created, and a promo code only while its row exists.
OrderWellFormed(o) ==
  /\ orderStatus[o] \in {"none", "gone"} => items[o] = NoItems /\ orderPromo[o] = NoPromo
  /\ orderStatus[o] \notin {"none", "gone"} => TicketsOf(o) # {}
  /\ \A p \in Products : items[o][p] > 0 =>
        /\ productRow[p] # "none"
        /\ \A q \in Products : items[o][q] > 0 => EventOf[q] = EventOf[p]
  /\ orderPromo[o] \in Promos => promoRow[orderPromo[o]] = "live"

\* The inductive invariant: the properties above hold together with the shape
\* of the rows they count.
IInv ==
  /\ TypeOK
  /\ \A o \in Orders : OrderWellFormed(o)
  /\ \A p \in Products : productRow[p] = "none" => soldCount[p] = 0
  /\ \A c \in Promos : promoRow[c] = "none" => usedCount[c] = 0
  /\ SoldCountExact
  /\ PromoUseCounted
  /\ RedeemedIffAllUsed
  /\ QrFollowsPayment
  /\ SpelledBySchema

-----------------------------------------------------------------------------
(***************************************************************************)
(* The shop implements the ledger.                                         *)
(***************************************************************************)
LedgerPhase(status) ==
  CASE status = "PENDING"       -> "open"
    [] status \in PaidStatuses  -> "paid"
    [] status = "REDEEMED"      -> "used"
    [] status = "CANCELED"      -> "void"
    [] OTHER                    -> status

Ledger == INSTANCE TicketLedger WITH
  Tickets  <- TicketIds,
  phase    <- [o \in Orders |-> LedgerPhase(orderStatus[o])],
  holds    <- [o \in Orders |-> TicketsOf(o)],
  admitted <- redeemed

\* The life of orders and tickets is the ledger's: CONFIRMED and PAID are one
\* phase, the catalogue and the counters are invisible.
ImplementsLedger == Ledger!Spec
=============================================================================
