---------------------------- MODULE Transactions ----------------------------
(***************************************************************************)
(* The transactions of the shop, statement by statement: createOrderTx,    *)
(* ConfirmOrder, CancelOrder, DeleteOrder and RedeemTicket of              *)
(* internal/repository/ticketing.go, run by WithTx at READ COMMITTED.      *)
(*                                                                         *)
(* The variables of Ticketing are what is committed.  A transaction locks  *)
(* rows one after another, reads each when it locks it, keeps what it has  *)
(* read and its own versions of the rows, and installs them when it        *)
(* commits; whoever needs a row that it has locked waits.  The rows of     *)
(* order_items and tickets are locked only by who has, or will have, the   *)
(* row of their order, which stands for them.                              *)
(*                                                                         *)
(* External: PostgreSQL; a statement outside of these transactions is one  *)
(* of its own, cascades included, and waits for all the rows it touches.   *)
(***************************************************************************)
EXTENDS Ticketing

CONSTANT
  Sessions   \* the connections that may have a transaction open

VARIABLES
  txn,     \* what each transaction was asked for and has read at first
  step,    \* which of its statements are behind it
  taken,   \* the products it is through with, their rows locked
  sold,    \* sold_count in its versions of these rows
  used,    \* used_count in its version of the row of its promo code
  draft    \* what its last statements make of the order and its tickets

sessionVars == <<txn, step, taken, sold, used, draft>>
txnVars == <<vars, sessionVars>>

\* The first statement is followed by the products, the promo code and the last
\* statements; "end" is a commit that others see, its locks not yet released.
Steps == {"rest", "products", "promo", "commit", "end"}

Statuses == {"none", "PENDING", "PAID", "CONFIRMED", "REDEEMED", "CANCELED", "gone"}

TxnRecords ==
  [kind : {"create", "confirm", "cancel", "delete", "redeem"}, order : Orders,
   event : Events \cup {AnyEvent}, qty : Quantities, code : Promos \cup {NoPromo},
   seen : Statuses, tickets : SUBSET TicketIds]

NoTxn   == [kind |-> "none"]
NoDraft == [status |-> "none", tickets |-> {}]

TxnTypeOK ==
  /\ txn \in [Sessions -> TxnRecords \cup {NoTxn}]
  /\ step \in [Sessions -> Steps]
  /\ \A s \in Sessions : step[s] # "rest" => txn[s] \in TxnRecords
  /\ taken \in [Sessions -> SUBSET Products]
  /\ sold \in [Sessions -> [Products -> Nat]]
  /\ used \in [Sessions -> Nat]
  /\ draft \in [Sessions -> [status : Statuses, tickets : SUBSET TicketIds]]

TxnInit ==
  /\ Init
  /\ txn = [s \in Sessions |-> NoTxn]
  /\ step = [s \in Sessions |-> "rest"]
  /\ taken = [s \in Sessions |-> {}]
  /\ sold = [s \in Sessions |-> NoItems]
  /\ used = [s \in Sessions |-> 0]
  /\ draft = [s \in Sessions |-> NoDraft]

-----------------------------------------------------------------------------
(***************************************************************************)
(* The locks: what a session holds follows from the steps behind it.       *)
(***************************************************************************)
Open(s, kind) == step[s] # "rest" /\ txn[s].kind = kind

\* FOR UPDATE, by the first statement of all but createOrderTx.
OrderLocked(o) ==
  \E s \in Sessions : step[s] # "rest" /\ txn[s].kind # "create" /\ txn[s].order = o

\* FOR UPDATE, or the UPDATE of sold_count; there is no lock without a row.
ProductLocked(p) == \E s \in Sessions : p \in taken[s] /\ productRow[p] = "live"

HoldsPromo(s, c) == step[s] \in {"promo", "commit", "end"} /\ txn[s].code = c
PromoLocked(c) == \E s \in Sessions : HoldsPromo(s, c)

\* The foreign key of an inserted order keeps its event from being deleted.
EventLocked(e) ==
  \E s \in Sessions :
    Open(s, "create") /\ step[s] \in {"commit", "end"} /\ txn[s].event = e

-----------------------------------------------------------------------------
(***************************************************************************)
(* The first statement of a transaction.                                   *)
(***************************************************************************)
Begin(s, t) ==
  /\ step[s] = "rest"
  /\ txn' = [txn EXCEPT ![s] = t]
  /\ step' = [step EXCEPT ![s] = "products"]
  /\ UNCHANGED <<vars, taken, sold, used, draft>>

\* createOrderTx sees that the event exists, without a lock; the order will
\* have an id of its own.
BeginCreate(s, o, e, qty, c) ==
  /\ orderStatus[o] = "none"
  /\ \A r \in Sessions : Open(r, "create") => txn[r].order # o
  /\ eventRow[e] = "live"
  /\ \E p \in TicketProducts : qty[p] > 0
  /\ Begin(s, [kind |-> "create", order |-> o, event |-> e, qty |-> qty, code |-> c,
               seen |-> "none", tickets |-> {}])

\* SELECT ... FROM orders ... FOR UPDATE reads the status and the promo code; the
\* items that follow, where they are needed, cannot change under that lock.
LockOrder(s, kind, o, qty, code, tickets) ==
  /\ ~OrderLocked(o)
  /\ Begin(s, [kind |-> kind, order |-> o, event |-> AnyEvent, qty |-> qty, code |-> code,
               seen |-> orderStatus[o], tickets |-> tickets])

BeginConfirm(s, o) ==
  /\ orderStatus[o] \in {"PENDING"} \cup SoldStatuses
  /\ LockOrder(s, "confirm", o, IF orderStatus[o] = "PENDING" THEN items[o] ELSE NoItems,
               NoPromo, {})

\* Mutant: the status is read without FOR UPDATE.
BeginCancelUnlocked(s, o) ==
  /\ orderStatus[o] \in {"PENDING"} \cup PaidStatuses
  /\ Begin(s, [kind |-> "cancel", order |-> o, event |-> AnyEvent,
               qty |-> IF orderStatus[o] \in PaidStatuses THEN items[o] ELSE NoItems,
               code |-> orderPromo[o], seen |-> orderStatus[o], tickets |-> {}])

BeginCancel(s, o) ==
  /\ orderStatus[o] \in {"PENDING"} \cup PaidStatuses
  /\ LockOrder(s, "cancel", o, IF orderStatus[o] \in PaidStatuses THEN items[o] ELSE NoItems,
               orderPromo[o], {})

\* Mutant: deleting a canceled order returns its promo use a second time.
BeginDeleteReturnsTwice(s, o) ==
  /\ orderStatus[o] \notin {"none", "gone"}
  /\ LockOrder(s, "delete", o, IF orderStatus[o] \in SoldStatuses THEN items[o] ELSE NoItems,
               orderPromo[o], {})

BeginDelete(s, o) ==
  /\ orderStatus[o] \notin {"none", "gone"}
  /\ LockOrder(s, "delete", o, IF orderStatus[o] \in SoldStatuses THEN items[o] ELSE NoItems,
               IF orderStatus[o] = "CANCELED" THEN NoPromo ELSE orderPromo[o], {})

\* The join of the ticket and its order, FOR UPDATE, and the checks of both.
BeginRedeem(s, t, scan) ==
  /\ t \in TicketsOf(t[1])
  /\ t \notin redeemed
  /\ orderStatus[t[1]] \in SoldStatuses
  /\ scan # NoScan => scan = t
  /\ LockOrder(s, "redeem", t[1], NoItems, NoPromo, {t})

-----------------------------------------------------------------------------
(***************************************************************************)
(* The products, one after another, tickets before transfers; which of a   *)
(* kind comes first is up to the Go map of the order that was created.     *)
(***************************************************************************)
Turn(s, p) ==
  /\ step[s] = "products"
  /\ txn[s].qty[p] > 0
  /\ p \notin taken[s]
  /\ p \in TransferProducts => \A q \in TicketProducts : txn[s].qty[q] > 0 => q \in taken[s]
  /\ ~ProductLocked(p)
  /\ taken' = [taken EXCEPT ![s] = @ \cup {p}]
  /\ UNCHANGED <<vars, txn, step, used, draft>>

\* createOrderTx: an active product of the event.
CheckProduct(s, p) ==
  /\ txn[s].kind = "create"
  /\ productRow[p] = "live" /\ p \in active /\ EventOf[p] = txn[s].event
  /\ Turn(s, p)
  /\ UNCHANGED sold

\* ConfirmOrder: the conditional UPDATE, which looks at the limit under the lock.
TakeUnits(s, p) ==
  /\ txn[s].kind = "confirm"
  /\ HasRoom(p, txn[s].qty[p])
  /\ Turn(s, p)
  /\ sold' = [sold EXCEPT ![s][p] = soldCount[p] + txn[s].qty[p]]

\* GREATEST(0, n - q)
Less(n, q) == IF n < q THEN 0 ELSE n - q

\* CancelOrder and DeleteOrder: the UPDATE, which may find no row any more.
GiveUnits(s, p) ==
  /\ txn[s].kind \in {"cancel", "delete"}
  /\ Turn(s, p)
  /\ sold' = [sold EXCEPT ![s][p] = Less(soldCount[p], txn[s].qty[p])]

AllTaken(s) == \A p \in Products : txn[s].qty[p] > 0 => p \in taken[s]

-----------------------------------------------------------------------------
(***************************************************************************)
(* The promo code.                                                         *)
(***************************************************************************)
LockPromo(s, count) ==
  /\ step[s] = "products" /\ AllTaken(s)
  /\ ~PromoLocked(txn[s].code)
  /\ used' = [used EXCEPT ![s] = count]
  /\ step' = [step EXCEPT ![s] = "promo"]
  /\ UNCHANGED <<vars, txn, taken, sold, draft>>

\* The subtotal is positive, by prices read under the locks of the products.
Payable(s) == \E p \in priced : txn[s].qty[p] > 0

\* SELECT ... FOR UPDATE, ValidatePromo with the time of now, and the UPDATE.
UseCode(s) ==
  /\ Open(s, "create") /\ Payable(s)
  /\ txn[s].code \in Promos /\ PromoValid(txn[s].code, txn[s].event)
  /\ LockPromo(s, usedCount[txn[s].code] + 1)

ReturnCode(s) ==
  /\ Open(s, "cancel") \/ Open(s, "delete")
  /\ txn[s].code \in Promos
  /\ LockPromo(s, Less(usedCount[txn[s].code], 1))

-----------------------------------------------------------------------------
(***************************************************************************)
(* The last statements, on the order and its tickets, which are the        *)
(* transaction's own by now; an insert also needs the event.               *)
(***************************************************************************)
LastStatements(s, kind, status, tickets) ==
  /\ Open(s, kind)
  /\ AllTaken(s)
  /\ step[s] = IF txn[s].code \in Promos THEN "promo" ELSE "products"
  /\ draft' = [draft EXCEPT ![s] = [status |-> status, tickets |-> tickets]]
  /\ step' = [step EXCEPT ![s] = "commit"]
  /\ UNCHANGED <<vars, txn, taken, sold, used>>

InsertOrder(s) ==
  /\ Open(s, "create") /\ Payable(s)
  /\ eventRow[txn[s].event] = "live"
  /\ LastStatements(s, "create", "PENDING", {})

\* updateOrderToPaidCompatible of a PENDING order, and the missing QR codes.
MarkPaid(s) ==
  LastStatements(s, "confirm", IF txn[s].seen = "PENDING" THEN PaidStatus ELSE txn[s].seen,
                 TicketsOf(txn[s].order) \ qrIssued)

MarkCanceled(s) == LastStatements(s, "cancel", "CANCELED", {})

EraseRow(s) == LastStatements(s, "delete", "gone", {})

\* The ticket is marked, then those that are left are counted.
MarkUsed(s) ==
  LastStatements(s, "redeem",
    IF TicketsOf(txn[s].order) \subseteq redeemed \cup txn[s].tickets THEN "REDEEMED"
    ELSE txn[s].seen,
    txn[s].tickets)

-----------------------------------------------------------------------------
(***************************************************************************)
(* The end.                                                                *)
(***************************************************************************)
\* The versions of the transaction become the rows everybody sees.
Commit(s, kind) ==
  LET o == txn[s].order IN
  /\ Open(s, kind) /\ step[s] = "commit"
  /\ step' = [step EXCEPT ![s] = "end"]
  /\ orderStatus' = [orderStatus EXCEPT ![o] = draft[s].status]
  /\ soldCount' = [p \in Products |->
        IF kind # "create" /\ p \in taken[s] /\ productRow[p] = "live"
        THEN sold[s][p] ELSE soldCount[p]]
  /\ usedCount' = IF txn[s].code \in Promos
                  THEN [usedCount EXCEPT ![txn[s].code] = used[s]] ELSE usedCount
  /\ UNCHANGED <<eventVars, productRow, active, priced, inventoryLimit, promoRow, promoOpen,
                 promoScope, usageLimit, schema, txn, taken, sold, used, draft>>

CommitCreate(s) ==
  /\ Commit(s, "create")
  /\ items' = [items EXCEPT ![txn[s].order] = txn[s].qty]
  /\ orderPromo' = [orderPromo EXCEPT ![txn[s].order] = txn[s].code]
  /\ UNCHANGED ticketVars

CommitConfirm(s) ==
  /\ Commit(s, "confirm")
  /\ qrIssued' = qrIssued \cup draft[s].tickets
  /\ UNCHANGED <<items, orderPromo, redeemed>>

CommitCancel(s) == Commit(s, "cancel") /\ UNCHANGED <<items, orderPromo, ticketVars>>

CommitDelete(s) ==
  LET o == txn[s].order IN
  /\ Commit(s, "delete")
  /\ items' = [items EXCEPT ![o] = NoItems]
  /\ orderPromo' = [orderPromo EXCEPT ![o] = NoPromo]
  /\ qrIssued' = {t \in qrIssued : t[1] # o}
  /\ redeemed' = {t \in redeemed : t[1] # o}

CommitRedeem(s) ==
  /\ Commit(s, "redeem")
  /\ redeemed' = redeemed \cup draft[s].tickets
  /\ UNCHANGED <<items, orderPromo, qrIssued>>

Forget(s) ==
  /\ txn' = [txn EXCEPT ![s] = NoTxn]
  /\ step' = [step EXCEPT ![s] = "rest"]
  /\ taken' = [taken EXCEPT ![s] = {}]
  /\ sold' = [sold EXCEPT ![s] = NoItems]
  /\ used' = [used EXCEPT ![s] = 0]
  /\ draft' = [draft EXCEPT ![s] = NoDraft]
  /\ UNCHANGED vars

Release(s) == step[s] = "end" /\ Forget(s)

\* An early return, a failing statement, a deadlock, or a connection that is lost.
Rollback(s) == step[s] \in {"products", "promo", "commit"} /\ Forget(s)

-----------------------------------------------------------------------------
(***************************************************************************)
(* Single statements wait until the rows they touch are free.  The clock   *)
(* waits for nobody, and the migration for all who have used orders.       *)
(***************************************************************************)
SingleProduct(p) ==
  \/ \E limit \in 0..MaxLimit, isActive, isPriced \in BOOLEAN :
       \/ CreateProduct(p, limit, isActive, isPriced)
       \/ ~ProductLocked(p) /\ UpdateProduct(p, limit, isActive, isPriced)
  \/ ~ProductLocked(p) /\ DeleteProduct(p)

SinglePromo(c) ==
  \/ \E limit \in 0..MaxLimit, open \in BOOLEAN, scope \in Events \cup {AnyEvent} :
       \/ CreatePromoCode(c, limit, open, scope)
       \/ ~PromoLocked(c) /\ UpdatePromoCode(c, limit, open, scope)
  \/ /\ ~PromoLocked(c) /\ \A o \in Orders : orderPromo[o] = c => ~OrderLocked(o)
     /\ DeletePromoCode(c)
  \/ PromoWindowTurns(c)

SingleEvent(e) ==
  /\ ~EventLocked(e)
  /\ \A p \in Products : EventOf[p] = e => ~ProductLocked(p)
  /\ \A c \in Promos : promoScope[c] = e => ~PromoLocked(c)
  /\ \A o \in Orders : OrderOfEvent(o, e) => ~OrderLocked(o)
  /\ DeleteEvent(e)

\* Mutant: without the ALTER TABLE, which waits for those who use the table.
MigrationUnlocked == MigrateTo18

Migration ==
  /\ \A s \in Sessions : step[s] = "rest" \/ (Open(s, "create") /\ step[s] \in {"products", "promo"})
  /\ MigrateTo18

Single ==
  /\ \/ \E p \in Products : SingleProduct(p)
     \/ \E c \in Promos : SinglePromo(c)
     \/ \E e \in Events : SingleEvent(e)
     \/ Migration
  /\ UNCHANGED sessionVars

Starts(s) ==
  \/ \E o \in Orders, e \in Events, qty \in Quantities, c \in Promos \cup {NoPromo} :
       BeginCreate(s, o, e, qty, c)
  \/ \E o \in Orders : BeginConfirm(s, o) \/ BeginCancel(s, o) \/ BeginDelete(s, o)
  \/ \E t \in TicketIds, scan \in qrIssued \cup {NoScan} : BeginRedeem(s, t, scan)

Proceeds(s) ==
  \/ \E p \in Products : CheckProduct(s, p) \/ TakeUnits(s, p) \/ GiveUnits(s, p)
  \/ UseCode(s) \/ ReturnCode(s)
  \/ InsertOrder(s) \/ MarkPaid(s) \/ MarkCanceled(s) \/ EraseRow(s) \/ MarkUsed(s)

Commits(s) ==
  CommitCreate(s) \/ CommitConfirm(s) \/ CommitCancel(s) \/ CommitDelete(s) \/ CommitRedeem(s)

TxnNext ==
  \/ \E s \in Sessions : Starts(s) \/ Proceeds(s) \/ Commits(s) \/ Release(s) \/ Rollback(s)
  \/ Single

TxnSpec == TxnInit /\ [][TxnNext]_txnVars

-----------------------------------------------------------------------------
(***************************************************************************)
(* Properties.                                                             *)
(***************************************************************************)
\* A code counts as open from when an order has found it so until that order's
\* transaction has ended, even if its window closes in between.
OpenAtCommit ==
  promoOpen \cup {c \in Promos : \E s \in Sessions : Open(s, "create") /\ HoldsPromo(s, c)}

AtCommit == INSTANCE Ticketing WITH promoOpen <- OpenAtCommit

\* However their statements interleave, every transaction takes effect as one
\* step of Ticketing, at its commit: what it has read is still so by then.
CommitsAtOnce == AtCommit!Spec
=============================================================================
