------------------------------ MODULE RowLocks ------------------------------
(***************************************************************************)
(* The row locks of the shop: what Ticketing takes as one step is here a   *)
(* transaction that locks one row after another, in the order of the       *)
(* statements of createOrderTx, ConfirmOrder, CancelOrder, DeleteOrder,    *)
(* RedeemTicket and DeleteEvent, and waits for those that hold them.       *)
(*                                                                         *)
(* External: PostgreSQL ends a transaction of a circle that waits for      *)
(* itself.                                                                 *)
(***************************************************************************)
EXTENDS Naturals, FiniteSets, SequencesExt

CONSTANTS
  TicketProducts,
  TransferProducts,
  Orders,
  EventRow,        \* the event of all of them
  PromoRow,        \* the promo code of all of them
  Sessions         \* transactions that may be open at the same time

\* The rows of the tickets of an order.
TicketsRow(o) == <<"tickets", o>>

\* Each kind of row has a table of its own.
ASSUME RowAssumption ==
  LET Tables == <<Orders, TicketProducts, TransferProducts, {PromoRow}, {EventRow},
                  {TicketsRow(o) : o \in Orders}>>
  IN  /\ \A m, n \in 1..6 : m # n => Tables[m] \cap Tables[n] = {}
      /\ IsFiniteSet(TicketProducts) /\ IsFiniteSet(TransferProducts)
      /\ IsFiniteSet(Orders)

VARIABLES
  itemsOf,   \* the products of each order, in the order of its items
  session    \* the transactions

lockVars == <<itemsOf, session>>

\* Mutant: without mergeSelections.
AnyOrderRepeated(S) == UNION {SetToSeqs(T) : T \in SUBSET S} \cup {<<p, p>> : p \in S}

\* Each product once, in any order: Go starts a map anywhere.  (A product in two
\* spellings of its id is merged into two entries of the map; the transaction
\* then asks for a row it holds, and waits for nobody.)
AnyOrder(S) == UNION {SetToSeqs(T) : T \in SUBSET S}

Baskets == {ts \o fs : ts \in AnyOrder(TicketProducts) \ {<< >>}, fs \in AnyOrder(TransferProducts)}

\* With the promo code or without.
Optionally(row) == {<< >>, <<row>>}

(***************************************************************************)
(* The rows each transaction locks, in order.                              *)
(***************************************************************************)
\* createOrderTx: FOR UPDATE of each product and of the promo code; the insert
\* shares the event with other orders.
CreateRows == {s \o p \o <<EventRow>> : s \in Baskets, p \in Optionally(PromoRow)}

\* ConfirmOrder: a PENDING order takes its products, and any its tickets.
ConfirmRows(o) == {<<o>> \o s \o <<TicketsRow(o)>> : s \in {<< >>, itemsOf[o]}}

\* Mutant: the promo code is given back first.
CancelRowsPromoFirst(o) ==
  {<<o>> \o p \o s : s \in {<< >>, itemsOf[o]}, p \in Optionally(PromoRow)}

\* CancelOrder: a paid order gives back its products, and any its promo code.
CancelRows(o) ==
  {<<o>> \o s \o p : s \in {<< >>, itemsOf[o]}, p \in Optionally(PromoRow)}

\* DeleteOrder: the same, and the cascade.
DeleteRows(o) == {rows \o <<TicketsRow(o)>> : rows \in CancelRows(o)}

\* RedeemTicket: a join FOR UPDATE, in the order of the planner.
RedeemRows(o) == {<<o, TicketsRow(o)>>, <<TicketsRow(o), o>>}

\* DeleteEvent: the cascades, in the order of the foreign keys.
DeleteEventRows ==
  {<<EventRow>> \o ts \o fs \o <<PromoRow>> \o SetToSeq(Orders)
     : ts \in SetToSeqs(TicketProducts), fs \in SetToSeqs(TransferProducts)}

Resting == [kind |-> "none", todo |-> << >>, held |-> {}]

LockTypeOK ==
  /\ itemsOf \in [Orders -> Baskets]
  /\ \A s \in Sessions :
       /\ session[s].kind \in
            {"none", "create", "confirm", "cancel", "delete", "redeem", "deleteEvent"}
       /\ ToSet(session[s].todo) \cap session[s].held = {}

LockInit ==
  /\ itemsOf \in [Orders -> Baskets]
  /\ session = [s \in Sessions |-> Resting]

Open(s, kind, rows) ==
  /\ session[s] = Resting
  /\ session' = [session EXCEPT ![s] = [kind |-> kind, todo |-> rows, held |-> {}]]
  /\ UNCHANGED itemsOf

BeginShop(s) ==
  \/ \E rows \in CreateRows : Open(s, "create", rows)
  \/ \E rows \in DeleteEventRows : Open(s, "deleteEvent", rows)
  \/ \E o \in Orders :
       \/ \E rows \in ConfirmRows(o) : Open(s, "confirm", rows)
       \/ \E rows \in CancelRows(o) : Open(s, "cancel", rows)
       \/ \E rows \in DeleteRows(o) : Open(s, "delete", rows)
       \/ \E rows \in RedeemRows(o) : Open(s, "redeem", rows)

\* Orders that are created share the row of their event.
Excludes(s, t, row) ==
  /\ row \in session[t].held
  /\ ~ (session[s].kind = "create" /\ session[t].kind = "create" /\ row = EventRow)

WaitsFor(s, t) ==
  /\ s # t /\ session[s].todo # << >>
  /\ Excludes(s, t, Head(session[s].todo))

LockRow(s) ==
  /\ session[s].todo # << >>
  /\ \A t \in Sessions : ~ WaitsFor(s, t)
  /\ session' = [session EXCEPT ![s].held = @ \cup {Head(session[s].todo)},
                                ![s].todo = Tail(@)]
  /\ UNCHANGED itemsOf

EndTransaction(s) == session' = [session EXCEPT ![s] = Resting] /\ UNCHANGED itemsOf

Commit(s) ==
  /\ session[s].kind # "none" /\ session[s].todo = << >>
  /\ EndTransaction(s)

\* WithTx rolls back what has failed, also the early returns.
StatementFails(s) ==
  /\ session[s].kind # "none"
  /\ EndTransaction(s)

\* Each of them waits for another of them.
Circle(S) == S # {} /\ \A s \in S : \E t \in S : WaitsFor(s, t)

BreakDeadlock(s) ==
  /\ \E S \in SUBSET Sessions : s \in S /\ Circle(S)
  /\ EndTransaction(s)

LockNext ==
  \E s \in Sessions :
    \/ BeginShop(s) \/ LockRow(s) \/ Commit(s) \/ StatementFails(s) \/ BreakDeadlock(s)

LockSpec == LockInit /\ [][LockNext]_lockVars

(***************************************************************************)
(* Properties.                                                             *)
(***************************************************************************)
\* Transactions on orders wait in a circle only over two products of a kind:
\* whatever else they lock, orders, promo code, tickets and event, comes in one
\* order in all of them.  A redemption, whose order the planner chooses, and the
\* deletion of the event may close other circles.
CirclesOverProducts ==
  \A S \in SUBSET Sessions :
    Circle(S) /\ (\A s \in S : session[s].kind \notin {"redeem", "deleteEvent"}) =>
      \E Products \in {TicketProducts, TransferProducts} :
        \E s, t \in S :
          /\ {Head(session[s].todo), Head(session[t].todo)} \subseteq Products
          /\ Head(session[s].todo) # Head(session[t].todo)
=============================================================================
