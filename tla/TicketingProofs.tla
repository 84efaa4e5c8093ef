-------------------------- MODULE TicketingProofs --------------------------
(***************************************************************************)
(* Theorems about Ticketing, for every set of orders, events, products and *)
(* promo codes and every bound on quantities and limits.                   *)
(***************************************************************************)
EXTENDS Ticketing, FiniteSetTheorems, TLAPS

-----------------------------------------------------------------------------
(***************************************************************************)
(* Types.                                                                  *)
(***************************************************************************)

\* The counters after units, or a use of a promo code, are given back.
LEMMA GiveBackType ==
  ASSUME TypeOK, NEW o \in Orders
  PROVE  GiveBack(o) \in [Products -> Nat]
<1>1. ASSUME NEW p \in Products
      PROVE  soldCount[p] \in Nat /\ items[o][p] \in 0..MaxQty
  BY DEF TypeOK, Quantities
<1>. QED
  BY <1>1, ConstantsAssumption DEF GiveBack

LEMMA ReturnPromoType ==
  ASSUME TypeOK, NEW c
  PROVE  ReturnPromo(c) \in [Promos -> Nat]
  BY DEF ReturnPromo, TypeOK

\* Erasing rows keeps the types of the columns it touches.
LEMMA EraseProductsType ==
  ASSUME TypeOK, NEW S, EraseProducts(S)
  PROVE  /\ productRow' \in [Products -> {"none", "live", "gone"}]
         /\ active' \subseteq Products
         /\ priced' \subseteq Products
         /\ inventoryLimit' \in [Products -> 0..MaxLimit]
         /\ soldCount' \in [Products -> Nat]
  BY ConstantsAssumption DEF EraseProducts, TypeOK

LEMMA EraseOrdersType ==
  ASSUME TypeOK, NEW S, EraseOrders(S)
  PROVE  /\ orderStatus' \in [Orders -> {"none", "PENDING", "PAID", "CONFIRMED",
                                         "REDEEMED", "CANCELED", "gone"}]
         /\ items' \in [Orders -> Quantities]
         /\ orderPromo' \in [Orders -> Promos \cup {NoPromo}]
         /\ qrIssued' \subseteq TicketIds
         /\ redeemed' \subseteq TicketIds
<1>1. NoItems \in Quantities
  BY ConstantsAssumption DEF NoItems, Quantities
<1>. QED
  BY <1>1 DEF EraseOrders, TypeOK

\* Every step keeps every column within its type.
LEMMA TypeStep ==
  ASSUME TypeOK, [Next]_vars
  PROVE  TypeOK'
<1>. USE ConstantsAssumption DEF Products, Quantities
<1>. USE DEF TypeOK, eventVars, productVars, promoVars, orderVars, ticketVars
<1>1. ASSUME NEW p \in Products, DeleteProduct(p) PROVE TypeOK'
  BY <1>1 DEF DeleteProduct, EraseProducts
<1>2. ASSUME NEW p \in Products, NEW limit \in 0..MaxLimit,
             NEW isActive \in BOOLEAN, NEW isPriced \in BOOLEAN,
             CreateProduct(p, limit, isActive, isPriced)
      PROVE  TypeOK'
  BY <1>2 DEF CreateProduct, Flag
<1>3. ASSUME NEW p \in Products, NEW limit \in 0..MaxLimit,
             NEW isActive \in BOOLEAN, NEW isPriced \in BOOLEAN,
             UpdateProduct(p, limit, isActive, isPriced)
      PROVE  TypeOK'
  BY <1>3 DEF UpdateProduct, Flag, Coalesce
<1>4. ASSUME NEW c \in Promos, PromoWindowTurns(c) PROVE TypeOK'
  BY <1>4 DEF PromoWindowTurns, Flag
<1>5. ASSUME NEW c \in Promos, DeletePromoCode(c) PROVE TypeOK'
  BY <1>5 DEF DeletePromoCode
<1>6. ASSUME NEW c \in Promos, NEW limit \in 0..MaxLimit, NEW open \in BOOLEAN,
             NEW scope \in Events \cup {AnyEvent},
             CreatePromoCode(c, limit, open, scope)
      PROVE  TypeOK'
  BY <1>6 DEF CreatePromoCode, Flag
<1>7. ASSUME NEW c \in Promos, NEW limit \in 0..MaxLimit, NEW open \in BOOLEAN,
             NEW scope \in Events \cup {AnyEvent},
             UpdatePromoCode(c, limit, open, scope)
      PROVE  TypeOK'
  BY <1>7 DEF UpdatePromoCode, Flag, Coalesce
<1>8. ASSUME NEW o \in Orders, NEW e \in Events, NEW qty \in Quantities,
             NEW c \in Promos \cup {NoPromo}, CreateOrder(o, e, qty, c)
      PROVE  TypeOK'
  BY <1>8 DEF CreateOrder, UsePromo
<1>9. ASSUME NEW o \in Orders, ConfirmPending(o) PROVE TypeOK'
  BY <1>9 DEF ConfirmPending, PaidStatus, TicketsOf
<1>10. ASSUME NEW o \in Orders, ConfirmAgain(o) PROVE TypeOK'
  BY <1>10 DEF ConfirmAgain, TicketsOf
<1>11. ASSUME NEW o \in Orders, CancelOrder(o) PROVE TypeOK'
  <2>1. soldCount' \in [Products -> Nat] /\ usedCount' \in [Promos -> Nat]
    BY <1>11, GiveBackType, ReturnPromoType DEF CancelOrder
  <2>. QED
    BY <1>11, <2>1 DEF CancelOrder
<1>12. ASSUME NEW o \in Orders, DeleteOrder(o) PROVE TypeOK'
  <2>1. soldCount' \in [Products -> Nat] /\ usedCount' \in [Promos -> Nat]
    BY <1>12, GiveBackType, ReturnPromoType DEF DeleteOrder
  <2>. QED
    BY <1>12, <2>1, EraseOrdersType DEF DeleteOrder
<1>13. ASSUME NEW t \in TicketIds, NEW scan, RedeemTicket(t, scan) PROVE TypeOK'
  BY <1>13 DEF RedeemTicket
<1>14. ASSUME NEW e \in Events, DeleteEvent(e) PROVE TypeOK'
  <2>1. /\ eventRow' \in [Events -> {"live", "gone"}]
        /\ promoScope' \in [Promos -> Events \cup {AnyEvent}]
    BY <1>14 DEF DeleteEvent
  <2>2. UNCHANGED <<schema, promoRow, promoOpen, usageLimit, usedCount>>
    BY <1>14 DEF DeleteEvent
  <2>. QED
    BY <1>14, <2>1, <2>2, EraseProductsType, EraseOrdersType DEF DeleteEvent
<1>15. CASE MigrateTo18
  BY <1>15 DEF MigrateTo18
<1>16. CASE UNCHANGED vars
  BY <1>16 DEF vars
<1>. HIDE DEF TypeOK, Products, Quantities, eventVars, productVars, promoVars,
              orderVars, ticketVars
<1>. QED
  BY <1>1, <1>2, <1>3, <1>4, <1>5, <1>6, <1>7, <1>8, <1>9, <1>10, <1>11,
     <1>12, <1>13, <1>14, <1>15, <1>16 DEF Next, Catalogue, Sales, ConfirmOrder

\* Every column stays within its type in every behaviour of the shop.
THEOREM TypeCorrect == Spec => []TypeOK
<1>1. Init => TypeOK
  BY ConstantsAssumption DEF Init, TypeOK, NoItems, Products, Quantities
<1>2. TypeOK /\ [Next]_vars => TypeOK'
  BY TypeStep
<1>. QED
  BY <1>1, <1>2, PTL DEF Spec

-----------------------------------------------------------------------------
(***************************************************************************)
(* Counting.  The units of one order are {o} \X (1..q).                     *)
(***************************************************************************)

\* Adding q units of an order that had none in S adds q to the count.
LEMMA AddUnits ==
  ASSUME NEW S, IsFiniteSet(S), NEW o, NEW q \in Nat, \A u \in S : u[1] # o
  PROVE  /\ IsFiniteSet(S \cup ({o} \X (1..q)))
         /\ Cardinality(S \cup ({o} \X (1..q))) = Cardinality(S) + q
<1>. DEFINE U == {o} \X (1..q)
<1>1. IsFiniteSet({o}) /\ Cardinality({o}) = 1
  BY FS_Singleton
<1>2. IsFiniteSet(1..q) /\ Cardinality(1..q) = q
  BY FS_Interval
<1>3. IsFiniteSet(U) /\ Cardinality(U) = 1 * q
  <2>. DEFINE A == {o}
              I == 1..q
  <2>1. IsFiniteSet(A) /\ IsFiniteSet(I) /\ Cardinality(A) = 1 /\ Cardinality(I) = q
    BY <1>1, <1>2
  <2>. HIDE DEF A, I
  <2>2. IsFiniteSet(A \X I) /\ Cardinality(A \X I) = Cardinality(A) * Cardinality(I)
    BY <2>1, FS_Product, Zenon
  <2>3. IsFiniteSet(A \X I) /\ Cardinality(A \X I) = 1 * q
    BY <2>1, <2>2, Zenon
  <2>. QED
    BY <2>3 DEF A, I
<1>4. S \cap U = {}
  OBVIOUS
<1>5. Cardinality(S \cap U) = 0
  BY <1>4, FS_EmptySet
<1>6. Cardinality(S) \in Nat
  BY FS_CardinalityType
<1>7. /\ IsFiniteSet(S \cup U)
      /\ Cardinality(S \cup U) = Cardinality(S) + Cardinality(U) - Cardinality(S \cap U)
  BY <1>3, FS_Union
<1>. HIDE DEF U
<1>8. Cardinality(S \cup U) = Cardinality(S) + q
  BY <1>3, <1>5, <1>6, <1>7
<1>. QED
  BY <1>7, <1>8 DEF U

\* The sets that are counted are finite.
LEMMA UnitsFinite == ASSUME NEW p PROVE IsFiniteSet(SoldUnits(p))
<1>1. IsFiniteSet(1..MaxQty)
  BY FS_Interval, ConstantsAssumption
<1>2. IsFiniteSet(Orders \X (1..MaxQty))
  BY <1>1, FS_Product, ConstantsAssumption
<1>. QED
  BY <1>2, FS_Subset DEF SoldUnits

LEMMA UsesFinite == ASSUME NEW c PROVE IsFiniteSet(PromoUses(c))
  BY FS_Subset, ConstantsAssumption DEF PromoUses

\* An unsold order has no units in the count, a sold one has all of its units.
LEMMA UnitsOfOrder ==
  ASSUME TypeOK, NEW p \in Products, NEW o \in Orders
  PROVE  /\ orderStatus[o] \notin SoldStatuses => \A u \in SoldUnits(p) : u[1] # o
         /\ orderStatus[o] \in SoldStatuses => {o} \X (1..items[o][p]) \subseteq SoldUnits(p)
<1>1. items[o][p] \in 0..MaxQty
  BY DEF TypeOK, Quantities
<1>. QED
  BY <1>1, ConstantsAssumption DEF SoldUnits

\* What a sold order holds is in sold_count, so that giving it back never
\* needs the zero of GREATEST(0, ...).
LEMMA GiveBackExact ==
  ASSUME IInv, NEW o \in Orders, orderStatus[o] \in SoldStatuses,
         NEW p \in Products, productRow[p] = "live"
  PROVE  GiveBack(o)[p] = soldCount[p] - items[o][p]
<1>. DEFINE U == {o} \X (1..items[o][p])
<1>1. TypeOK /\ items[o][p] \in Nat /\ soldCount[p] = Cardinality(SoldUnits(p))
  BY ConstantsAssumption DEF IInv, TypeOK, Quantities, SoldCountExact
<1>2. U \subseteq SoldUnits(p) /\ IsFiniteSet(SoldUnits(p))
  BY <1>1, UnitsOfOrder, UnitsFinite
<1>3. IsFiniteSet({}) /\ Cardinality({}) = 0
  BY FS_EmptySet
<1>4. Cardinality({} \cup U) = Cardinality({}) + items[o][p]
  <2>1. \A u \in {} : u[1] # o
    OBVIOUS
  <2>. DEFINE none == {}
  <2>. HIDE DEF none
  <2>2. IsFiniteSet(none)
    BY <1>3 DEF none
  <2>3. \A u \in none : u[1] # o
    BY <2>1 DEF none
  <2>4. items[o][p] \in Nat
    BY <1>1
  <2>5. Cardinality(none \cup U) = Cardinality(none) + items[o][p]
    BY <2>2, <2>3, <2>4, AddUnits, Zenon
  <2>. QED
    BY <2>5 DEF none
<1>5. {} \cup U = U
  OBVIOUS
<1>6. items[o][p] <= soldCount[p]
  <2>1. Cardinality(U) = items[o][p]
    BY <1>1, <1>3, <1>4, <1>5
  <2>2. Cardinality(U) <= Cardinality(SoldUnits(p))
    BY <1>2, FS_Subset
  <2>. QED
    BY <1>1, <2>1, <2>2
<1>7. soldCount[p] \in Nat
  BY <1>1 DEF TypeOK
<1>. QED
  BY <1>1, <1>6, <1>7 DEF GiveBack

-----------------------------------------------------------------------------
(***************************************************************************)
(* sold_count.                                                             *)
(***************************************************************************)

\* An order that gives its units back leaves the count exact.
LEMMA GiveBackKeepsCount ==
  ASSUME IInv, NEW o \in Orders, orderStatus[o] \in SoldStatuses,
         UNCHANGED productRow, soldCount' = GiveBack(o),
         orderStatus'[o] \notin SoldStatuses,
         \A x \in Orders : x # o => orderStatus'[x] = orderStatus[x] /\ items'[x] = items[x]
  PROVE  SoldCountExact'
<1>. SUFFICES ASSUME NEW p \in Products, productRow[p] = "live"
              PROVE  soldCount'[p] = Cardinality(SoldUnits(p)')
  BY DEF SoldCountExact
<1>. DEFINE R == SoldUnits(p)'
            U == {o} \X (1..items[o][p])
<1>1. TypeOK /\ items[o][p] \in 0..MaxQty /\ soldCount[p] = Cardinality(SoldUnits(p))
  BY ConstantsAssumption DEF IInv, TypeOK, Quantities, SoldCountExact
<1>2. U \subseteq SoldUnits(p) /\ IsFiniteSet(SoldUnits(p))
  BY <1>1, UnitsOfOrder, UnitsFinite
<1>3. R = {u \in SoldUnits(p) : u[1] # o}
  BY DEF SoldUnits
<1>4. SoldUnits(p) = R \cup U
  BY <1>1, <1>2, <1>3, ConstantsAssumption DEF SoldUnits
<1>5. IsFiniteSet(R)
  BY <1>2, <1>3, FS_Subset
<1>6. \A u \in R : u[1] # o
  BY <1>3
<1>. HIDE DEF R
<1>7. items[o][p] \in Nat
  BY <1>1, ConstantsAssumption
<1>8. Cardinality(R \cup U) = Cardinality(R) + items[o][p]
  BY <1>5, <1>6, <1>7, AddUnits, Zenon
<1>9. soldCount'[p] = soldCount[p] - items[o][p]
  BY GiveBackExact, Zenon
<1>10. Cardinality(R) \in Nat
  BY <1>5, FS_CardinalityType
<1>11. soldCount[p] = Cardinality(R) + items[o][p]
  BY <1>1, <1>4, <1>8
<1>12. soldCount'[p] = Cardinality(R)
  BY <1>7, <1>9, <1>10, <1>11
<1>. QED
  BY <1>12 DEF R

\* A step that leaves sold_count, the products and the sold orders alone leaves
\* the count exact.
LEMMA SameUnitsKeepCount ==
  ASSUME IInv, UNCHANGED <<productRow, soldCount>>,
         \A o \in Orders :
           /\ orderStatus'[o] \in SoldStatuses <=> orderStatus[o] \in SoldStatuses
           /\ orderStatus[o] \in SoldStatuses => items'[o] = items[o]
  PROVE  SoldCountExact'
<1>1. ASSUME NEW p PROVE SoldUnits(p)' = SoldUnits(p)
  BY DEF SoldUnits
<1>. QED
  BY <1>1 DEF SoldCountExact, IInv

\* Paying a pending order takes exactly its units.
LEMMA ConfirmKeepsCount ==
  ASSUME IInv, NEW o \in Orders, ConfirmPending(o)
  PROVE  SoldCountExact'
<1>. SUFFICES ASSUME NEW p \in Products, productRow[p] = "live"
              PROVE  soldCount'[p] = Cardinality(SoldUnits(p)')
  BY DEF SoldCountExact, ConfirmPending, productVars
<1>. DEFINE U == {o} \X (1..items[o][p])
<1>1. TypeOK /\ soldCount[p] = Cardinality(SoldUnits(p))
  BY DEF IInv, SoldCountExact
<1>2. items[o][p] \in Nat /\ items[o][p] <= MaxQty
  BY <1>1, ConstantsAssumption DEF TypeOK, Quantities
<1>3. orderStatus[o] \notin SoldStatuses /\ orderStatus'[o] \in SoldStatuses
  BY <1>1 DEF ConfirmPending, PaidStatus, SoldStatuses, PaidStatuses, TypeOK
<1>4. \A x \in Orders : x # o => orderStatus'[x] = orderStatus[x]
  BY <1>1 DEF ConfirmPending, TypeOK
<1>5. items' = items
  BY DEF ConfirmPending
<1>6. SoldUnits(p)' = SoldUnits(p) \cup U
  BY <1>2, <1>3, <1>4, <1>5, ConstantsAssumption DEF SoldUnits
<1>7. IsFiniteSet(SoldUnits(p))
  BY UnitsFinite
<1>8. \A u \in SoldUnits(p) : u[1] # o
  BY <1>3 DEF SoldUnits
<1>9. items[o][p] \in Nat
  BY <1>2
<1>10. Cardinality(SoldUnits(p) \cup U) = Cardinality(SoldUnits(p)) + items[o][p]
  BY <1>7, <1>8, <1>9, AddUnits, Zenon
<1>11. soldCount'[p] = soldCount[p] + items[o][p]
  BY DEF ConfirmPending
<1>. QED
  BY <1>1, <1>6, <1>10, <1>11

\* Erasing products and whole orders of one event leaves the counts of the
\* other products exact.
LEMMA EraseKeepsCount ==
  ASSUME IInv, NEW S, NEW T, EraseProducts(S),
         \A o \in Orders :
           IF o \in T THEN orderStatus'[o] \notin SoldStatuses
           ELSE orderStatus'[o] = orderStatus[o] /\ items'[o] = items[o],
         \A o \in T \cap Orders, p \in Products :
           items[o][p] > 0 => p \in S \/ productRow[p] # "live"
  PROVE  SoldCountExact'
<1>. SUFFICES ASSUME NEW p \in Products, productRow'[p] = "live"
              PROVE  soldCount'[p] = Cardinality(SoldUnits(p)')
  BY DEF SoldCountExact
<1>1. p \notin S /\ productRow[p] = "live" /\ soldCount'[p] = soldCount[p]
  BY DEF EraseProducts
<1>2. \A o \in Orders : items[o][p] \in 0..MaxQty
  BY ConstantsAssumption DEF IInv, TypeOK, Quantities
<1>3. \A o \in T \cap Orders : ~(items[o][p] > 0)
  BY <1>1
<1>4. \A o \in T \cap Orders : items[o][p] = 0
  BY <1>2, <1>3, ConstantsAssumption
<1>5. SoldUnits(p)' = SoldUnits(p)
  BY <1>4, ConstantsAssumption DEF SoldUnits
<1>. QED
  BY <1>1, <1>5 DEF IInv, SoldCountExact

LEMMA SoldCountStep ==
  ASSUME IInv, [Next]_vars
  PROVE  SoldCountExact'
<1>. USE DEF eventVars, productVars, promoVars, orderVars, ticketVars
<1>a. TypeOK
  BY DEF IInv
<1>1. ASSUME NEW p \in Products, DeleteProduct(p) PROVE SoldCountExact'
  <2>. DEFINE S == {p}
              T == {}
  <2>1. EraseProducts(S)
    BY <1>1 DEF DeleteProduct
  <2>2. \A o \in Orders :
          IF o \in T THEN orderStatus'[o] \notin SoldStatuses
          ELSE orderStatus'[o] = orderStatus[o] /\ items'[o] = items[o]
    BY <1>1 DEF DeleteProduct
  <2>3. \A o \in T \cap Orders, q \in Products :
          items[o][q] > 0 => q \in S \/ productRow[q] # "live"
    OBVIOUS
  <2>. HIDE DEF S, T
  <2>. QED
    BY <2>1, <2>2, <2>3, EraseKeepsCount
<1>2. ASSUME NEW p \in Products, NEW limit, NEW isActive, NEW isPriced,
             CreateProduct(p, limit, isActive, isPriced)
      PROVE  SoldCountExact'
  <2>. SUFFICES ASSUME NEW q \in Products, productRow'[q] = "live"
                PROVE  soldCount'[q] = Cardinality(SoldUnits(q)')
    BY DEF SoldCountExact
  <2>1. SoldUnits(q)' = SoldUnits(q)
    BY <1>2 DEF CreateProduct, SoldUnits
  <2>2. CASE q = p
    <3>1. soldCount'[q] = 0 /\ \A o \in Orders : ~(items[o][q] > 0)
      BY <1>2, <2>2 DEF CreateProduct, IInv, OrderWellFormed
    <3>2. \A o \in Orders : items[o][q] \in Nat
      BY <1>a, ConstantsAssumption DEF TypeOK, Quantities
    <3>3. SoldUnits(q) = {}
      BY <3>1, <3>2 DEF SoldUnits
    <3>. QED
      BY <2>1, <3>1, <3>3, FS_EmptySet
  <2>3. CASE q # p
    <3>1. productRow[q] = "live" /\ soldCount'[q] = soldCount[q]
      BY <1>2, <2>3, <1>a DEF CreateProduct, TypeOK
    <3>. QED
      BY <2>1, <3>1 DEF IInv, SoldCountExact
  <2>. QED
    BY <2>2, <2>3
<1>3. ASSUME NEW p, NEW limit, NEW isActive, NEW isPriced,
             UpdateProduct(p, limit, isActive, isPriced)
      PROVE  SoldCountExact'
  BY <1>3, SameUnitsKeepCount DEF UpdateProduct
<1>4. ASSUME NEW c, PromoWindowTurns(c) PROVE SoldCountExact'
  BY <1>4, SameUnitsKeepCount DEF PromoWindowTurns
<1>5. ASSUME NEW c, DeletePromoCode(c) PROVE SoldCountExact'
  BY <1>5, SameUnitsKeepCount DEF DeletePromoCode
<1>6. ASSUME NEW c, NEW limit, NEW open, NEW scope, CreatePromoCode(c, limit, open, scope)
      PROVE  SoldCountExact'
  BY <1>6, SameUnitsKeepCount DEF CreatePromoCode
<1>7. ASSUME NEW c, NEW limit, NEW open, NEW scope, UpdatePromoCode(c, limit, open, scope)
      PROVE  SoldCountExact'
  BY <1>7, SameUnitsKeepCount DEF UpdatePromoCode
<1>8. ASSUME NEW o \in Orders, NEW e, NEW qty, NEW c, CreateOrder(o, e, qty, c)
      PROVE  SoldCountExact'
  <2>1. \A x \in Orders :
          /\ orderStatus'[x] \in SoldStatuses <=> orderStatus[x] \in SoldStatuses
          /\ orderStatus[x] \in SoldStatuses => items'[x] = items[x]
    BY <1>8, <1>a DEF CreateOrder, SoldStatuses, PaidStatuses, TypeOK
  <2>. QED
    BY <1>8, <2>1, SameUnitsKeepCount DEF CreateOrder
<1>9. ASSUME NEW o \in Orders, ConfirmPending(o) PROVE SoldCountExact'
  BY <1>9, ConfirmKeepsCount
<1>10. ASSUME NEW o, ConfirmAgain(o) PROVE SoldCountExact'
  BY <1>10, SameUnitsKeepCount DEF ConfirmAgain
<1>11. ASSUME NEW o \in Orders, CancelOrder(o) PROVE SoldCountExact'
  <2>1. /\ \A x \in Orders : x # o => orderStatus'[x] = orderStatus[x] /\ items'[x] = items[x]
        /\ orderStatus'[o] \notin SoldStatuses
        /\ UNCHANGED productRow
    BY <1>11, <1>a DEF CancelOrder, SoldStatuses, PaidStatuses, TypeOK
  <2>2. CASE orderStatus[o] \in PaidStatuses
    BY <1>11, <2>1, <2>2, GiveBackKeepsCount DEF CancelOrder, SoldStatuses
  <2>3. CASE orderStatus[o] \notin PaidStatuses
    <3>1. orderStatus[o] \notin SoldStatuses /\ soldCount' = soldCount
      BY <1>11, <2>3 DEF CancelOrder, SoldStatuses
    <3>. QED
      BY <2>1, <3>1, SameUnitsKeepCount
  <2>. QED
    BY <2>2, <2>3
<1>12. ASSUME NEW o \in Orders, DeleteOrder(o) PROVE SoldCountExact'
  <2>1. /\ \A x \in Orders : x # o => orderStatus'[x] = orderStatus[x] /\ items'[x] = items[x]
        /\ orderStatus'[o] \notin SoldStatuses
        /\ UNCHANGED productRow
    BY <1>12, <1>a DEF DeleteOrder, EraseOrders, SoldStatuses, PaidStatuses, TypeOK
  <2>2. CASE orderStatus[o] \in SoldStatuses
    BY <1>12, <2>1, <2>2, GiveBackKeepsCount DEF DeleteOrder
  <2>3. CASE orderStatus[o] \notin SoldStatuses
    <3>1. soldCount' = soldCount
      BY <1>12, <2>3 DEF DeleteOrder
    <3>. QED
      BY <2>1, <2>3, <3>1, SameUnitsKeepCount
  <2>. QED
    BY <2>2, <2>3
<1>13. ASSUME NEW t \in TicketIds, NEW scan, RedeemTicket(t, scan) PROVE SoldCountExact'
  <2>1. \A x \in Orders : orderStatus'[x] \in SoldStatuses <=> orderStatus[x] \in SoldStatuses
    BY <1>13, <1>a DEF RedeemTicket, SoldStatuses, PaidStatuses, TypeOK
  <2>. QED
    BY <1>13, <2>1, SameUnitsKeepCount DEF RedeemTicket
<1>14. ASSUME NEW e \in Events, DeleteEvent(e) PROVE SoldCountExact'
  <2>. DEFINE S == {p \in Products : EventOf[p] = e /\ productRow[p] = "live"}
              T == {o \in Orders : OrderOfEvent(o, e)}
  <2>1. EraseProducts(S) /\ EraseOrders(T)
    BY <1>14 DEF DeleteEvent
  <2>2. \A o \in Orders :
          IF o \in T THEN orderStatus'[o] \notin SoldStatuses
          ELSE orderStatus'[o] = orderStatus[o] /\ items'[o] = items[o]
    BY <2>1 DEF EraseOrders, SoldStatuses, PaidStatuses
  <2>3. \A o \in T \cap Orders, p \in Products :
          items[o][p] > 0 => p \in S \/ productRow[p] # "live"
    BY DEF OrderOfEvent, IInv, OrderWellFormed
  <2>. HIDE DEF S, T
  <2>. QED
    BY <2>1, <2>2, <2>3, EraseKeepsCount
<1>15. CASE MigrateTo18
  <2>1. \A x \in Orders : orderStatus'[x] \in SoldStatuses <=> orderStatus[x] \in SoldStatuses
    BY <1>15, <1>a DEF MigrateTo18, SoldStatuses, PaidStatuses, TypeOK
  <2>. QED
    BY <1>15, <2>1, SameUnitsKeepCount DEF MigrateTo18
<1>16. CASE UNCHANGED vars
  BY <1>16, SameUnitsKeepCount DEF vars
<1>. HIDE DEF eventVars, productVars, promoVars, orderVars, ticketVars
<1>. QED
  BY <1>1, <1>2, <1>3, <1>4, <1>5, <1>6, <1>7, <1>8, <1>9, <1>10, <1>11,
     <1>12, <1>13, <1>14, <1>15, <1>16 DEF Next, Catalogue, Sales, ConfirmOrder

-----------------------------------------------------------------------------
(***************************************************************************)
(* The shape of the rows.                                                  *)
(***************************************************************************)

\* An order that is not touched stays well formed.
LEMMA SameOrderWellFormed ==
  ASSUME NEW o \in Orders, OrderWellFormed(o),
         items'[o] = items[o], orderPromo'[o] = orderPromo[o],
         orderStatus'[o] \in {"none", "gone"} <=> orderStatus[o] \in {"none", "gone"},
         \A p \in Products : productRow[p] # "none" => productRow'[p] # "none",
         orderPromo[o] \in Promos => promoRow'[orderPromo[o]] = "live"
  PROVE  OrderWellFormed(o)'
<1>1. TicketsOf(o)' = TicketsOf(o)
  BY DEF TicketsOf
<1>. QED
  BY <1>1 DEF OrderWellFormed

\* An order that disappears holds nothing.
LEMMA ErasedOrderWellFormed ==
  ASSUME NEW o \in Orders, orderStatus'[o] = "gone",
         items'[o] = NoItems, orderPromo'[o] = NoPromo
  PROVE  OrderWellFormed(o)'
  BY ConstantsAssumption DEF OrderWellFormed, NoItems

LEMMA WellFormedStep ==
  ASSUME IInv, [Next]_vars, NEW x \in Orders
  PROVE  OrderWellFormed(x)'
<1>. USE DEF eventVars, productVars, promoVars, orderVars, ticketVars
<1>a. TypeOK /\ OrderWellFormed(x)
  BY DEF IInv
<1>b. orderPromo[x] \in Promos => promoRow[orderPromo[x]] = "live"
  BY <1>a DEF OrderWellFormed
<1>1. ASSUME NEW p \in Products, DeleteProduct(p) PROVE OrderWellFormed(x)'
  <2>1. \A q \in Products : productRow[q] # "none" => productRow'[q] # "none"
    BY <1>1 DEF DeleteProduct, EraseProducts
  <2>. QED
    BY <1>1, <1>a, <1>b, <2>1, SameOrderWellFormed DEF DeleteProduct
<1>2. ASSUME NEW p \in Products, NEW limit, NEW isActive, NEW isPriced,
             CreateProduct(p, limit, isActive, isPriced)
      PROVE  OrderWellFormed(x)'
  <2>1. \A q \in Products : productRow[q] # "none" => productRow'[q] # "none"
    BY <1>2, <1>a DEF CreateProduct, TypeOK
  <2>. QED
    BY <1>2, <1>a, <1>b, <2>1, SameOrderWellFormed DEF CreateProduct
<1>3. ASSUME NEW p, NEW limit, NEW isActive, NEW isPriced,
             UpdateProduct(p, limit, isActive, isPriced)
      PROVE  OrderWellFormed(x)'
  BY <1>3, <1>a, <1>b, SameOrderWellFormed DEF UpdateProduct
<1>4. ASSUME NEW c, PromoWindowTurns(c) PROVE OrderWellFormed(x)'
  BY <1>4, <1>a, <1>b, SameOrderWellFormed DEF PromoWindowTurns
<1>5. ASSUME NEW c \in Promos, DeletePromoCode(c) PROVE OrderWellFormed(x)'
  <2>1. CASE orderPromo[x] = c
    <3>1. items'[x] = items[x] /\ orderStatus'[x] = orderStatus[x]
          /\ orderPromo'[x] = NoPromo /\ productRow' = productRow
      BY <1>5, <2>1 DEF DeletePromoCode
    <3>2. TicketsOf(x)' = TicketsOf(x)
      BY <3>1 DEF TicketsOf
    <3>. QED
      BY <1>a, <3>1, <3>2, ConstantsAssumption DEF OrderWellFormed
  <2>2. CASE orderPromo[x] # c
    <3>1. orderPromo[x] \in Promos => promoRow'[orderPromo[x]] = "live"
      BY <1>5, <1>a, <1>b, <2>2 DEF DeletePromoCode, TypeOK
    <3>2. orderPromo'[x] = orderPromo[x] /\ UNCHANGED <<items, orderStatus, productRow>>
      BY <1>5, <2>2 DEF DeletePromoCode
    <3>. QED
      BY <1>a, <3>1, <3>2, SameOrderWellFormed
  <2>. QED
    BY <2>1, <2>2
<1>6. ASSUME NEW c \in Promos, NEW limit, NEW open, NEW scope,
             CreatePromoCode(c, limit, open, scope)
      PROVE  OrderWellFormed(x)'
  <2>1. orderPromo[x] \in Promos => promoRow'[orderPromo[x]] = "live"
    BY <1>6, <1>a, <1>b DEF CreatePromoCode, TypeOK
  <2>. QED
    BY <1>6, <1>a, <2>1, SameOrderWellFormed DEF CreatePromoCode
<1>7. ASSUME NEW c, NEW limit, NEW open, NEW scope, UpdatePromoCode(c, limit, open, scope)
      PROVE  OrderWellFormed(x)'
  BY <1>7, <1>a, <1>b, SameOrderWellFormed DEF UpdatePromoCode
<1>8. ASSUME NEW o \in Orders, NEW e \in Events, NEW qty \in Quantities,
             NEW c \in Promos \cup {NoPromo}, CreateOrder(o, e, qty, c)
      PROVE  OrderWellFormed(x)'
  <2>1. CASE x # o
    <3>1. items'[x] = items[x] /\ orderPromo'[x] = orderPromo[x]
          /\ orderStatus'[x] = orderStatus[x] /\ UNCHANGED <<productRow, promoRow>>
      BY <1>8, <1>a, <2>1 DEF CreateOrder, TypeOK
    <3>. QED
      BY <1>a, <1>b, <3>1, SameOrderWellFormed
  <2>2. CASE x = o
    <3>1. items'[x] = qty /\ orderPromo'[x] = c /\ orderStatus'[x] = "PENDING"
          /\ UNCHANGED <<productRow, promoRow>>
      BY <1>8, <1>a, <2>2 DEF CreateOrder, TypeOK
    <3>2. PICK p \in TicketProducts : qty[p] > 0
      BY <1>8 DEF CreateOrder
    <3>3. qty[p] \in 0..MaxQty
      BY DEF Quantities, Products
    <3>4. <<x, p, 1>> \in TicketIds /\ 1 <= qty[p]
      BY <3>2, <3>3, ConstantsAssumption DEF TicketIds
    <3>5. <<x, p, 1>> \in TicketsOf(x)'
      BY <3>1, <3>4 DEF TicketsOf
    <3>6. \A q \in Products : qty[q] > 0 =>
             /\ productRow[q] # "none"
             /\ \A r \in Products : qty[r] > 0 => EventOf[r] = EventOf[q]
      BY <1>8 DEF CreateOrder
    <3>7. c \in Promos => promoRow[c] = "live"
      BY <1>8, ConstantsAssumption DEF CreateOrder, PromoValid
    <3>. QED
      BY <3>1, <3>5, <3>6, <3>7 DEF OrderWellFormed
  <2>. QED
    BY <2>1, <2>2
<1>9. ASSUME NEW o \in Orders, ConfirmPending(o) PROVE OrderWellFormed(x)'
  <2>1. orderStatus'[x] \in {"none", "gone"} <=> orderStatus[x] \in {"none", "gone"}
    BY <1>9, <1>a DEF ConfirmPending, PaidStatus, TypeOK
  <2>. QED
    BY <1>9, <1>a, <1>b, <2>1, SameOrderWellFormed DEF ConfirmPending
<1>10. ASSUME NEW o, ConfirmAgain(o) PROVE OrderWellFormed(x)'
  BY <1>10, <1>a, <1>b, SameOrderWellFormed DEF ConfirmAgain
<1>11. ASSUME NEW o \in Orders, CancelOrder(o) PROVE OrderWellFormed(x)'
  <2>1. orderStatus'[x] \in {"none", "gone"} <=> orderStatus[x] \in {"none", "gone"}
    BY <1>11, <1>a DEF CancelOrder, PaidStatuses, TypeOK
  <2>. QED
    BY <1>11, <1>a, <1>b, <2>1, SameOrderWellFormed DEF CancelOrder
<1>12. ASSUME NEW S, EraseOrders(S), UNCHANGED promoRow,
              \A q \in Products : productRow[q] # "none" => productRow'[q] # "none"
       PROVE  OrderWellFormed(x)'
  <2>1. CASE x \in S
    BY <1>12, <2>1, ErasedOrderWellFormed DEF EraseOrders
  <2>2. CASE x \notin S
    <3>1. items'[x] = items[x] /\ orderPromo'[x] = orderPromo[x]
          /\ orderStatus'[x] = orderStatus[x]
      BY <1>12, <2>2 DEF EraseOrders
    <3>. QED
      BY <1>12, <1>a, <1>b, <3>1, SameOrderWellFormed
  <2>. QED
    BY <2>1, <2>2
<1>13. ASSUME NEW o \in Orders, DeleteOrder(o) PROVE OrderWellFormed(x)'
  BY <1>12, <1>13 DEF DeleteOrder
<1>14. ASSUME NEW t \in TicketIds, NEW scan, RedeemTicket(t, scan) PROVE OrderWellFormed(x)'
  <2>1. orderStatus'[x] \in {"none", "gone"} <=> orderStatus[x] \in {"none", "gone"}
    BY <1>14, <1>a DEF RedeemTicket, SoldStatuses, PaidStatuses, TypeOK
  <2>. QED
    BY <1>14, <1>a, <1>b, <2>1, SameOrderWellFormed DEF RedeemTicket
<1>15. ASSUME NEW e \in Events, DeleteEvent(e) PROVE OrderWellFormed(x)'
  <2>1. \A q \in Products : productRow[q] # "none" => productRow'[q] # "none"
    BY <1>15 DEF DeleteEvent, EraseProducts
  <2>. QED
    BY <1>12, <1>15, <2>1 DEF DeleteEvent
<1>16. CASE MigrateTo18
  <2>1. orderStatus'[x] \in {"none", "gone"} <=> orderStatus[x] \in {"none", "gone"}
    BY <1>16, <1>a DEF MigrateTo18, TypeOK
  <2>. QED
    BY <1>16, <1>a, <1>b, <2>1, SameOrderWellFormed DEF MigrateTo18
<1>17. CASE UNCHANGED vars
  BY <1>17, <1>a, <1>b, SameOrderWellFormed DEF vars
<1>. HIDE DEF eventVars, productVars, promoVars, orderVars, ticketVars
<1>. QED
  BY <1>1, <1>2, <1>3, <1>4, <1>5, <1>6, <1>7, <1>8, <1>9, <1>10, <1>11,
     <1>13, <1>14, <1>15, <1>16, <1>17 DEF Next, Catalogue, Sales, ConfirmOrder

\* A row that is not inserted yet has its default counter.
LEMMA NewRowsStep ==
  ASSUME IInv, [Next]_vars
  PROVE  /\ \A p \in Products : productRow'[p] = "none" => soldCount'[p] = 0
         /\ \A c \in Promos : promoRow'[c] = "none" => usedCount'[c] = 0
<1>. DEFINE NewRows == /\ \A p \in Products : productRow[p] = "none" => soldCount[p] = 0
                       /\ \A c \in Promos : promoRow[c] = "none" => usedCount[c] = 0
<1>. SUFFICES NewRows'
  OBVIOUS
<1>. USE DEF eventVars, productVars, promoVars, orderVars, ticketVars
<1>a. TypeOK /\ NewRows
  BY DEF IInv
<1>b. ASSUME UNCHANGED <<productRow, soldCount, promoRow, usedCount>> PROVE NewRows'
  BY <1>a, <1>b
<1>c. ASSUME NEW S, EraseProducts(S), UNCHANGED <<promoRow, usedCount>> PROVE NewRows'
  BY <1>a, <1>c DEF EraseProducts
<1>d. ASSUME NEW o \in Orders, UNCHANGED <<productRow, promoRow>>,
             soldCount' \in {soldCount, GiveBack(o)},
             usedCount' \in {usedCount, ReturnPromo(orderPromo[o])}
      PROVE  NewRows'
  <2>1. \A p \in Products : productRow[p] = "none" => soldCount'[p] = 0
    BY <1>a, <1>d DEF GiveBack
  <2>2. \A c \in Promos : promoRow[c] = "none" => usedCount'[c] = 0
    BY <1>a, <1>d DEF ReturnPromo, TypeOK
  <2>. QED
    BY <1>d, <2>1, <2>2
<1>1. ASSUME NEW p \in Products, DeleteProduct(p) PROVE NewRows'
  BY <1>1, <1>c DEF DeleteProduct
<1>2. ASSUME NEW p \in Products, NEW limit, NEW isActive, NEW isPriced,
             CreateProduct(p, limit, isActive, isPriced) \/ UpdateProduct(p, limit, isActive, isPriced)
      PROVE  NewRows'
  BY <1>2, <1>a DEF CreateProduct, UpdateProduct, TypeOK
<1>3. ASSUME NEW c \in Promos, PromoWindowTurns(c) \/ DeletePromoCode(c) PROVE NewRows'
  BY <1>3, <1>a DEF PromoWindowTurns, DeletePromoCode, TypeOK
<1>4. ASSUME NEW c \in Promos, NEW limit, NEW open, NEW scope,
             CreatePromoCode(c, limit, open, scope) \/ UpdatePromoCode(c, limit, open, scope)
      PROVE  NewRows'
  BY <1>4, <1>a DEF CreatePromoCode, UpdatePromoCode, TypeOK
<1>5. ASSUME NEW o \in Orders, NEW e, NEW qty, NEW c \in Promos \cup {NoPromo},
             CreateOrder(o, e, qty, c)
      PROVE  NewRows'
  <2>1. \A d \in Promos : promoRow[d] = "none" => d # c
    BY <1>5, ConstantsAssumption DEF CreateOrder, PromoValid
  <2>. QED
    BY <1>5, <1>a, <2>1 DEF CreateOrder, UsePromo, TypeOK
<1>6. ASSUME NEW o \in Orders, ConfirmPending(o) PROVE NewRows'
  <2>1. \A p \in Products : productRow[p] = "none" => items[o][p] = 0
    <3>1. \A p \in Products : items[o][p] \in 0..MaxQty
      BY <1>a DEF TypeOK, Quantities
    <3>2. \A p \in Products : productRow[p] = "none" => ~(items[o][p] > 0)
      BY DEF IInv, OrderWellFormed
    <3>. QED
      BY <3>1, <3>2, ConstantsAssumption
  <2>. QED
    BY <1>6, <1>a, <2>1 DEF ConfirmPending
<1>7. ASSUME NEW o \in Orders, ConfirmAgain(o) PROVE NewRows'
  BY <1>7, <1>b DEF ConfirmAgain
<1>8. ASSUME NEW o \in Orders, CancelOrder(o) \/ DeleteOrder(o) PROVE NewRows'
  BY <1>8, <1>d DEF CancelOrder, DeleteOrder
<1>9. ASSUME NEW t, NEW scan, RedeemTicket(t, scan) PROVE NewRows'
  BY <1>9, <1>b DEF RedeemTicket
<1>10. ASSUME NEW e, DeleteEvent(e) PROVE NewRows'
  BY <1>10, <1>c DEF DeleteEvent
<1>11. CASE MigrateTo18
  BY <1>11, <1>b DEF MigrateTo18
<1>12. CASE UNCHANGED vars
  BY <1>12, <1>b DEF vars
<1>. HIDE DEF eventVars, productVars, promoVars, orderVars, ticketVars, NewRows
<1>. QED
  BY <1>1, <1>2, <1>3, <1>4, <1>5, <1>6, <1>7, <1>8, <1>9, <1>10, <1>11, <1>12
  DEF Next, Catalogue, Sales, ConfirmOrder

-----------------------------------------------------------------------------
(***************************************************************************)
(* Tickets.                                                                *)
(***************************************************************************)

\* The tickets that are there before and after, and the orders they are of.
TicketsKept ==
  \A o \in Orders :
    /\ orderStatus'[o] \in SoldStatuses => items'[o] = items[o]
    /\ orderStatus'[o] \in SoldStatuses <=> orderStatus[o] \in SoldStatuses
    /\ orderStatus'[o] = "REDEEMED" <=> orderStatus[o] = "REDEEMED"

\* A step that neither sells, erases nor redeems leaves both properties alone.
LEMMA SameTickets ==
  ASSUME IInv, UNCHANGED <<qrIssued, redeemed>>, TicketsKept,
         \A o \in Orders :
           orderStatus[o] = "CANCELED" => orderStatus'[o] = "CANCELED" /\ items'[o] = items[o]
  PROVE  RedeemedIffAllUsed' /\ QrFollowsPayment'
<1>1. \A o \in Orders :
        orderStatus[o] \in SoldStatuses \cup {"CANCELED"} => TicketsOf(o)' = TicketsOf(o)
  BY DEF TicketsKept, TicketsOf
<1>2. RedeemedIffAllUsed'
  BY <1>1 DEF IInv, RedeemedIffAllUsed, TicketsKept
<1>3. \A t \in qrIssued \cup redeemed : t[1] \in Orders
  BY DEF IInv, TypeOK, TicketIds
<1>4. QrFollowsPayment'
  BY <1>1, <1>3 DEF IInv, QrFollowsPayment, TicketsKept
<1>. QED
  BY <1>2, <1>4

\* Erased orders take their tickets with them.
LEMMA EraseKeepsTickets ==
  ASSUME IInv, NEW S, EraseOrders(S)
  PROVE  RedeemedIffAllUsed' /\ QrFollowsPayment'
<1>1. \A o \in Orders :
        IF o \in S THEN orderStatus'[o] = "gone"
        ELSE orderStatus'[o] = orderStatus[o] /\ items'[o] = items[o]
  BY DEF EraseOrders
<1>2. \A o \in Orders : o \notin S => TicketsOf(o)' = TicketsOf(o)
  BY <1>1 DEF TicketsOf
<1>3. \A o \in Orders : orderStatus'[o] \in SoldStatuses => o \notin S
  BY <1>1 DEF SoldStatuses, PaidStatuses
<1>4. /\ redeemed' = {t \in redeemed : t[1] \notin S}
      /\ qrIssued' = {t \in qrIssued : t[1] \notin S}
  BY DEF EraseOrders
<1>5. \A o \in Orders : \A t \in TicketsOf(o) : t[1] = o
  BY DEF TicketsOf
<1>6. \A t \in qrIssued \cup redeemed : t[1] \in Orders
  BY DEF IInv, TypeOK, TicketIds
<1>7. RedeemedIffAllUsed'
  BY <1>1, <1>2, <1>3, <1>4, <1>5 DEF IInv, RedeemedIffAllUsed
<1>8. QrFollowsPayment'
  BY <1>1, <1>2, <1>3, <1>4, <1>5, <1>6 DEF IInv, QrFollowsPayment
<1>. QED
  BY <1>7, <1>8

\* A pending order has no ticket with a QR code or a redemption.
LEMMA UnpaidTickets ==
  ASSUME IInv, NEW o \in Orders, orderStatus[o] \in {"none", "PENDING", "gone"}
  PROVE  \A t \in qrIssued \cup redeemed : t[1] # o
  BY DEF IInv, QrFollowsPayment, SoldStatuses, PaidStatuses

\* Confirming issues the QR codes of the order, used or not.
LEMMA ConfirmKeepsTickets ==
  ASSUME IInv, NEW o \in Orders, ConfirmOrder(o)
  PROVE  RedeemedIffAllUsed' /\ QrFollowsPayment'
<1>a. TypeOK
  BY DEF IInv
<1>1. /\ items' = items /\ redeemed' = redeemed
      /\ qrIssued' = qrIssued \cup TicketsOf(o)
      /\ \A x \in Orders : x # o => orderStatus'[x] = orderStatus[x]
      /\ orderStatus'[o] \in SoldStatuses
  BY <1>a DEF ConfirmOrder, ConfirmPending, ConfirmAgain, orderVars, PaidStatus,
              SoldStatuses, PaidStatuses, TypeOK
<1>2. \A x \in Orders : TicketsOf(x)' = TicketsOf(x)
  BY <1>1 DEF TicketsOf
<1>3. \A x \in Orders : \A t \in TicketsOf(x) : t[1] = x
  BY DEF TicketsOf
<1>4. \A t \in qrIssued \cup redeemed : t[1] \in Orders
  BY <1>a DEF TypeOK, TicketIds
<1>5. QrFollowsPayment'
  BY <1>1, <1>2, <1>3, <1>4 DEF IInv, QrFollowsPayment
<1>6. CASE ConfirmPending(o)
  <2>1. orderStatus'[o] # "REDEEMED"
    BY <1>6, <1>a DEF ConfirmPending, PaidStatus, TypeOK
  <2>2. TicketsOf(o) # {} /\ \A t \in redeemed : t[1] # o
    BY <1>6, UnpaidTickets DEF ConfirmPending, IInv, OrderWellFormed
  <2>3. ~ (TicketsOf(o) \subseteq redeemed)
    BY <1>3, <2>2
  <2>4. RedeemedIffAllUsed'
    BY <1>1, <1>2, <2>1, <2>3 DEF IInv, RedeemedIffAllUsed
  <2>. QED
    BY <1>5, <2>4
<1>7. CASE ConfirmAgain(o)
  <2>1. orderStatus' = orderStatus
    BY <1>7 DEF ConfirmAgain, orderVars
  <2>2. RedeemedIffAllUsed'
    BY <1>1, <1>2, <2>1 DEF IInv, RedeemedIffAllUsed
  <2>. QED
    BY <1>5, <2>2
<1>. QED
  BY <1>6, <1>7 DEF ConfirmOrder

\* Redeeming the last ticket, and only the last, closes the order.
LEMMA RedeemKeepsTickets ==
  ASSUME IInv, NEW t \in TicketIds, NEW scan, RedeemTicket(t, scan)
  PROVE  RedeemedIffAllUsed' /\ QrFollowsPayment'
<1>. DEFINE o == t[1]
<1>a. TypeOK /\ o \in Orders
  BY DEF IInv, TicketIds
<1>1. /\ items' = items /\ qrIssued' = qrIssued /\ redeemed' = redeemed \cup {t}
      /\ t \in TicketsOf(o) /\ t \notin redeemed /\ orderStatus[o] \in SoldStatuses
      /\ orderStatus' = [orderStatus EXCEPT ![o] =
            IF TicketsOf(o) \subseteq redeemed' THEN "REDEEMED" ELSE @]
  BY DEF RedeemTicket
<1>2. \A x \in Orders : TicketsOf(x)' = TicketsOf(x)
  BY <1>1 DEF TicketsOf
<1>3. orderStatus[o] # "REDEEMED"
  BY <1>1, <1>a DEF IInv, RedeemedIffAllUsed
<1>4. orderStatus'[o] = "REDEEMED" <=> TicketsOf(o) \subseteq redeemed'
  BY <1>1, <1>3, <1>a DEF TypeOK
<1>5. \A x \in Orders : x # o =>
        /\ orderStatus'[x] = orderStatus[x]
        /\ TicketsOf(x) \subseteq redeemed' <=> TicketsOf(x) \subseteq redeemed
  BY <1>1, <1>a DEF TicketsOf, TypeOK
<1>6. orderStatus'[o] \in SoldStatuses
  BY <1>1, <1>a DEF SoldStatuses, TypeOK
<1>7. \A x \in qrIssued \cup redeemed : x[1] \in Orders
  BY <1>a DEF TypeOK, TicketIds
<1>. HIDE DEF o
<1>8. RedeemedIffAllUsed'
  BY <1>2, <1>4, <1>5 DEF IInv, RedeemedIffAllUsed
<1>9. QrFollowsPayment'
  <2>1. \A x \in Orders : orderStatus'[x] \in SoldStatuses => TicketsOf(x)' \subseteq qrIssued'
    BY <1>1, <1>2, <1>5 DEF IInv, QrFollowsPayment
  <2>2. \A x \in qrIssued \cup redeemed :
          x \in TicketsOf(x[1])' /\ orderStatus'[x[1]] \in SoldStatuses \cup {"CANCELED"}
    BY <1>2, <1>5, <1>6, <1>7 DEF IInv, QrFollowsPayment
  <2>3. t \in TicketsOf(t[1])' /\ orderStatus'[t[1]] \in SoldStatuses
    BY <1>a, <1>1, <1>2, <1>6 DEF o
  <2>. QED
    BY <1>1, <2>1, <2>2, <2>3 DEF QrFollowsPayment
<1>. QED
  BY <1>8, <1>9

LEMMA TicketsStep ==
  ASSUME IInv, [Next]_vars
  PROVE  RedeemedIffAllUsed' /\ QrFollowsPayment'
<1>. DEFINE TicketsOK == RedeemedIffAllUsed /\ QrFollowsPayment
<1>. SUFFICES TicketsOK'
  OBVIOUS
<1>. USE DEF eventVars, productVars, promoVars, orderVars, ticketVars
<1>a. TypeOK
  BY DEF IInv
<1>b. ASSUME UNCHANGED <<orderStatus, items, qrIssued, redeemed>> PROVE TicketsOK'
  BY <1>b, SameTickets DEF TicketsKept
<1>1. ASSUME NEW p, DeleteProduct(p) PROVE TicketsOK'
  BY <1>1, <1>b DEF DeleteProduct
<1>2. ASSUME NEW p, NEW limit, NEW isActive, NEW isPriced,
             CreateProduct(p, limit, isActive, isPriced) \/ UpdateProduct(p, limit, isActive, isPriced)
      PROVE  TicketsOK'
  BY <1>2, <1>b DEF CreateProduct, UpdateProduct
<1>3. ASSUME NEW c, PromoWindowTurns(c) \/ DeletePromoCode(c) PROVE TicketsOK'
  BY <1>3, <1>b DEF PromoWindowTurns, DeletePromoCode
<1>4. ASSUME NEW c, NEW limit, NEW open, NEW scope,
             CreatePromoCode(c, limit, open, scope) \/ UpdatePromoCode(c, limit, open, scope)
      PROVE  TicketsOK'
  BY <1>4, <1>b DEF CreatePromoCode, UpdatePromoCode
<1>5. ASSUME NEW o \in Orders, NEW e, NEW qty, NEW c, CreateOrder(o, e, qty, c)
      PROVE  TicketsOK'
  <2>1. \A x \in Orders : x # o => orderStatus'[x] = orderStatus[x] /\ items'[x] = items[x]
    BY <1>5, <1>a DEF CreateOrder, TypeOK
  <2>2. orderStatus[o] = "none" /\ orderStatus'[o] = "PENDING"
    BY <1>5, <1>a DEF CreateOrder, TypeOK
  <2>3. TicketsKept
    BY <2>1, <2>2 DEF TicketsKept, SoldStatuses, PaidStatuses
  <2>. QED
    BY <1>5, <2>1, <2>2, <2>3, SameTickets DEF CreateOrder
<1>6. ASSUME NEW o \in Orders, ConfirmOrder(o) PROVE TicketsOK'
  BY <1>6, ConfirmKeepsTickets
<1>7. ASSUME NEW o \in Orders, CancelOrder(o) PROVE TicketsOK'
  <2>1. /\ \A x \in Orders : x # o => orderStatus'[x] = orderStatus[x]
        /\ orderStatus'[o] = "CANCELED" /\ UNCHANGED <<items, qrIssued, redeemed>>
    BY <1>7, <1>a DEF CancelOrder, TypeOK
  <2>2. \A x \in Orders : TicketsOf(x)' = TicketsOf(x)
    BY <2>1 DEF TicketsOf
  <2>3. orderStatus'[o] \notin SoldStatuses
    BY <2>1 DEF SoldStatuses, PaidStatuses
  <2>4. RedeemedIffAllUsed'
    BY <2>1, <2>2, <2>3 DEF IInv, RedeemedIffAllUsed
  <2>5. \A t \in qrIssued \cup redeemed : t[1] \in Orders
    BY <1>a DEF TypeOK, TicketIds
  <2>6. QrFollowsPayment'
    BY <2>1, <2>2, <2>3, <2>5 DEF IInv, QrFollowsPayment
  <2>. QED
    BY <2>4, <2>6
<1>8. ASSUME NEW o, DeleteOrder(o) PROVE TicketsOK'
  BY <1>8, EraseKeepsTickets DEF DeleteOrder
<1>9. ASSUME NEW t \in TicketIds, NEW scan, RedeemTicket(t, scan) PROVE TicketsOK'
  BY <1>9, RedeemKeepsTickets
<1>10. ASSUME NEW e, DeleteEvent(e) PROVE TicketsOK'
  BY <1>10, EraseKeepsTickets DEF DeleteEvent
<1>11. CASE MigrateTo18
  <2>1. \A o \in Orders : orderStatus'[o] = IF orderStatus[o] = "CONFIRMED" THEN "PAID" ELSE orderStatus[o]
    BY <1>11 DEF MigrateTo18
  <2>2. TicketsKept
    BY <1>11, <2>1 DEF MigrateTo18, TicketsKept, SoldStatuses, PaidStatuses
  <2>. QED
    BY <1>11, <2>1, <2>2, SameTickets DEF MigrateTo18
<1>12. CASE UNCHANGED vars
  BY <1>12, <1>b DEF vars
<1>. HIDE DEF eventVars, productVars, promoVars, orderVars, ticketVars, TicketsOK
<1>. QED
  BY <1>1, <1>2, <1>3, <1>4, <1>5, <1>6, <1>7, <1>8, <1>9, <1>10, <1>11, <1>12
  DEF Next, Catalogue, Sales

-----------------------------------------------------------------------------
(***************************************************************************)
(* used_count.                                                             *)
(***************************************************************************)

\* The counter of one promo code covers its uses, and equals them while every
\* event is there.
PromoCounted(c) ==
  promoRow[c] = "live" =>
    /\ usedCount[c] >= Cardinality(PromoUses(c))
    /\ (\A e \in Events : eventRow[e] = "live") => usedCount[c] = Cardinality(PromoUses(c))

\* An order that returns its use leaves the counter right.
LEMMA ReturnKeepsUses ==
  ASSUME IInv, NEW o \in Orders, orderStatus[o] \notin {"CANCELED", "gone"},
         UNCHANGED <<promoRow, eventRow>>, usedCount' = ReturnPromo(orderPromo[o]),
         orderStatus'[o] \in {"CANCELED", "gone"},
         \A x \in Orders : x # o =>
            orderStatus'[x] = orderStatus[x] /\ orderPromo'[x] = orderPromo[x],
         NEW c \in Promos
  PROVE  PromoCounted(c)'
<1>. SUFFICES ASSUME promoRow[c] = "live"
              PROVE  /\ usedCount'[c] >= Cardinality(PromoUses(c)')
                     /\ (\A e \in Events : eventRow[e] = "live") =>
                          usedCount'[c] = Cardinality(PromoUses(c)')
  BY DEF PromoCounted
<1>1. /\ usedCount[c] >= Cardinality(PromoUses(c))
      /\ (\A e \in Events : eventRow[e] = "live") => usedCount[c] = Cardinality(PromoUses(c))
  BY DEF IInv, PromoUseCounted
<1>2. PromoUses(c)' = PromoUses(c) \ {o}
  BY DEF PromoUses
<1>3. IsFiniteSet(PromoUses(c))
  BY UsesFinite
<1>4. Cardinality(PromoUses(c) \ {o}) =
        IF o \in PromoUses(c) THEN Cardinality(PromoUses(c)) - 1 ELSE Cardinality(PromoUses(c))
  BY <1>3, FS_RemoveElement
<1>5. Cardinality(PromoUses(c)) \in Nat /\ usedCount[c] \in Nat
  BY <1>3, FS_CardinalityType DEF IInv, TypeOK
<1>6. CASE orderPromo[o] = c
  <2>1. o \in PromoUses(c)
    BY <1>6 DEF PromoUses
  <2>2. Cardinality(PromoUses(c)) # 0
    BY <1>3, <2>1, FS_EmptySet
  <2>3. usedCount'[c] = usedCount[c] - 1
    <3>1. usedCount' = [usedCount EXCEPT ![c] = IF @ = 0 THEN 0 ELSE @ - 1]
      BY <1>6 DEF ReturnPromo
    <3>2. usedCount[c] # 0
      BY <1>1, <1>5, <2>2
    <3>. QED
      BY <3>1, <3>2 DEF IInv, TypeOK
  <2>. QED
    BY <1>1, <1>2, <1>4, <1>5, <2>1, <2>2, <2>3
<1>7. CASE orderPromo[o] # c
  <2>1. o \notin PromoUses(c)
    BY <1>7 DEF PromoUses
  <2>2. usedCount'[c] = usedCount[c]
    BY <1>7 DEF ReturnPromo, IInv, TypeOK
  <2>. QED
    BY <1>1, <1>2, <1>4, <2>1, <2>2
<1>. QED
  BY <1>6, <1>7

\* A step that leaves a code's counter and uses alone leaves it right.
LEMMA SameUses ==
  ASSUME IInv, NEW c \in Promos, PromoUses(c)' = PromoUses(c),
         usedCount'[c] = usedCount[c], UNCHANGED eventRow,
         promoRow'[c] = "live" => promoRow[c] = "live"
  PROVE  PromoCounted(c)'
  BY DEF PromoCounted, IInv, PromoUseCounted

LEMMA PromoStep ==
  ASSUME IInv, [Next]_vars, NEW c \in Promos
  PROVE  PromoCounted(c)'
<1>. USE DEF eventVars, productVars, promoVars, orderVars, ticketVars
<1>a. TypeOK
  BY DEF IInv
<1>b. ASSUME UNCHANGED <<promoRow, usedCount, eventRow, orderStatus, orderPromo>>
      PROVE  PromoCounted(c)'
  BY <1>b, SameUses DEF PromoUses
<1>1. ASSUME NEW p, DeleteProduct(p) PROVE PromoCounted(c)'
  BY <1>1, <1>b DEF DeleteProduct
<1>2. ASSUME NEW p, NEW limit, NEW isActive, NEW isPriced,
             CreateProduct(p, limit, isActive, isPriced) \/ UpdateProduct(p, limit, isActive, isPriced)
      PROVE  PromoCounted(c)'
  BY <1>2, <1>b DEF CreateProduct, UpdateProduct
<1>3. ASSUME NEW d, PromoWindowTurns(d) PROVE PromoCounted(c)'
  BY <1>3, <1>b DEF PromoWindowTurns
<1>4. ASSUME NEW d \in Promos, DeletePromoCode(d) PROVE PromoCounted(c)'
  <2>1. CASE c = d
    BY <1>4, <1>a, <2>1 DEF DeletePromoCode, TypeOK, PromoCounted
  <2>2. CASE c # d
    <3>1. PromoUses(c)' = PromoUses(c)
      BY <1>4, <2>2, ConstantsAssumption DEF DeletePromoCode, PromoUses
    <3>2. promoRow'[c] = promoRow[c] /\ usedCount'[c] = usedCount[c] /\ UNCHANGED eventRow
      BY <1>4, <1>a, <2>2 DEF DeletePromoCode, TypeOK
    <3>. QED
      BY <3>1, <3>2, SameUses
  <2>. QED
    BY <2>1, <2>2
<1>5. ASSUME NEW d \in Promos, NEW limit, NEW open, NEW scope,
             CreatePromoCode(d, limit, open, scope)
      PROVE  PromoCounted(c)'
  <2>1. PromoUses(c)' = PromoUses(c) /\ usedCount' = usedCount /\ UNCHANGED eventRow
    BY <1>5 DEF CreatePromoCode, PromoUses
  <2>2. CASE c = d
    <3>1. promoRow[c] = "none" /\ usedCount[c] = 0
      BY <1>5, <2>2 DEF CreatePromoCode, IInv
    <3>2. PromoUses(c) = {}
      BY <3>1 DEF IInv, OrderWellFormed, PromoUses
    <3>. QED
      BY <2>1, <3>1, <3>2, FS_EmptySet DEF PromoCounted
  <2>3. CASE c # d
    <3>1. promoRow'[c] = promoRow[c]
      BY <1>5, <1>a, <2>3 DEF CreatePromoCode, TypeOK
    <3>. QED
      BY <2>1, <3>1, SameUses
  <2>. QED
    BY <2>2, <2>3
<1>6. ASSUME NEW d, NEW limit, NEW open, NEW scope, UpdatePromoCode(d, limit, open, scope)
      PROVE  PromoCounted(c)'
  BY <1>6, <1>b DEF UpdatePromoCode
<1>7. ASSUME NEW o \in Orders, NEW e, NEW qty, NEW d \in Promos \cup {NoPromo},
             CreateOrder(o, e, qty, d)
      PROVE  PromoCounted(c)'
  <2>1. /\ orderStatus[o] = "none" /\ orderStatus'[o] = "PENDING" /\ orderPromo'[o] = d
        /\ \A x \in Orders : x # o => orderStatus'[x] = orderStatus[x] /\ orderPromo'[x] = orderPromo[x]
        /\ UNCHANGED <<promoRow, eventRow>> /\ usedCount' = UsePromo(d)
    BY <1>7, <1>a DEF CreateOrder, TypeOK
  <2>2. orderPromo[o] = NoPromo
    BY <2>1 DEF IInv, OrderWellFormed
  <2>3. CASE d = c
    <3>1. PromoUses(c)' = PromoUses(c) \cup {o} /\ o \notin PromoUses(c)
      BY <2>1, <2>2, <2>3, ConstantsAssumption DEF PromoUses
    <3>2. usedCount'[c] = usedCount[c] + 1
      BY <1>a, <2>1, <2>3 DEF UsePromo, TypeOK
    <3>3. IsFiniteSet(PromoUses(c))
      BY UsesFinite
    <3>4. Cardinality(PromoUses(c) \cup {o}) = Cardinality(PromoUses(c)) + 1
      BY <3>1, <3>3, FS_AddElement
    <3>5. Cardinality(PromoUses(c)) \in Nat /\ usedCount[c] \in Nat
      BY <1>a, <3>3, FS_CardinalityType DEF TypeOK
    <3>. QED
      BY <2>1, <3>1, <3>2, <3>4, <3>5 DEF PromoCounted, IInv, PromoUseCounted
  <2>4. CASE d # c
    <3>1. PromoUses(c)' = PromoUses(c)
      BY <2>1, <2>2, <2>4, ConstantsAssumption DEF PromoUses
    <3>2. usedCount'[c] = usedCount[c]
      BY <1>a, <2>1, <2>4 DEF UsePromo, TypeOK
    <3>. QED
      BY <2>1, <3>1, <3>2, SameUses
  <2>. QED
    BY <2>3, <2>4
<1>8. ASSUME NEW o \in Orders, ConfirmPending(o) PROVE PromoCounted(c)'
  <2>1. \A x \in Orders : orderStatus'[x] \in {"CANCELED", "gone"} <=> orderStatus[x] \in {"CANCELED", "gone"}
    BY <1>8, <1>a DEF ConfirmPending, PaidStatus, TypeOK
  <2>2. PromoUses(c)' = PromoUses(c)
    BY <1>8, <2>1 DEF ConfirmPending, PromoUses
  <2>. QED
    BY <1>8, <2>2, SameUses DEF ConfirmPending
<1>9. ASSUME NEW o, ConfirmAgain(o) PROVE PromoCounted(c)'
  BY <1>9, <1>b DEF ConfirmAgain
<1>10. ASSUME NEW o \in Orders, CancelOrder(o) PROVE PromoCounted(c)'
  <2>1. /\ orderStatus[o] \notin {"CANCELED", "gone"} /\ orderStatus'[o] = "CANCELED"
        /\ \A x \in Orders : x # o => orderStatus'[x] = orderStatus[x]
        /\ UNCHANGED <<promoRow, eventRow, orderPromo>> /\ usedCount' = ReturnPromo(orderPromo[o])
    BY <1>10, <1>a DEF CancelOrder, PaidStatuses, TypeOK
  <2>. QED
    BY <2>1, ReturnKeepsUses
<1>11. ASSUME NEW o \in Orders, DeleteOrder(o) PROVE PromoCounted(c)'
  <2>1. /\ orderStatus[o] # "gone" /\ orderStatus'[o] = "gone"
        /\ \A x \in Orders : x # o => orderStatus'[x] = orderStatus[x] /\ orderPromo'[x] = orderPromo[x]
        /\ UNCHANGED <<promoRow, eventRow>>
    BY <1>11 DEF DeleteOrder, EraseOrders
  <2>2. CASE orderStatus[o] # "CANCELED"
    <3>1. usedCount' = ReturnPromo(orderPromo[o])
      BY <1>11, <2>2 DEF DeleteOrder
    <3>. QED
      BY <2>1, <2>2, <3>1, ReturnKeepsUses
  <2>3. CASE orderStatus[o] = "CANCELED"
    <3>1. usedCount' = usedCount
      BY <1>11, <2>3 DEF DeleteOrder
    <3>2. PromoUses(c)' = PromoUses(c)
      BY <2>1, <2>3 DEF PromoUses
    <3>. QED
      BY <2>1, <3>1, <3>2, SameUses
  <2>. QED
    BY <2>2, <2>3
<1>12. ASSUME NEW t \in TicketIds, NEW scan, RedeemTicket(t, scan) PROVE PromoCounted(c)'
  <2>1. \A x \in Orders : orderStatus'[x] \in {"CANCELED", "gone"} <=> orderStatus[x] \in {"CANCELED", "gone"}
    BY <1>12, <1>a DEF RedeemTicket, SoldStatuses, PaidStatuses, TypeOK
  <2>2. PromoUses(c)' = PromoUses(c)
    BY <1>12, <2>1 DEF RedeemTicket, PromoUses
  <2>. QED
    BY <1>12, <2>2, SameUses DEF RedeemTicket
<1>13. ASSUME NEW e \in Events, DeleteEvent(e) PROVE PromoCounted(c)'
  <2>1. PromoUses(c)' \subseteq PromoUses(c)
    BY <1>13, ConstantsAssumption DEF DeleteEvent, EraseOrders, PromoUses
  <2>2. IsFiniteSet(PromoUses(c))
    BY UsesFinite
  <2>3. Cardinality(PromoUses(c)') <= Cardinality(PromoUses(c))
    BY <2>1, <2>2, FS_Subset
  <2>4. /\ Cardinality(PromoUses(c)) \in Nat /\ Cardinality(PromoUses(c)') \in Nat
        /\ usedCount[c] \in Nat
    BY <1>a, <2>1, <2>2, FS_Subset, FS_CardinalityType DEF TypeOK
  <2>5. eventRow'[e] = "gone" /\ UNCHANGED <<promoRow, usedCount>>
    BY <1>13, <1>a DEF DeleteEvent, TypeOK
  <2>6. promoRow[c] = "live" => usedCount[c] >= Cardinality(PromoUses(c)')
    BY <2>3, <2>4 DEF IInv, PromoUseCounted
  <2>. QED
    BY <2>5, <2>6 DEF PromoCounted
<1>14. CASE MigrateTo18
  <2>1. \A x \in Orders : orderStatus'[x] \in {"CANCELED", "gone"} <=> orderStatus[x] \in {"CANCELED", "gone"}
    BY <1>14, <1>a DEF MigrateTo18, TypeOK
  <2>2. PromoUses(c)' = PromoUses(c)
    BY <1>14, <2>1 DEF MigrateTo18, PromoUses
  <2>. QED
    BY <1>14, <2>2, SameUses DEF MigrateTo18
<1>15. CASE UNCHANGED vars
  BY <1>15, <1>b DEF vars
<1>. HIDE DEF eventVars, productVars, promoVars, orderVars, ticketVars
<1>. QED
  BY <1>1, <1>2, <1>3, <1>4, <1>5, <1>6, <1>7, <1>8, <1>9, <1>10, <1>11, <1>12,
     <1>13, <1>14, <1>15 DEF Next, Catalogue, Sales, ConfirmOrder

-----------------------------------------------------------------------------
(***************************************************************************)
(* The spelling of the paid status.                                        *)
(***************************************************************************)

\* Payments write the spelling of the schema; the migration respells all rows.
LEMMA SpellingStep ==
  ASSUME TypeOK, SpelledBySchema, [Next]_vars
  PROVE  SpelledBySchema'
<1>. USE DEF SpelledBySchema, eventVars, productVars, promoVars, orderVars, ticketVars
<1>1. ASSUME NEW p \in Products, DeleteProduct(p) PROVE SpelledBySchema'
  BY <1>1 DEF DeleteProduct
<1>2. ASSUME NEW p, NEW limit, NEW isActive, NEW isPriced,
             CreateProduct(p, limit, isActive, isPriced)
             \/ UpdateProduct(p, limit, isActive, isPriced)
      PROVE  SpelledBySchema'
  BY <1>2 DEF CreateProduct, UpdateProduct
<1>3. ASSUME NEW c, PromoWindowTurns(c) \/ DeletePromoCode(c) PROVE SpelledBySchema'
  BY <1>3 DEF PromoWindowTurns, DeletePromoCode
<1>4. ASSUME NEW c, NEW limit, NEW open, NEW scope,
             CreatePromoCode(c, limit, open, scope) \/ UpdatePromoCode(c, limit, open, scope)
      PROVE  SpelledBySchema'
  BY <1>4 DEF CreatePromoCode, UpdatePromoCode
<1>5. ASSUME NEW o \in Orders, NEW e, NEW qty, NEW c, CreateOrder(o, e, qty, c)
      PROVE  SpelledBySchema'
  BY <1>5 DEF CreateOrder, TypeOK
<1>6. ASSUME NEW o \in Orders, ConfirmPending(o) PROVE SpelledBySchema'
  BY <1>6 DEF ConfirmPending, PaidStatus, TypeOK
<1>7. ASSUME NEW o, ConfirmAgain(o) PROVE SpelledBySchema'
  BY <1>7 DEF ConfirmAgain
<1>8. ASSUME NEW o \in Orders, CancelOrder(o) PROVE SpelledBySchema'
  BY <1>8 DEF CancelOrder, TypeOK
<1>9. ASSUME NEW o, DeleteOrder(o) PROVE SpelledBySchema'
  BY <1>9 DEF DeleteOrder, EraseOrders
<1>10. ASSUME NEW t \in TicketIds, NEW scan, RedeemTicket(t, scan) PROVE SpelledBySchema'
  <2>1. t[1] \in Orders
    BY DEF TicketIds
  <2>. QED
    BY <1>10, <2>1 DEF RedeemTicket, TypeOK
<1>11. ASSUME NEW e, DeleteEvent(e) PROVE SpelledBySchema'
  BY <1>11 DEF DeleteEvent, EraseOrders
<1>12. CASE MigrateTo18
  BY <1>12 DEF MigrateTo18
<1>13. CASE UNCHANGED vars
  BY <1>13 DEF vars
<1>. HIDE DEF SpelledBySchema, eventVars, productVars, promoVars, orderVars, ticketVars
<1>. QED
  BY <1>1, <1>2, <1>3, <1>4, <1>5, <1>6, <1>7, <1>8, <1>9, <1>10, <1>11, <1>12, <1>13
  DEF Next, Catalogue, Sales, ConfirmOrder

-----------------------------------------------------------------------------
(***************************************************************************)
(* The inductive invariant and what follows from it.                       *)
(***************************************************************************)

\* An empty shop satisfies the invariant.
LEMMA InvInit == Init => IInv
<1>. SUFFICES ASSUME Init PROVE IInv
  OBVIOUS
<1>1. TypeOK
  BY ConstantsAssumption DEF Init, TypeOK, NoItems, Products, Quantities
<1>2. \A o \in Orders : orderStatus[o] = "none" /\ items[o] = NoItems /\ orderPromo[o] = NoPromo
  BY DEF Init
<1>3. \A o \in Orders : OrderWellFormed(o)
  BY <1>2, ConstantsAssumption DEF OrderWellFormed, NoItems
<1>4. \A p \in Products : soldCount[p] = 0 /\ productRow[p] = "none"
  BY DEF Init
<1>5. \A c \in Promos : usedCount[c] = 0 /\ promoRow[c] = "none"
  BY DEF Init
<1>6. SoldCountExact /\ PromoUseCounted
  BY <1>4, <1>5 DEF SoldCountExact, PromoUseCounted
<1>7. RedeemedIffAllUsed
  BY <1>2 DEF RedeemedIffAllUsed, SoldStatuses, PaidStatuses
<1>8. QrFollowsPayment
  <2>1. qrIssued \cup redeemed = {}
    BY DEF Init
  <2>. QED
    BY <1>2, <2>1 DEF QrFollowsPayment, SoldStatuses, PaidStatuses
<1>9. SpelledBySchema
  BY <1>2 DEF SpelledBySchema
<1>. QED
  BY <1>1, <1>3, <1>4, <1>5, <1>6, <1>7, <1>8, <1>9 DEF IInv

\* Every step keeps the invariant, part by part.
LEMMA InvStep == IInv /\ [Next]_vars => IInv'
<1>. SUFFICES ASSUME IInv, [Next]_vars PROVE IInv'
  OBVIOUS
<1>1. TypeOK'
  BY TypeStep DEF IInv
<1>2. \A o \in Orders : OrderWellFormed(o)'
  BY WellFormedStep
<1>3. /\ \A p \in Products : productRow'[p] = "none" => soldCount'[p] = 0
      /\ \A c \in Promos : promoRow'[c] = "none" => usedCount'[c] = 0
  BY NewRowsStep
<1>4. SoldCountExact'
  BY SoldCountStep
<1>5. PromoUseCounted'
  <2>1. \A c \in Promos : PromoCounted(c)'
    BY PromoStep
  <2>. QED
    BY <2>1 DEF PromoCounted, PromoUseCounted
<1>6. RedeemedIffAllUsed' /\ QrFollowsPayment'
  BY TicketsStep
<1>7. SpelledBySchema'
  BY SpellingStep DEF IInv
<1>. QED
  BY <1>1, <1>2, <1>3, <1>4, <1>5, <1>6, <1>7 DEF IInv

LEMMA InvCorrect == Spec => []IInv
  BY InvInit, InvStep, PTL DEF Spec

\* sold_count of every product always equals the units its sold orders hold.
THEOREM SoldCountTheorem == Spec => []SoldCountExact
<1>1. IInv => SoldCountExact
  BY DEF IInv
<1>. QED
  BY <1>1, InvCorrect, PTL

\* used_count of every promo code covers the orders that hold it, and equals
\* them as long as no event was deleted.
THEOREM PromoUseTheorem == Spec => []PromoUseCounted
<1>1. IInv => PromoUseCounted
  BY DEF IInv
<1>. QED
  BY <1>1, InvCorrect, PTL

\* An order is REDEEMED exactly when its last ticket was used.
THEOREM RedeemedTheorem == Spec => []RedeemedIffAllUsed
<1>1. IInv => RedeemedIffAllUsed
  BY DEF IInv
<1>. QED
  BY <1>1, InvCorrect, PTL

\* Sold orders have all their QR codes, and only tickets of orders that were
\* paid have a code or a redemption.
THEOREM QrTheorem == Spec => []QrFollowsPayment
<1>1. IInv => QrFollowsPayment
  BY DEF IInv
<1>. QED
  BY <1>1, InvCorrect, PTL

\* No order has a status that the schema in force rejects, whenever the
\* migration comes.
THEOREM SpellingTheorem == Spec => []SpelledBySchema
<1>1. IInv => SpelledBySchema
  BY DEF IInv
<1>. QED
  BY <1>1, InvCorrect, PTL

-----------------------------------------------------------------------------
(***************************************************************************)
(* Limits.                                                                 *)
(***************************************************************************)

\* Only a confirmation of a pending order adds sold units.
LEMMA OnlyConfirmSells ==
  ASSUME IInv, [Next]_vars, \A o \in Orders : ~ConfirmPending(o)
  PROVE  \A o \in Orders :
           orderStatus'[o] \in SoldStatuses => orderStatus[o] \in SoldStatuses /\ items'[o] = items[o]
<1>. DEFINE NothingSold ==
       \A o \in Orders :
         orderStatus'[o] \in SoldStatuses => orderStatus[o] \in SoldStatuses /\ items'[o] = items[o]
<1>. SUFFICES NothingSold
  OBVIOUS
<1>. USE DEF eventVars, productVars, promoVars, orderVars, ticketVars
<1>a. TypeOK
  BY DEF IInv
<1>b. ASSUME UNCHANGED <<orderStatus, items>> PROVE NothingSold
  BY <1>b
<1>1. ASSUME NEW p, DeleteProduct(p) PROVE NothingSold
  BY <1>1 DEF DeleteProduct
<1>2. ASSUME NEW p, NEW limit, NEW isActive, NEW isPriced,
             CreateProduct(p, limit, isActive, isPriced) \/ UpdateProduct(p, limit, isActive, isPriced)
      PROVE  NothingSold
  BY <1>2 DEF CreateProduct, UpdateProduct
<1>3. ASSUME NEW c, PromoWindowTurns(c) \/ DeletePromoCode(c) PROVE NothingSold
  BY <1>3 DEF PromoWindowTurns, DeletePromoCode
<1>4. ASSUME NEW c, NEW limit, NEW open, NEW scope,
             CreatePromoCode(c, limit, open, scope) \/ UpdatePromoCode(c, limit, open, scope)
      PROVE  NothingSold
  BY <1>4 DEF CreatePromoCode, UpdatePromoCode
<1>5. ASSUME NEW o \in Orders, NEW e, NEW qty, NEW c, CreateOrder(o, e, qty, c)
      PROVE  NothingSold
  BY <1>5, <1>a DEF CreateOrder, TypeOK, SoldStatuses, PaidStatuses
<1>6. ASSUME NEW o, ConfirmAgain(o) PROVE NothingSold
  BY <1>6 DEF ConfirmAgain
<1>7. ASSUME NEW o \in Orders, CancelOrder(o) PROVE NothingSold
  BY <1>7, <1>a DEF CancelOrder, TypeOK, SoldStatuses, PaidStatuses
<1>8. ASSUME NEW o, DeleteOrder(o) PROVE NothingSold
  BY <1>8 DEF DeleteOrder, EraseOrders, SoldStatuses, PaidStatuses
<1>9. ASSUME NEW t \in TicketIds, NEW scan, RedeemTicket(t, scan) PROVE NothingSold
  <2>1. t[1] \in Orders
    BY DEF TicketIds
  <2>. QED
    BY <1>9, <1>a, <2>1 DEF RedeemTicket, TypeOK
<1>10. ASSUME NEW e, DeleteEvent(e) PROVE NothingSold
  BY <1>10 DEF DeleteEvent, EraseOrders, SoldStatuses, PaidStatuses
<1>11. CASE MigrateTo18
  BY <1>11 DEF MigrateTo18, SoldStatuses, PaidStatuses
<1>12. CASE UNCHANGED vars
  BY <1>12 DEF vars
<1>. HIDE DEF eventVars, productVars, promoVars, orderVars, ticketVars, NothingSold
<1>. QED
  BY <1>1, <1>2, <1>3, <1>4, <1>5, <1>6, <1>7, <1>8, <1>9, <1>10, <1>11, <1>12
  DEF Next, Catalogue, Sales, ConfirmOrder

\* A step that adds sold units of a product leaves them within its limit.
LEMMA SellWithinLimit ==
  ASSUME IInv, [Next]_vars, NEW p \in Products,
         Cardinality(SoldUnits(p)') > Cardinality(SoldUnits(p))
  PROVE  /\ productRow[p] = "live"
         /\ inventoryLimit[p] > 0 => Cardinality(SoldUnits(p)') <= inventoryLimit[p]
<1>a. TypeOK /\ SoldCountExact'
  BY SoldCountStep DEF IInv
<1>b. ~(SoldUnits(p)' \subseteq SoldUnits(p))
  <2>1. SUFFICES ASSUME SoldUnits(p)' \subseteq SoldUnits(p) PROVE FALSE
    OBVIOUS
  <2>2. IsFiniteSet(SoldUnits(p))
    BY UnitsFinite
  <2>3. /\ IsFiniteSet(SoldUnits(p)')
        /\ Cardinality(SoldUnits(p)') <= Cardinality(SoldUnits(p))
    BY <2>1, <2>2, FS_Subset
  <2>4. Cardinality(SoldUnits(p)) \in Nat /\ Cardinality(SoldUnits(p)') \in Nat
    BY <2>2, <2>3, FS_CardinalityType
  <2>. QED
    BY <2>3, <2>4
<1>1. PICK o \in Orders : ConfirmPending(o)
  <2>1. SUFFICES ASSUME \A o \in Orders : ~ConfirmPending(o) PROVE FALSE
    OBVIOUS
  <2>2. \A o \in Orders :
          orderStatus'[o] \in SoldStatuses => orderStatus[o] \in SoldStatuses /\ items'[o] = items[o]
    BY <2>1, OnlyConfirmSells
  <2>3. SoldUnits(p)' \subseteq SoldUnits(p)
    BY <2>2 DEF SoldUnits
  <2>. QED
    BY <1>b, <2>3
<1>2. /\ items' = items /\ productRow' = productRow
      /\ soldCount'[p] = soldCount[p] + items[o][p]
      /\ items[o][p] > 0 => HasRoom(p, items[o][p])
      /\ \A x \in Orders : x # o => orderStatus'[x] = orderStatus[x]
  BY <1>1, <1>a DEF ConfirmPending, TypeOK
<1>3. items[o][p] \in 0..MaxQty /\ soldCount[p] \in Nat /\ inventoryLimit[p] \in Nat
  BY <1>a, ConstantsAssumption DEF TypeOK, Quantities
<1>4. items[o][p] > 0
  <2>1. SUFFICES ASSUME items[o][p] = 0 PROVE FALSE
    BY <1>3, ConstantsAssumption
  <2>2. SoldUnits(p)' \subseteq SoldUnits(p)
    BY <1>2, <2>1, ConstantsAssumption DEF SoldUnits
  <2>. QED
    BY <1>b, <2>2
<1>5. productRow[p] = "live" /\ soldCount'[p] = Cardinality(SoldUnits(p)')
  BY <1>a, <1>2, <1>4 DEF HasRoom, SoldCountExact
<1>6. inventoryLimit[p] > 0 => soldCount[p] + items[o][p] <= inventoryLimit[p]
  BY <1>2, <1>4 DEF HasRoom
<1>. QED
  BY <1>2, <1>3, <1>5, <1>6

\* No payment ever sells more of a product than the limit in force.
THEOREM NoOversellTheorem == Spec => NoOversell
<1>. DEFINE A == \A p \in Products :
                   Cardinality(SoldUnits(p)') > Cardinality(SoldUnits(p)) =>
                     /\ productRow[p] = "live"
                     /\ inventoryLimit[p] > 0 => Cardinality(SoldUnits(p)') <= inventoryLimit[p]
<1>1. IInv /\ [Next]_vars => [A]_vars
  BY SellWithinLimit
<1>. HIDE DEF A
<1>2. Spec => [][A]_vars
  BY <1>1, InvCorrect, PTL DEF Spec
<1>. QED
  BY <1>2 DEF A, NoOversell

\* Only an order placed with the code adds a use of it.
LEMMA OnlyOrdersUse ==
  ASSUME IInv, [Next]_vars, NEW c \in Promos,
         \A o \in Orders, e \in Events, qty \in Quantities : ~CreateOrder(o, e, qty, c)
  PROVE  PromoUses(c)' \subseteq PromoUses(c)
<1>. DEFINE NoneUsed ==
       \A o \in Orders :
         orderPromo'[o] = c /\ orderStatus'[o] \notin {"CANCELED", "gone"}
         => orderPromo[o] = c /\ orderStatus[o] \notin {"CANCELED", "gone"}
<1>. SUFFICES NoneUsed
  BY DEF PromoUses
<1>. USE DEF eventVars, productVars, promoVars, orderVars, ticketVars
<1>a. TypeOK /\ c # NoPromo
  BY ConstantsAssumption DEF IInv
<1>1. ASSUME NEW p, DeleteProduct(p) PROVE NoneUsed
  BY <1>1 DEF DeleteProduct
<1>2. ASSUME NEW p, NEW limit, NEW isActive, NEW isPriced,
             CreateProduct(p, limit, isActive, isPriced) \/ UpdateProduct(p, limit, isActive, isPriced)
      PROVE  NoneUsed
  BY <1>2 DEF CreateProduct, UpdateProduct
<1>3. ASSUME NEW d, PromoWindowTurns(d) \/ DeletePromoCode(d) PROVE NoneUsed
  BY <1>3, <1>a DEF PromoWindowTurns, DeletePromoCode
<1>4. ASSUME NEW d, NEW limit, NEW open, NEW scope,
             CreatePromoCode(d, limit, open, scope) \/ UpdatePromoCode(d, limit, open, scope)
      PROVE  NoneUsed
  BY <1>4 DEF CreatePromoCode, UpdatePromoCode
<1>5. ASSUME NEW o \in Orders, NEW e \in Events, NEW qty \in Quantities, NEW d,
             CreateOrder(o, e, qty, d)
      PROVE  NoneUsed
  <2>1. d # c
    BY <1>5
  <2>. QED
    BY <1>5, <1>a, <2>1 DEF CreateOrder, TypeOK
<1>6. ASSUME NEW o \in Orders, ConfirmPending(o) PROVE NoneUsed
  BY <1>6, <1>a DEF ConfirmPending, TypeOK
<1>7. ASSUME NEW o, ConfirmAgain(o) PROVE NoneUsed
  BY <1>7 DEF ConfirmAgain
<1>8. ASSUME NEW o \in Orders, CancelOrder(o) PROVE NoneUsed
  BY <1>8, <1>a DEF CancelOrder, TypeOK
<1>9. ASSUME NEW o, DeleteOrder(o) PROVE NoneUsed
  BY <1>9 DEF DeleteOrder, EraseOrders
<1>10. ASSUME NEW t \in TicketIds, NEW scan, RedeemTicket(t, scan) PROVE NoneUsed
  <2>1. t[1] \in Orders
    BY DEF TicketIds
  <2>. QED
    BY <1>10, <1>a, <2>1 DEF RedeemTicket, TypeOK, SoldStatuses, PaidStatuses
<1>11. ASSUME NEW e, DeleteEvent(e) PROVE NoneUsed
  BY <1>11 DEF DeleteEvent, EraseOrders
<1>12. CASE MigrateTo18
  BY <1>12 DEF MigrateTo18
<1>13. CASE UNCHANGED vars
  BY <1>13 DEF vars
<1>. HIDE DEF eventVars, productVars, promoVars, orderVars, ticketVars, NoneUsed
<1>. QED
  BY <1>1, <1>2, <1>3, <1>4, <1>5, <1>6, <1>7, <1>8, <1>9, <1>10, <1>11, <1>12, <1>13
  DEF Next, Catalogue, Sales, ConfirmOrder

\* A step that adds a use of a code leaves its uses within the limit.
LEMMA UseWithinLimit ==
  ASSUME IInv, [Next]_vars, NEW c \in Promos,
         Cardinality(PromoUses(c)') > Cardinality(PromoUses(c))
  PROVE  usageLimit[c] = 0 \/ Cardinality(PromoUses(c)') <= usageLimit[c]
<1>a. TypeOK
  BY DEF IInv
<1>b. IsFiniteSet(PromoUses(c))
  BY UsesFinite
<1>c. ~(PromoUses(c)' \subseteq PromoUses(c))
  <2>1. SUFFICES ASSUME PromoUses(c)' \subseteq PromoUses(c) PROVE FALSE
    OBVIOUS
  <2>2. /\ IsFiniteSet(PromoUses(c)')
        /\ Cardinality(PromoUses(c)') <= Cardinality(PromoUses(c))
    BY <1>b, <2>1, FS_Subset
  <2>3. Cardinality(PromoUses(c)) \in Nat /\ Cardinality(PromoUses(c)') \in Nat
    BY <1>b, <2>2, FS_CardinalityType
  <2>. QED
    BY <2>2, <2>3
<1>1. PICK o \in Orders, e \in Events, qty \in Quantities : CreateOrder(o, e, qty, c)
  BY <1>c, OnlyOrdersUse
<1>2. /\ orderStatus[o] = "none" /\ PromoValid(c, e)
      /\ \A x \in Orders : x # o => orderStatus'[x] = orderStatus[x] /\ orderPromo'[x] = orderPromo[x]
  BY <1>1, <1>a, ConstantsAssumption DEF CreateOrder, TypeOK
<1>3. PromoUses(c)' \subseteq PromoUses(c) \cup {o}
  BY <1>2 DEF PromoUses
<1>4. o \notin PromoUses(c)
  BY <1>2, ConstantsAssumption DEF IInv, OrderWellFormed, PromoUses
<1>5. /\ IsFiniteSet(PromoUses(c) \cup {o})
      /\ Cardinality(PromoUses(c) \cup {o}) = Cardinality(PromoUses(c)) + 1
  BY <1>b, <1>4, FS_AddElement
<1>6. Cardinality(PromoUses(c)') <= Cardinality(PromoUses(c) \cup {o})
  BY <1>3, <1>5, FS_Subset
<1>7. usedCount[c] >= Cardinality(PromoUses(c)) /\ usedCount[c] \in Nat /\ usageLimit[c] \in Nat
  BY <1>2, ConstantsAssumption DEF IInv, PromoUseCounted, PromoValid, TypeOK
<1>8. Cardinality(PromoUses(c)) \in Nat /\ Cardinality(PromoUses(c)') \in Nat
  <2>1. IsFiniteSet(PromoUses(c)')
    BY <1>3, <1>5, FS_Subset
  <2>. QED
    BY <1>b, <2>1, FS_CardinalityType
<1>9. usageLimit[c] > 0 => usedCount[c] < usageLimit[c]
  BY <1>2 DEF PromoValid
<1>. QED
  BY <1>5, <1>6, <1>7, <1>8, <1>9

\* No order takes a promo code beyond the usage limit in force.
THEOREM PromoCapTheorem == Spec => PromoCapHeld
<1>. DEFINE A == \A c \in Promos :
                   Cardinality(PromoUses(c)') > Cardinality(PromoUses(c)) =>
                     (usageLimit[c] = 0 \/ Cardinality(PromoUses(c)') <= usageLimit[c])
<1>1. IInv /\ [Next]_vars => [A]_vars
  BY UseWithinLimit
<1>. HIDE DEF A
<1>2. Spec => [][A]_vars
  BY <1>1, InvCorrect, PTL DEF Spec
<1>. QED
  BY <1>2 DEF A, PromoCapHeld
-----------------------------------------------------------------------------
(***************************************************************************)
(* The shop implements the ledger: every transaction is a step of          *)
(* TicketLedger, or changes nothing the ledger speaks of.                  *)
(***************************************************************************)
\* The phase of each status.
LEMMA Phases ==
  /\ LedgerPhase("none") = "none" /\ LedgerPhase("gone") = "gone"
  /\ LedgerPhase("PENDING") = "open" /\ LedgerPhase("CANCELED") = "void"
  /\ LedgerPhase("PAID") = "paid" /\ LedgerPhase("CONFIRMED") = "paid"
  /\ LedgerPhase("REDEEMED") = "used"
  BY DEF LedgerPhase, PaidStatuses

\* A transaction that leaves the phases, the tickets and the redemptions alone
\* is invisible to the ledger.
LEMMA Invisible ==
  ASSUME \A o \in Orders : LedgerPhase(orderStatus[o])' = LedgerPhase(orderStatus[o]),
         UNCHANGED <<items, redeemed>>
  PROVE  UNCHANGED Ledger!vars
<1>1. \A o \in Orders : TicketsOf(o)' = TicketsOf(o)
  BY DEF TicketsOf
<1>. QED
  BY <1>1 DEF Ledger!vars

\* Erasing orders that were placed erases them, and their redemptions, in the
\* ledger.
LEMMA EraseIsErase ==
  ASSUME IInv, NEW S \in SUBSET Orders, EraseOrders(S),
         \A o \in S : orderStatus[o] \notin {"none", "gone"}
  PROVE  Ledger!Erase(S)
<1>a. TypeOK
  BY DEF IInv
<1>1. \A o \in S : LedgerPhase(orderStatus[o]) \notin {"none", "gone"}
  BY <1>a, Phases DEF TypeOK
<1>2. \A o \in Orders :
        LedgerPhase(orderStatus[o])' = IF o \in S THEN "gone" ELSE LedgerPhase(orderStatus[o])
  BY Phases DEF EraseOrders
<1>3. \A o \in Orders : TicketsOf(o)' = IF o \in S THEN {} ELSE TicketsOf(o)
  BY DEF EraseOrders, TicketsOf, TicketIds, NoItems, Products
<1>4. redeemed' = redeemed \ UNION {TicketsOf(o) : o \in S}
  <2>1. \A t \in redeemed : t \in TicketsOf(t[1])
    BY DEF IInv, QrFollowsPayment
  <2>2. \A o \in S : \A t \in TicketsOf(o) : t[1] = o
    BY DEF TicketsOf
  <2>. QED
    BY <2>1, <2>2 DEF EraseOrders
<1>. DEFINE P == [o \in Orders |-> LedgerPhase(orderStatus[o])]
            H == [o \in Orders |-> TicketsOf(o)]
<1>5. P' = [o \in Orders |-> IF o \in S THEN "gone" ELSE P[o]]
  BY <1>2
<1>6. H' = [o \in Orders |-> IF o \in S THEN {} ELSE H[o]]
  BY <1>3
<1>7. redeemed' = redeemed \ UNION {H[o] : o \in S}
  BY <1>4
<1>8. \A o \in S : P[o] \notin {"none", "gone"}
  BY <1>1
<1>. QED
  BY <1>5, <1>6, <1>7, <1>8 DEF Ledger!Erase

\* Every transaction is a step of the ledger or invisible to it.
LEMMA LedgerStep ==
  ASSUME IInv, [Next]_vars
  PROVE  [Ledger!Next]_(Ledger!vars)
<1>. DEFINE P == [o \in Orders |-> LedgerPhase(orderStatus[o])]
            H == [o \in Orders |-> TicketsOf(o)]
<1>. USE DEF eventVars, productVars, promoVars, orderVars, ticketVars
<1>a. TypeOK
  BY DEF IInv
<1>b. ASSUME UNCHANGED <<orderStatus, items, redeemed>> PROVE UNCHANGED Ledger!vars
  BY <1>b, Invisible
<1>1. ASSUME NEW p, DeleteProduct(p) PROVE UNCHANGED Ledger!vars
  BY <1>1, <1>b DEF DeleteProduct
<1>2. ASSUME NEW p, NEW limit, NEW isActive, NEW isPriced,
             CreateProduct(p, limit, isActive, isPriced) \/ UpdateProduct(p, limit, isActive, isPriced)
      PROVE  UNCHANGED Ledger!vars
  BY <1>2, <1>b DEF CreateProduct, UpdateProduct
<1>3. ASSUME NEW c, PromoWindowTurns(c) \/ DeletePromoCode(c) PROVE UNCHANGED Ledger!vars
  BY <1>3, <1>b DEF PromoWindowTurns, DeletePromoCode
<1>4. ASSUME NEW c, NEW limit, NEW open, NEW scope,
             CreatePromoCode(c, limit, open, scope) \/ UpdatePromoCode(c, limit, open, scope)
      PROVE  UNCHANGED Ledger!vars
  BY <1>4, <1>b DEF CreatePromoCode, UpdatePromoCode
<1>5. ASSUME NEW o \in Orders, NEW e, NEW qty, NEW c, CreateOrder(o, e, qty, c)
      PROVE  Ledger!Place(o, TicketsOf(o)')
  <2>1. /\ orderStatus[o] = "none" /\ orderStatus'[o] = "PENDING" /\ redeemed' = redeemed
        /\ \A x \in Orders : x # o => orderStatus'[x] = orderStatus[x] /\ items'[x] = items[x]
    BY <1>5, <1>a DEF CreateOrder, TypeOK
  <2>2. TicketsOf(o)' # {}
    <3>1. OrderWellFormed(o)'
      <4>1. [Next]_vars
        OBVIOUS
      <4>. QED
        BY <4>1, WellFormedStep
    <3>. QED
      BY <2>1, <3>1 DEF OrderWellFormed
  <2>3. TicketsOf(o)' \cap redeemed = {}
    <3>1. \A t \in redeemed : t[1] # o
      BY <2>1, UnpaidTickets
    <3>2. \A t \in TicketsOf(o)' : t[1] = o
      BY DEF TicketsOf
    <3>. QED
      BY <3>1, <3>2
  <2>4. P[o] = "none" /\ P' = [P EXCEPT ![o] = "open"]
    BY <2>1, Phases
  <2>5. H' = [H EXCEPT ![o] = TicketsOf(o)']
    BY <2>1 DEF TicketsOf
  <2>. QED
    BY <2>1, <2>2, <2>3, <2>4, <2>5 DEF Ledger!Place
<1>6. ASSUME NEW o \in Orders, ConfirmPending(o) PROVE Ledger!Pay(o)
  <2>1. /\ orderStatus[o] = "PENDING" /\ orderStatus'[o] \in PaidStatuses
        /\ UNCHANGED <<items, redeemed>>
        /\ \A x \in Orders : x # o => orderStatus'[x] = orderStatus[x]
    BY <1>6, <1>a DEF ConfirmPending, PaidStatus, PaidStatuses, TypeOK
  <2>2. P[o] = "open" /\ P' = [P EXCEPT ![o] = "paid"]
    BY <2>1, Phases DEF PaidStatuses
  <2>3. H' = H
    BY <2>1 DEF TicketsOf
  <2>. QED
    BY <2>1, <2>2, <2>3 DEF Ledger!Pay
<1>7. ASSUME NEW o, ConfirmAgain(o) PROVE UNCHANGED Ledger!vars
  BY <1>7, <1>b DEF ConfirmAgain
<1>8. ASSUME NEW o \in Orders, CancelOrder(o) PROVE Ledger!Void(o)
  <2>1. /\ orderStatus[o] \in {"PENDING", "PAID", "CONFIRMED"} /\ orderStatus'[o] = "CANCELED"
        /\ UNCHANGED <<items, redeemed>>
        /\ \A x \in Orders : x # o => orderStatus'[x] = orderStatus[x]
    BY <1>8, <1>a DEF CancelOrder, PaidStatuses, TypeOK
  <2>2. P[o] \in {"open", "paid"} /\ P' = [P EXCEPT ![o] = "void"]
    BY <2>1, Phases
  <2>3. H' = H
    BY <2>1 DEF TicketsOf
  <2>. QED
    BY <2>1, <2>2, <2>3 DEF Ledger!Void
<1>9. ASSUME NEW o \in Orders, DeleteOrder(o) PROVE Ledger!Erase({o})
  BY <1>9, EraseIsErase DEF DeleteOrder
<1>10. ASSUME NEW t \in TicketIds, NEW scan, RedeemTicket(t, scan)
       PROVE  t[1] \in Orders /\ Ledger!Admit(t[1], t)
  <2>. DEFINE o == t[1]
  <2>1. /\ o \in Orders /\ t \in TicketsOf(o) /\ t \notin redeemed
        /\ orderStatus[o] \in SoldStatuses /\ redeemed' = redeemed \cup {t}
        /\ orderStatus' = [orderStatus EXCEPT ![o] =
              IF TicketsOf(o) \subseteq redeemed' THEN "REDEEMED" ELSE @]
        /\ items' = items
    BY <1>10 DEF RedeemTicket, TicketIds
  <2>. HIDE DEF o
  <2>2. orderStatus[o] \in PaidStatuses
    BY <2>1 DEF IInv, RedeemedIffAllUsed, SoldStatuses
  <2>3. P[o] = "paid" /\ t \in H[o] \ redeemed /\ H' = H
    BY <2>1, <2>2, Phases DEF PaidStatuses, TicketsOf
  <2>4. P' = [P EXCEPT ![o] = IF H[o] \subseteq redeemed' THEN "used" ELSE @]
    BY <2>1, <2>3, <1>a, Phases DEF TypeOK
  <2>5. Ledger!Admit(o, t)
    BY <2>1, <2>3, <2>4 DEF Ledger!Admit
  <2>. QED
    BY <2>1, <2>5 DEF o
<1>11. ASSUME NEW e \in Events, DeleteEvent(e)
       PROVE  \E S \in SUBSET Orders : Ledger!Erase(S)
  <2>. DEFINE S == {o \in Orders : OrderOfEvent(o, e)}
  <2>1. EraseOrders(S)
    BY <1>11 DEF DeleteEvent
  <2>2. \A o \in S : orderStatus[o] \notin {"none", "gone"}
    <3>1. \A o \in S : items[o] # NoItems
      BY DEF OrderOfEvent, NoItems
    <3>2. \A o \in S : OrderWellFormed(o)
      BY DEF IInv
    <3>. HIDE DEF S
    <3>. QED
      BY <3>1, <3>2 DEF OrderWellFormed
  <2>. QED
    BY <2>1, <2>2, EraseIsErase
<1>12. CASE MigrateTo18
  <2>1. \A o \in Orders : orderStatus'[o] = IF orderStatus[o] = "CONFIRMED" THEN "PAID" ELSE orderStatus[o]
    BY <1>12 DEF MigrateTo18
  <2>2. \A o \in Orders : LedgerPhase(orderStatus[o])' = LedgerPhase(orderStatus[o])
    BY <2>1, Phases
  <2>. QED
    BY <1>12, <2>2, Invisible DEF MigrateTo18
<1>13. CASE UNCHANGED vars
  BY <1>13, <1>b DEF vars
<1>. HIDE DEF eventVars, productVars, promoVars, orderVars, ticketVars
<1>14. CASE Catalogue
  BY <1>1, <1>2, <1>3, <1>4, <1>14 DEF Catalogue
<1>15. CASE Sales
  <2>1. ASSUME NEW o \in Orders, NEW e, NEW qty, NEW c, CreateOrder(o, e, qty, c)
        PROVE  Ledger!Next
    <3>1. TicketsOf(o)' \in SUBSET TicketIds
      BY DEF TicketsOf, TicketIds
    <3>. QED
      BY <1>5, <2>1, <3>1 DEF Ledger!Next
  <2>2. ASSUME NEW o \in Orders, ConfirmOrder(o) \/ CancelOrder(o) \/ DeleteOrder(o)
        PROVE  [Ledger!Next]_(Ledger!vars)
    BY <1>6, <1>7, <1>8, <1>9, <2>2 DEF ConfirmOrder, Ledger!Next
  <2>3. ASSUME NEW t \in TicketIds, NEW scan, RedeemTicket(t, scan) PROVE Ledger!Next
    BY <1>10, <2>3 DEF Ledger!Next
  <2>. QED
    BY <1>15, <2>1, <2>2, <2>3 DEF Sales
<1>16. ASSUME NEW e \in Events, DeleteEvent(e) PROVE Ledger!Next
  BY <1>11, <1>16 DEF Ledger!Next
<1>. QED
  BY <1>12, <1>13, <1>14, <1>15, <1>16 DEF Next

LEMMA LedgerInit == Init => Ledger!Init
<1>. SUFFICES ASSUME Init PROVE Ledger!Init
  OBVIOUS
<1>1. \A o \in Orders : TicketsOf(o) = {}
  BY DEF Init, TicketsOf, TicketIds, NoItems, Products
<1>. QED
  BY <1>1, Phases DEF Init, Ledger!Init

\* The life of every order and ticket of the shop is one the ledger allows.
THEOREM LedgerTheorem == Spec => ImplementsLedger
<1>1. IInv /\ [Next]_vars => [Ledger!Next]_(Ledger!vars)
  BY LedgerStep
<1>. QED
  BY <1>1, LedgerInit, InvCorrect, PTL DEF Spec, ImplementsLedger, Ledger!Spec
=============================================================================
