-------------------------- MODULE RefinementProofs --------------------------
(***************************************************************************)
(* Theorems about the two modules that refine the shop.  SbpPayment: its   *)
(* steps are steps of the shop, no order is paid without the bank or an    *)
(* administrator, and every payment is announced once.  Transactions:      *)
(* however the statements interleave, a transaction is one step of the     *)
(* shop, taken at its commit, so that the shop keeps its promises.         *)
(***************************************************************************)
EXTENDS SbpPayment, TicketingProofs, Transactions

-----------------------------------------------------------------------------
(***************************************************************************)
(* The shop underneath.                                                    *)
(***************************************************************************)

\* Every step of the payments is a transaction of the shop or leaves the shop
\* alone.
LEMMA ShopStep ==
  ASSUME SbpTypeOK, [SbpNext]_sbpVars
  PROVE  [Next]_vars
<1>1. ASSUME NEW r \in Requests, Arrive(r)
      PROVE  [Next]_vars
  <2>1. ASSUME NEW o \in Orders, NEW e \in Events, NEW qty \in Quantities,
               NEW c \in Promos \cup {NoPromo}, CreateSbpOrder(r, o, e, qty, c)
        PROVE  Next
    BY <2>1 DEF CreateSbpOrder, Next, Sales
  <2>2. ASSUME NEW o \in Orders, ReadStatus(r, o)
        PROVE  UNCHANGED vars
    BY <2>2 DEF ReadStatus
  <2>3. ASSUME NEW o \in Orders, ConfirmByAdmin(r, o)
        PROVE  ConfirmOrder(o)
    BY <2>3 DEF ConfirmByAdmin, ConfirmOrder
  <2>. QED
    BY <1>1, <2>1, <2>2, <2>3 DEF Arrive, Next, Sales
<1>2. ASSUME NEW r \in Requests, Handle(r)
      PROVE  [Next]_vars
  <2>1. CASE ConfirmByBank(r)
    <3>1. request[r].order \in Orders
      BY <2>1, SbpAssumption DEF ConfirmByBank, At, SbpTypeOK, RequestStates
    <3>. QED
      BY <2>1, <3>1 DEF ConfirmByBank, ConfirmOrder, Next, Sales
  <2>2. CASE ~ConfirmByBank(r)
    BY <1>2, <2>2 DEF Handle, Register, StoreQr, StorePayment, Ask, SaveQr, SavePayment, Announce
  <2>. QED
    BY <2>1, <2>2
<1>3. ASSUME NEW r \in Requests, Disturb(r)
      PROVE  UNCHANGED vars
  BY <1>3 DEF Disturb, AskEmpty, AnnounceTwice, StepFails, SaveFails
<1>4. CASE Shop
  BY <1>4 DEF Shop, Next, Sales
<1>5. CASE Crash \/ (\E o \in Orders : BankMoves(o)) \/ UNCHANGED sbpVars
  BY <1>5 DEF Crash, BankMoves, sbpVars
<1>. QED
  BY <1>1, <1>2, <1>3, <1>4, <1>5 DEF SbpNext

\* A request that is under way has the type of one.
LEMMA RequestType ==
  ASSUME SbpTypeOK, NEW r \in Requests, request[r] # NoRequest
  PROVE  /\ request[r] \in RequestStates
         /\ request[r].order \in Orders
         /\ request[r].event \in Events
         /\ request[r].answer \in BankStatuses \cup {"none", "REGISTERED"}
  BY SbpAssumption DEF SbpTypeOK, RequestStates

\* Changing the stage, the answer or all of one request keeps the type.
LEMMA GoToType ==
  ASSUME SbpTypeOK, NEW r \in Requests, request[r] # NoRequest, NEW s \in Stages, GoTo(r, s)
  PROVE  request' \in [Requests -> RequestStates \cup {NoRequest}]
<1>1. request[r] \in RequestStates
  BY RequestType
<1>2. [request[r] EXCEPT !.stage = s] \in RequestStates
  BY <1>1 DEF RequestStates
<1>. QED
  BY <1>2 DEF GoTo, SbpTypeOK

LEMMA FinishType ==
  ASSUME SbpTypeOK, NEW r \in Requests, Finish(r)
  PROVE  request' \in [Requests -> RequestStates \cup {NoRequest}]
  BY DEF Finish, SbpTypeOK

LEMMA AfterSavingType ==
  ASSUME SbpTypeOK, NEW r \in Requests, request[r] # NoRequest, AfterSaving(r)
  PROVE  request' \in [Requests -> RequestStates \cup {NoRequest}]
<1>1. CASE IsPaid(request[r].answer)
  <2>1. "confirm" \in Stages
    BY DEF Stages
  <2>. QED
    BY <1>1, <2>1, GoToType DEF AfterSaving
<1>2. CASE ~IsPaid(request[r].answer)
  BY <1>2, FinishType DEF AfterSaving
<1>. QED
  BY <1>1, <1>2

LEMMA FaultType ==
  ASSUME SbpTypeOK, Fault
  PROVE  faults' \in 0..MaxFaults
  BY SbpAssumption DEF SbpTypeOK, Fault

\* Type correctness is inductive.
LEMMA SbpTypeStep ==
  ASSUME SbpTypeOK, [SbpNext]_sbpVars
  PROVE  SbpTypeOK'
<1>. USE DEF sbpVars, rowVars, pastVars
<1>a. TypeOK'
  <2>1. TypeOK
    BY DEF SbpTypeOK
  <2>. QED
    BY <2>1, ShopStep, TypeStep
<1>1. ASSUME NEW r \in Requests, Arrive(r)
      PROVE  SbpTypeOK'
  <2>1. ASSUME NEW o \in Orders, NEW e \in Events, NEW qty \in Quantities,
               NEW c \in Promos \cup {NoPromo}, CreateSbpOrder(r, o, e, qty, c)
        PROVE  SbpTypeOK'
    <3>1. [stage |-> "register", order |-> o, event |-> e, answer |-> "none"] \in RequestStates
      BY DEF RequestStates, Stages
    <3>. QED
      BY <1>a, <2>1, <3>1 DEF CreateSbpOrder, SbpTypeOK
  <2>2. ASSUME NEW o \in Orders, ReadStatus(r, o)
        PROVE  SbpTypeOK'
    <3>1. sbpQr[o] \in BankStatuses \cup {"none", "REGISTERED"}
      BY <2>2 DEF ReadStatus, SbpTypeOK
    <3>2. \A e \in Events :
            [stage |-> "ask", order |-> o, event |-> e, answer |-> sbpQr[o]] \in RequestStates
      BY <3>1 DEF RequestStates, Stages
    <3>. QED
      BY <1>a, <2>2, <3>2 DEF ReadStatus, SbpTypeOK
  <2>3. ASSUME NEW o \in Orders, ConfirmByAdmin(r, o)
        PROVE  SbpTypeOK'
    <3>1. \A e \in Events :
            [stage |-> "announce", order |-> o, event |-> e, answer |-> "none"] \in RequestStates
      BY DEF RequestStates, Stages
    <3>. QED
      BY <1>a, <2>3, <3>1 DEF ConfirmByAdmin, SbpTypeOK
  <2>. QED
    BY <1>1, <2>1, <2>2, <2>3 DEF Arrive
<1>2. ASSUME NEW r \in Requests, Handle(r)
      PROVE  SbpTypeOK'
  <2>1. CASE Register(r)
    <3>1. request' \in [Requests -> RequestStates \cup {NoRequest}]
      BY <2>1, GoToType DEF Register, At, Stages
    <3>. QED
      BY <1>a, <2>1, <3>1 DEF Register, SbpTypeOK, BankStatuses
  <2>2. CASE StoreQr(r)
    <3>1. request' \in [Requests -> RequestStates \cup {NoRequest}]
      BY <2>2, GoToType, FinishType DEF StoreQr, At, Stages
    <3>. QED
      BY <1>a, <2>2, <3>1 DEF StoreQr, SbpTypeOK
  <2>3. CASE StorePayment(r)
    <3>1. request' \in [Requests -> RequestStates \cup {NoRequest}]
      BY <2>3, FinishType DEF StorePayment
    <3>. QED
      BY <1>a, <2>3, <3>1 DEF StorePayment, SbpTypeOK
  <2>4. CASE Ask(r)
    <3>1. request[r] \in RequestStates /\ bank[request[r].order] \in BankStatuses \cup {"none"}
      BY <2>4, RequestType DEF Ask, At, SbpTypeOK
    <3>2. [request[r] EXCEPT !.stage = "saveQr", !.answer = bank[request[r].order]] \in RequestStates
      BY <3>1 DEF RequestStates, Stages
    <3>. QED
      BY <1>a, <2>4, <3>2 DEF Ask, SbpTypeOK
  <2>5. CASE SaveQr(r)
    <3>1. request' \in [Requests -> RequestStates \cup {NoRequest}]
      BY <2>5, GoToType DEF SaveQr, At, Stages
    <3>2. request[r].answer \in BankStatuses \cup {"none", "REGISTERED"}
      BY <2>5, RequestType DEF SaveQr, At
    <3>. QED
      BY <1>a, <2>5, <3>1, <3>2 DEF SaveQr, SbpTypeOK
  <2>6. CASE SavePayment(r)
    <3>1. request' \in [Requests -> RequestStates \cup {NoRequest}]
      BY <2>6, AfterSavingType DEF SavePayment, At
    <3>2. Normalize(request[r].answer) \in {"PENDING", "PAID", "FAILED", "UNKNOWN"}
      BY DEF Normalize
    <3>. QED
      BY <1>a, <2>6, <3>1, <3>2 DEF SavePayment, SbpTypeOK
  <2>7. CASE ConfirmByBank(r)
    <3>1. request' \in [Requests -> RequestStates \cup {NoRequest}]
      BY <2>7, GoToType, FinishType DEF ConfirmByBank, At, Stages
    <3>2. request[r].order \in Orders
      BY <2>7, RequestType DEF ConfirmByBank, At
    <3>. QED
      BY <1>a, <2>7, <3>1, <3>2 DEF ConfirmByBank, SbpTypeOK
  <2>8. CASE Announce(r)
    <3>1. request' \in [Requests -> RequestStates \cup {NoRequest}]
      BY <2>8, FinishType DEF Announce
    <3>. QED
      BY <1>a, <2>8, <3>1 DEF Announce, SbpTypeOK
  <2>. QED
    BY <1>2, <2>1, <2>2, <2>3, <2>4, <2>5, <2>6, <2>7, <2>8 DEF Handle
<1>3. ASSUME NEW r \in Requests, Disturb(r)
      PROVE  SbpTypeOK'
  <2>1. faults' \in 0..MaxFaults
    BY <1>3, FaultType DEF Disturb, AskEmpty, AnnounceTwice, StepFails, SaveFails
  <2>2. CASE AskEmpty(r)
    <3>1. request' \in [Requests -> RequestStates \cup {NoRequest}]
      BY <2>2, GoToType DEF AskEmpty, At, Stages
    <3>. QED
      BY <1>a, <2>1, <2>2, <3>1 DEF AskEmpty, SbpTypeOK
  <2>3. CASE AnnounceTwice(r)
    <3>1. request' \in [Requests -> RequestStates \cup {NoRequest}]
      BY <2>3, FinishType DEF AnnounceTwice
    <3>2. request[r].order \in Orders
      BY <2>3, RequestType DEF AnnounceTwice, At
    <3>3. announced' \in [Orders -> Nat]
      BY <2>3, <3>2 DEF AnnounceTwice, SbpTypeOK
    <3>. QED
      BY <1>a, <2>1, <2>3, <3>1, <3>3 DEF AnnounceTwice, SbpTypeOK
  <2>4. CASE StepFails(r)
    <3>1. request' \in [Requests -> RequestStates \cup {NoRequest}]
      BY <2>4, FinishType DEF StepFails
    <3>. QED
      BY <1>a, <2>1, <2>4, <3>1 DEF StepFails, SbpTypeOK
  <2>5. CASE SaveFails(r)
    <3>1. request' \in [Requests -> RequestStates \cup {NoRequest}]
      BY <2>5, GoToType, AfterSavingType DEF SaveFails, At, Stages
    <3>. QED
      BY <1>a, <2>1, <2>5, <3>1 DEF SaveFails, SbpTypeOK
  <2>. QED
    BY <1>3, <2>2, <2>3, <2>4, <2>5 DEF Disturb
<1>4. CASE Shop
  BY <1>a, <1>4 DEF Shop, Cascade, SbpTypeOK
<1>5. CASE Crash
  BY <1>a, <1>5, FaultType DEF Crash, SbpTypeOK
<1>6. ASSUME NEW o \in Orders, BankMoves(o)
      PROVE  SbpTypeOK'
  BY <1>a, <1>6 DEF BankMoves, SbpTypeOK, BankStatuses
<1>7. CASE UNCHANGED sbpVars
  BY <1>a, <1>7 DEF SbpTypeOK
<1>. QED
  BY <1>1, <1>2, <1>3, <1>4, <1>5, <1>6, <1>7 DEF SbpNext

-----------------------------------------------------------------------------
(***************************************************************************)
(* The bank behind the payments.                                           *)
(***************************************************************************)

\* Steps of the rest of the shop pay no order and place none of the bank's.
LEMMA ShopPaysNothing ==
  ASSUME SbpTypeOK, Shop, NEW o \in Orders
  PROVE  /\ orderStatus'[o] \in SoldStatuses => orderStatus[o] \in SoldStatuses
         /\ orderStatus'[o] = "none" => orderStatus[o] = "none"
<1>. USE DEF SoldStatuses, PaidStatuses, orderVars
<1>a. TypeOK
  BY DEF SbpTypeOK
<1>1. CASE Catalogue
  <2>1. UNCHANGED orderStatus
    BY <1>1 DEF Catalogue, DeleteProduct, CreateProduct, UpdateProduct, PromoWindowTurns,
                DeletePromoCode, CreatePromoCode, UpdatePromoCode
  <2>. QED
    BY <2>1
<1>2. ASSUME NEW x \in Orders, NEW e \in Events, NEW qty \in Quantities,
             NEW c \in Promos \cup {NoPromo}, CreateOrder(x, e, qty, c)
      PROVE  orderStatus' = [orderStatus EXCEPT ![x] = "PENDING"] /\ orderStatus[x] = "none"
  BY <1>2 DEF CreateOrder
<1>3. ASSUME NEW x \in Orders, CancelOrder(x)
      PROVE  orderStatus' = [orderStatus EXCEPT ![x] = "CANCELED"]
  BY <1>3 DEF CancelOrder
<1>4. ASSUME NEW x \in Orders, DeleteOrder(x)
      PROVE  /\ orderStatus' = [y \in Orders |-> IF y \in {x} THEN "gone" ELSE orderStatus[y]]
             /\ orderStatus[x] # "none"
  BY <1>4 DEF DeleteOrder, EraseOrders
<1>5. ASSUME NEW t \in TicketIds, NEW scan, RedeemTicket(t, scan)
      PROVE  \/ UNCHANGED orderStatus
             \/ /\ orderStatus' = [orderStatus EXCEPT ![t[1]] = "REDEEMED"]
                /\ orderStatus[t[1]] \in SoldStatuses
  BY <1>5, <1>a DEF RedeemTicket, TypeOK
<1>6. ASSUME NEW e \in Events, DeleteEvent(e)
      PROVE  \E S : orderStatus' = [y \in Orders |-> IF y \in S THEN "gone" ELSE orderStatus[y]]
  BY <1>6 DEF DeleteEvent, EraseOrders
<1>7. orderStatus \in [Orders -> {"none", "PENDING", "PAID", "CONFIRMED",
                                  "REDEEMED", "CANCELED", "gone"}]
  BY <1>a DEF TypeOK
<1>8. CASE \E x \in Orders \ SbpOrders, e \in Events, qty \in Quantities, c \in Promos \cup {NoPromo} :
             CreateOrder(x, e, qty, c)
  BY <1>2, <1>7, <1>8
<1>9. CASE \E x \in Orders : CancelOrder(x) \/ DeleteOrder(x)
  BY <1>3, <1>4, <1>7, <1>9
<1>10. CASE \E t \in TicketIds, scan \in qrIssued \cup {NoScan} : RedeemTicket(t, scan)
  BY <1>5, <1>7, <1>10
<1>11. CASE \E e \in Events : DeleteEvent(e)
  BY <1>6, <1>7, <1>11
<1>. QED
  BY <1>1, <1>8, <1>9, <1>10, <1>11 DEF Shop

\* Requests that keep what they know, or go on with less, stay truthful while
\* the bank takes no accepted payment back and registers none.
LEMMA SameKnowledge ==
  ASSUME BankInv, NEW r \in Requests,
         \A x \in Requests : x # r => request'[x] = request[x],
         request'[r] # NoRequest =>
           /\ request[r] # NoRequest
           /\ request'[r].order = request[r].order
           /\ request'[r].answer = request[r].answer
           /\ request'[r].stage # "register"
           /\ request'[r].stage = "confirm" => request[r].answer = "Accepted",
         \A o \in Orders : bank'[o] = bank[o],
         \A o \in Orders : orderStatus'[o] = "none" => orderStatus[o] = "none"
  PROVE  /\ \A x \in Requests : RequestOk(x)'
         /\ OneRegistration'
<1>1. \A x \in Requests : request[x] # NoRequest => request[x].order \in Orders
  BY RequestType DEF BankInv
<1>2. \A x \in Requests : RequestOk(x)'
  BY <1>1 DEF BankInv, RequestOk
<1>3. OneRegistration'
  BY DEF BankInv, OneRegistration, At
<1>. QED
  BY <1>2, <1>3

\* The invariant follows every step.
LEMMA BankStep ==
  ASSUME BankInv, [SbpNext]_sbpVars
  PROVE  BankInv'
<1>. USE DEF sbpVars, rowVars, pastVars, vars, orderVars
<1>. DEFINE Fresh == \A o \in Orders : orderStatus[o] = "none" => bank[o] = "none"
            Truth == (\A r \in Requests : RequestOk(r)) /\ OneRegistration
<1>a. SbpTypeOK /\ SbpTypeOK'
  BY SbpTypeStep DEF BankInv
<1>b. PaidNeedsBank /\ BooksTruthful /\ Truth /\ Fresh
  BY DEF BankInv
<1>c. orderStatus \in [Orders -> {"none", "PENDING", "PAID", "CONFIRMED",
                                  "REDEEMED", "CANCELED", "gone"}]
  BY <1>a DEF SbpTypeOK, TypeOK
<1>d. bank \in [Orders -> BankStatuses \cup {"none"}]
  BY <1>a DEF SbpTypeOK
<1>e. sbpQr \in [Orders -> BankStatuses \cup {"none", "REGISTERED", "gone"}]
  BY <1>a DEF SbpTypeOK
<1>f. payment \in [Orders -> {"none", "REGISTERED", "PENDING", "PAID", "FAILED", "UNKNOWN", "gone"}]
  BY <1>a DEF SbpTypeOK
<1>g. request \in [Requests -> RequestStates \cup {NoRequest}]
  BY <1>a DEF SbpTypeOK
<1>h. \A r \in Requests : request[r] # NoRequest => request[r].order \in Orders
  BY <1>a, RequestType
<1>. SUFFICES PaidNeedsBank' /\ BooksTruthful' /\ Truth' /\ Fresh'
  BY <1>a DEF BankInv
<1>1. ASSUME NEW r \in Requests, NEW o \in Orders, NEW e \in Events, NEW qty \in Quantities,
             NEW c \in Promos \cup {NoPromo}, CreateSbpOrder(r, o, e, qty, c)
      PROVE  PaidNeedsBank' /\ BooksTruthful' /\ Truth' /\ Fresh'
  <2>1. orderStatus[o] = "none" /\ orderStatus' = [orderStatus EXCEPT ![o] = "PENDING"]
    BY <1>1 DEF CreateSbpOrder, CreateOrder
  <2>2. UNCHANGED <<byAdmin, sbpQr, payment, bank>>
    BY <1>1 DEF CreateSbpOrder
  <2>3. PaidNeedsBank' /\ BooksTruthful' /\ Fresh'
    BY <1>b, <1>c, <2>1, <2>2 DEF PaidNeedsBank, BooksTruthful, SoldStatuses, PaidStatuses
  <2>4. bank[o] = "none"
    BY <1>b, <2>1
  <2>. DEFINE q == [stage |-> "register", order |-> o, event |-> e, answer |-> "none"]
  <2>5. request' = [request EXCEPT ![r] = q] \/ request' = request
    BY <1>1 DEF CreateSbpOrder
  <2>6. \A x \in Requests : At(x, "register") => request[x].order # o
    BY <1>b, <2>1 DEF RequestOk, At
  <2>7. Truth'
    <3>1. CASE request' = [request EXCEPT ![r] = q]
      <4>1. request'[r] = q /\ \A x \in Requests : x # r => request'[x] = request[x]
        BY <1>g, <3>1
      <4>2. \A x \in Requests : RequestOk(x)'
        BY <1>b, <1>c, <1>h, <2>1, <2>2, <2>4, <4>1 DEF RequestOk
      <4>3. OneRegistration'
        BY <1>b, <2>6, <4>1 DEF OneRegistration, At
      <4>. QED
        BY <4>2, <4>3
    <3>2. CASE request' = request
      BY <1>b, <1>c, <1>h, <2>1, <2>2, <3>2 DEF RequestOk, OneRegistration, At
    <3>. QED
      BY <2>5, <3>1, <3>2
  <2>. QED
    BY <2>3, <2>7
<1>2. ASSUME NEW r \in Requests, NEW o \in Orders, ReadStatus(r, o)
      PROVE  PaidNeedsBank' /\ BooksTruthful' /\ Truth' /\ Fresh'
  <2>1. UNCHANGED <<orderStatus, byAdmin, sbpQr, payment, bank>>
    BY <1>2 DEF ReadStatus
  <2>2. PaidNeedsBank' /\ BooksTruthful' /\ Fresh'
    BY <1>b, <2>1 DEF PaidNeedsBank, BooksTruthful
  <2>3. PICK e \in Events :
          request' = [request EXCEPT ![r] = [stage |-> "ask", order |-> o, event |-> e,
                                             answer |-> sbpQr[o]]]
    BY <1>2 DEF ReadStatus
  <2>4. /\ request'[r] = [stage |-> "ask", order |-> o, event |-> e, answer |-> sbpQr[o]]
        /\ \A x \in Requests : x # r => request'[x] = request[x]
    BY <1>g, <2>3
  <2>5. \A x \in Requests : RequestOk(x)'
    BY <1>b, <2>1, <2>4 DEF RequestOk, BooksTruthful
  <2>6. OneRegistration'
    BY <1>b, <2>4 DEF OneRegistration, At
  <2>. QED
    BY <2>2, <2>5, <2>6
<1>3. ASSUME NEW r \in Requests, NEW o \in Orders, ConfirmByAdmin(r, o)
      PROVE  PaidNeedsBank' /\ BooksTruthful' /\ Truth' /\ Fresh'
  <2>1. UNCHANGED <<sbpQr, payment, bank>>
    BY <1>3 DEF ConfirmByAdmin
  <2>2. CASE ConfirmPending(o) /\ byAdmin' = byAdmin \cup {o}
    <3>1. orderStatus' = [orderStatus EXCEPT ![o] = PaidStatus] /\ orderStatus[o] = "PENDING"
      BY <2>2 DEF ConfirmPending
    <3>2. PaidStatus # "none"
      BY DEF PaidStatus
    <3>3. PaidNeedsBank' /\ BooksTruthful' /\ Fresh'
      BY <1>b, <1>c, <2>1, <2>2, <3>1, <3>2 DEF PaidNeedsBank, BooksTruthful
    <3>4. CASE UNCHANGED request
      BY <1>b, <1>c, <1>h, <2>1, <3>1, <3>2, <3>3, <3>4 DEF RequestOk, OneRegistration, At
    <3>5. CASE \E e \in Events :
                 request' = [request EXCEPT ![r] = [stage |-> "announce", order |-> o,
                                                    event |-> e, answer |-> "none"]]
      <4>1. /\ request'[r].stage = "announce" /\ request'[r].answer = "none"
            /\ request'[r].order = o
            /\ \A x \in Requests : x # r => request'[x] = request[x]
        BY <1>g, <3>5
      <4>2. \A x \in Requests : RequestOk(x)'
        BY <1>b, <1>c, <1>h, <2>1, <3>1, <3>2, <4>1 DEF RequestOk
      <4>3. OneRegistration'
        BY <1>b, <4>1 DEF OneRegistration, At
      <4>. QED
        BY <3>3, <4>2, <4>3
    <3>. QED
      BY <1>3, <3>4, <3>5 DEF ConfirmByAdmin
  <2>3. CASE ConfirmAgain(o) /\ UNCHANGED <<byAdmin, request>>
    BY <1>b, <2>1, <2>3
       DEF ConfirmAgain, PaidNeedsBank, BooksTruthful, RequestOk, OneRegistration, At
  <2>. QED
    BY <1>3, <2>2, <2>3 DEF ConfirmByAdmin
<1>4. ASSUME NEW r \in Requests, Register(r)
      PROVE  PaidNeedsBank' /\ BooksTruthful' /\ Truth' /\ Fresh'
  <2>. DEFINE o == request[r].order
  <2>1. /\ UNCHANGED <<orderStatus, byAdmin, sbpQr, payment>>
        /\ bank' = [bank EXCEPT ![o] = "NotStarted"]
        /\ request' = [request EXCEPT ![r].stage = "storeQr"]
    BY <1>4 DEF Register, GoTo
  <2>2. /\ o \in Orders /\ bank[o] = "none" /\ orderStatus[o] # "none"
        /\ request[r] # NoRequest /\ request[r].stage = "register"
    BY <1>4, <1>b, <1>h DEF Register, At, RequestOk
  <2>3. \A x \in Orders : bank[x] = "Accepted" <=> bank'[x] = "Accepted"
    BY <1>d, <2>1, <2>2
  <2>4. PaidNeedsBank' /\ BooksTruthful'
    BY <1>b, <2>1, <2>3 DEF PaidNeedsBank, BooksTruthful
  <2>5. Fresh'
    BY <1>b, <1>d, <2>1, <2>2
  <2>6. /\ request'[r] = [request[r] EXCEPT !.stage = "storeQr"]
        /\ \A x \in Requests : x # r => request'[x] = request[x]
    BY <1>g, <2>1
  <2>7. request[r] \in RequestStates
    BY <1>a, <2>2, RequestType
  <2>8. request'[r].stage = "storeQr" /\ request'[r].order = o /\ request'[r].answer = request[r].answer
    BY <2>6, <2>7 DEF RequestStates
  <2>9. \A x \in Requests : x # r /\ At(x, "register") => request[x].order # o
    BY <1>b, <2>2 DEF OneRegistration, At
  <2>10. \A x \in Requests : RequestOk(x)'
    <3>1. ASSUME NEW x \in Requests, x # r
          PROVE  RequestOk(x)'
      BY <1>b, <1>d, <1>h, <2>1, <2>2, <2>3, <2>6, <2>9, <3>1 DEF RequestOk, At
    <3>2. RequestOk(r)'
      BY <1>b, <2>1, <2>2, <2>3, <2>8 DEF RequestOk
    <3>. QED
      BY <3>1, <3>2
  <2>11. OneRegistration'
    <3>1. ~At(r, "register")'
      BY <2>8 DEF At
    <3>2. \A x \in Requests : At(x, "register")' => x # r /\ At(x, "register")
      BY <2>6, <3>1 DEF At
    <3>. QED
      BY <1>b, <2>6, <3>2 DEF OneRegistration
  <2>. QED
    BY <2>4, <2>5, <2>10, <2>11
<1>5. ASSUME NEW r \in Requests, Ask(r)
      PROVE  PaidNeedsBank' /\ BooksTruthful' /\ Truth' /\ Fresh'
  <2>1. /\ UNCHANGED <<orderStatus, byAdmin, sbpQr, payment, bank>>
        /\ request' = [request EXCEPT ![r].stage = "saveQr",
                                      ![r].answer = bank[request[r].order]]
    BY <1>5 DEF Ask
  <2>2. request[r] \in RequestStates
    BY <1>5, <1>a, RequestType DEF Ask, At
  <2>3. /\ request'[r].stage = "saveQr"
        /\ request'[r].order = request[r].order
        /\ request'[r].answer = bank[request[r].order]
        /\ \A x \in Requests : x # r => request'[x] = request[x]
    BY <1>g, <2>1, <2>2 DEF RequestStates
  <2>4. PaidNeedsBank' /\ BooksTruthful' /\ Fresh'
    BY <1>b, <2>1 DEF PaidNeedsBank, BooksTruthful
  <2>5. \A x \in Requests : RequestOk(x)'
    <3>1. RequestOk(r)'
      BY <2>1, <2>3 DEF RequestOk
    <3>2. ASSUME NEW x \in Requests, x # r
          PROVE  RequestOk(x)'
      <4>1. RequestOk(x) /\ request'[x] = request[x]
        BY <1>b, <2>3, <3>2
      <4>2. UNCHANGED <<orderStatus, bank>>
        BY <2>1
      <4>. QED
        BY <4>1, <4>2 DEF RequestOk
    <3>. QED
      BY <3>1, <3>2
  <2>6. OneRegistration'
    BY <1>b, <2>3 DEF OneRegistration, At
  <2>. QED
    BY <2>4, <2>5, <2>6
\* The other steps of a request teach it nothing and leave the bank alone.
<1>6. ASSUME NEW r \in Requests, request[r] # NoRequest, NEW s \in Stages \ {"register"}, GoTo(r, s),
             s = "confirm" => request[r].answer = "Accepted",
             UNCHANGED bank,
             \A o \in Orders : orderStatus'[o] = "none" => orderStatus[o] = "none"
      PROVE  Truth'
  <2>1. request[r] \in RequestStates
    BY <1>6, <1>a, RequestType
  <2>2. /\ request'[r].stage = s
        /\ request'[r].order = request[r].order
        /\ request'[r].answer = request[r].answer
        /\ \A x \in Requests : x # r => request'[x] = request[x]
    BY <1>6, <1>g, <2>1 DEF GoTo, RequestStates
  <2>. QED
    BY <1>6, <2>2, SameKnowledge
<1>7. ASSUME NEW r \in Requests, Finish(r), UNCHANGED bank,
             \A o \in Orders : orderStatus'[o] = "none" => orderStatus[o] = "none"
      PROVE  Truth'
  <2>1. request'[r] = NoRequest /\ \A x \in Requests : x # r => request'[x] = request[x]
    BY <1>7, <1>g DEF Finish
  <2>. QED
    BY <1>7, <2>1, SameKnowledge
<1>8. ASSUME NEW r \in Requests, request[r] # NoRequest, AfterSaving(r),
             UNCHANGED <<bank, orderStatus>>
      PROVE  Truth'
  BY <1>6, <1>7, <1>8 DEF AfterSaving, IsPaid, Stages
<1>9. ASSUME NEW r \in Requests, StoreQr(r) \/ StorePayment(r) \/ SaveQr(r) \/ SavePayment(r)
      PROVE  PaidNeedsBank' /\ BooksTruthful' /\ Truth' /\ Fresh'
  <2>. DEFINE o == request[r].order
  <2>1. UNCHANGED <<orderStatus, byAdmin, bank>> /\ request[r] # NoRequest /\ o \in Orders
    BY <1>9, <1>h DEF StoreQr, StorePayment, SaveQr, SavePayment, At
  <2>2. PaidNeedsBank' /\ Fresh'
    BY <1>b, <2>1 DEF PaidNeedsBank
  <2>3. request[r].answer = "Accepted" => bank[o] = "Accepted"
    BY <1>b, <2>1 DEF RequestOk
  <2>4. Normalize(request[r].answer) = "PAID" => request[r].answer = "Accepted"
    BY DEF Normalize
  <2>5. BooksTruthful'
    BY <1>9, <1>b, <1>e, <1>f, <2>1, <2>3, <2>4
       DEF StoreQr, StorePayment, SaveQr, SavePayment, BooksTruthful
  <2>6. Truth'
    BY <1>9, <1>6, <1>7, <1>8, <2>1 DEF StoreQr, StorePayment, SaveQr, SavePayment, Stages
  <2>. QED
    BY <2>2, <2>5, <2>6
<1>10. ASSUME NEW r \in Requests, ConfirmByBank(r)
       PROVE  PaidNeedsBank' /\ BooksTruthful' /\ Truth' /\ Fresh'
  <2>. DEFINE o == request[r].order
  <2>1. /\ UNCHANGED <<byAdmin, sbpQr, payment, bank>>
        /\ request[r] # NoRequest /\ o \in Orders /\ bank[o] = "Accepted"
    BY <1>10, <1>b, <1>h DEF ConfirmByBank, At, RequestOk
  <2>2. CASE ConfirmPending(o) /\ GoTo(r, "announce")
    <3>1. orderStatus' = [orderStatus EXCEPT ![o] = PaidStatus] /\ PaidStatus # "none"
      BY <2>2 DEF ConfirmPending, PaidStatus
    <3>2. PaidNeedsBank' /\ BooksTruthful' /\ Fresh'
      BY <1>b, <1>c, <2>1, <3>1 DEF PaidNeedsBank, BooksTruthful
    <3>3. \A x \in Orders : orderStatus'[x] = "none" => orderStatus[x] = "none"
      BY <1>c, <3>1
    <3>. QED
      BY <1>6, <2>1, <2>2, <3>2, <3>3 DEF Stages
  <2>3. CASE UNCHANGED orderStatus /\ Finish(r)
    BY <1>7, <1>b, <2>1, <2>3 DEF PaidNeedsBank, BooksTruthful
  <2>. QED
    BY <1>10, <2>2, <2>3 DEF ConfirmByBank, ConfirmAgain
<1>11. ASSUME NEW r \in Requests, Announce(r) \/ Disturb(r)
       PROVE  PaidNeedsBank' /\ BooksTruthful' /\ Truth' /\ Fresh'
  <2>1. UNCHANGED <<orderStatus, byAdmin, sbpQr, payment, bank>>
    BY <1>11 DEF Announce, Disturb, AskEmpty, AnnounceTwice, StepFails, SaveFails
  <2>2. PaidNeedsBank' /\ BooksTruthful' /\ Fresh'
    BY <1>b, <2>1 DEF PaidNeedsBank, BooksTruthful
  <2>3. Truth'
    BY <1>11, <1>6, <1>7, <1>8, <2>1
       DEF Announce, Disturb, AskEmpty, AnnounceTwice, StepFails, SaveFails, At, Stages
  <2>. QED
    BY <2>2, <2>3
<1>12. ASSUME NEW o \in Orders, BankMoves(o)
       PROVE  PaidNeedsBank' /\ BooksTruthful' /\ Truth' /\ Fresh'
  <2>1. UNCHANGED <<orderStatus, byAdmin, sbpQr, payment, request>>
    BY <1>12 DEF BankMoves
  <2>2. \A x \in Orders : /\ bank[x] = "Accepted" => bank'[x] = "Accepted"
                          /\ bank'[x] = "none" <=> bank[x] = "none"
    BY <1>12, <1>d DEF BankMoves
  <2>. QED
    BY <1>b, <1>h, <2>1, <2>2
       DEF PaidNeedsBank, BooksTruthful, RequestOk, OneRegistration, At
<1>13. CASE Crash
  <2>1. UNCHANGED <<orderStatus, byAdmin, sbpQr, payment, bank>>
        /\ request' = [x \in Requests |-> NoRequest]
    BY <1>13 DEF Crash
  <2>. QED
    BY <1>b, <2>1 DEF PaidNeedsBank, BooksTruthful, RequestOk, OneRegistration, At
<1>14. CASE Shop
  <2>1. UNCHANGED <<bank, request>>
    BY <1>14 DEF Shop
  <2>2. \A o \in Orders :
          /\ orderStatus'[o] \in SoldStatuses => orderStatus[o] \in SoldStatuses
          /\ orderStatus'[o] = "none" => orderStatus[o] = "none"
    BY <1>a, <1>14, ShopPaysNothing
  <2>3. \A o \in Orders : orderStatus'[o] \in SoldStatuses /\ o \in byAdmin => o \in byAdmin'
    BY <1>14 DEF Shop, Cascade, SoldStatuses, PaidStatuses
  <2>4. PaidNeedsBank' /\ Fresh'
    BY <1>b, <2>1, <2>2, <2>3 DEF PaidNeedsBank
  <2>5. BooksTruthful'
    BY <1>14, <1>b, <2>1 DEF Shop, Cascade, BooksTruthful
  <2>6. Truth'
    BY <1>b, <1>h, <2>1, <2>2 DEF RequestOk, OneRegistration, At
  <2>. QED
    BY <2>4, <2>5, <2>6
<1>15. CASE UNCHANGED sbpVars
  BY <1>15, <1>b DEF PaidNeedsBank, BooksTruthful, RequestOk, OneRegistration, At
<1>. QED
  BY <1>1, <1>2, <1>3, <1>4, <1>5, <1>9, <1>10, <1>11, <1>12, <1>13, <1>14, <1>15
     DEF SbpNext, Arrive, Handle

-----------------------------------------------------------------------------
(***************************************************************************)
(* The theorems.                                                           *)
(***************************************************************************)
LEMMA BankInit == SbpInit => BankInv
<1>. SUFFICES ASSUME SbpInit PROVE BankInv
  OBVIOUS
<1>1. TypeOK
  BY ConstantsAssumption DEF SbpInit, Init, TypeOK, NoItems, Products, Quantities
<1>2. SbpTypeOK
  BY <1>1, SbpAssumption DEF SbpInit, SbpTypeOK, BankStatuses
<1>. QED
  BY <1>2 DEF SbpInit, Init, BankInv, PaidNeedsBank, BooksTruthful, RequestOk, OneRegistration,
              At, SoldStatuses, PaidStatuses

THEOREM BankCorrect == SbpSpec => []BankInv
  BY BankInit, BankStep, PTL DEF SbpSpec

\* Every variable of the payments, and of the shop below, keeps its type.
THEOREM SbpTypeCorrect == SbpSpec => []SbpTypeOK
<1>1. BankInv => SbpTypeOK
  BY DEF BankInv
<1>. QED
  BY <1>1, BankCorrect, PTL

\* However requests, faults and the bank interleave, an order is paid only if
\* an administrator confirmed it or the bank accepted its payment.
THEOREM PaidNeedsBankTheorem == SbpSpec => []PaidNeedsBank
<1>1. BankInv => PaidNeedsBank
  BY DEF BankInv
<1>. QED
  BY <1>1, BankCorrect, PTL

\* The statuses stored in sbp_qr and payments claim no money that the bank has
\* not accepted.
THEOREM BooksTruthfulTheorem == SbpSpec => []BooksTruthful
<1>1. BankInv => BooksTruthful
  BY DEF BankInv
<1>. QED
  BY <1>1, BankCorrect, PTL

\* The payments are built from the transactions of the shop, whose theorems
\* carry over.
LEMMA PaymentsAreShop == SbpSpec => Spec
<1>1. SbpInit => Init
  BY DEF SbpInit
<1>2. BankInv /\ [SbpNext]_sbpVars => [Next]_vars
  BY ShopStep DEF BankInv
<1>. QED
  BY <1>1, <1>2, BankCorrect, PTL DEF SbpSpec, Spec

\* Hence what holds of the shop holds with payments: no payment oversells.
THEOREM SbpNoOversell == SbpSpec => NoOversell
  BY PaymentsAreShop, NoOversellTheorem, PTL

\* So do its other promises: the types and counters of the shop, the QR codes
\* and redemptions, the limits of its promo codes and the abstract ledger, with
\* requests, polls and the bank between its transactions.
THEOREM SbpShopTheorem ==
  SbpSpec => /\ []TypeOK
             /\ []SoldCountExact
             /\ []PromoUseCounted
             /\ []RedeemedIffAllUsed
             /\ []QrFollowsPayment
             /\ []SpelledBySchema
             /\ PromoCapHeld
             /\ ImplementsLedger
  BY PaymentsAreShop, TypeCorrect, SoldCountTheorem, PromoUseTheorem, RedeemedTheorem,
     QrTheorem, SpellingTheorem, PromoCapTheorem, LedgerTheorem, PTL

-----------------------------------------------------------------------------
(***************************************************************************)
(* One message for each payment.                                           *)
(***************************************************************************)

\* The request r has to announce the payment of the order o.
Announces(r, o) == At(r, "announce") /\ request[r].order = o

\* The message of the order o that is still to be sent, and the one it is owed.
Waiting(o) == IF \E r \in Requests : Announces(r, o) THEN 1 ELSE 0
Owed(o)    == IF o \in everPaid THEN 1 ELSE 0

\* The count of AnnouncedOnce, without the cardinality.
Counted(o) ==
  /\ announced[o] + Waiting(o) <= Owed(o) + faults
  /\ HasRow(o) => Owed(o) <= announced[o] + Waiting(o) + faults

\* Only a request that changed an order to PAID announces it, and an order
\* that was paid never is PENDING again: nobody else can change it.
Settled == \A o \in everPaid : orderStatus[o] \notin {"none", "PENDING"}

OneAnnouncer ==
  \A r, s \in Requests, o \in Orders :
    /\ Announces(r, o) => o \in everPaid
    /\ Announces(r, o) /\ Announces(s, o) => r = s

\* A request holds the event of its order, until the order is erased; and an
\* order with items has an event, for which a job can be queued.
OwnEvent(r) ==
  LET q == request[r] IN
  q # NoRequest =>
    \/ orderStatus[q.order] = "gone"
    \/ orderStatus[q.order] # "none" /\ OrderOfEvent(q.order, q.event)

LiveEvents ==
  \A o \in Orders, e \in Events : OrderOfEvent(o, e) => eventRow[e] = "live"

\* The inductive invariant of the messages.
AnnounceInv ==
  /\ SbpTypeOK
  /\ Settled
  /\ OneAnnouncer
  /\ LiveEvents
  /\ \A r \in Requests : OwnEvent(r)
  /\ \A o \in Orders : Counted(o)

\* A row keeps its items until it is erased, an order never comes back and a
\* settled one never is PENDING again.
LEMMA OrderRows ==
  ASSUME TypeOK, [Next]_vars, NEW o \in Orders
  PROVE  /\ orderStatus'[o] = "none" => orderStatus[o] = "none"
         /\ orderStatus'[o] = "PENDING" => orderStatus[o] \in {"none", "PENDING"}
         /\ orderStatus[o] = "gone" => orderStatus'[o] = "gone"
         /\ orderStatus[o] # "none" => orderStatus'[o] = "gone" \/ items'[o] = items[o]
<1>. DEFINE Kept == /\ orderStatus'[o] = "none" => orderStatus[o] = "none"
                    /\ orderStatus'[o] = "PENDING" => orderStatus[o] \in {"none", "PENDING"}
                    /\ orderStatus[o] = "gone" => orderStatus'[o] = "gone"
                    /\ orderStatus[o] # "none" => orderStatus'[o] = "gone" \/ items'[o] = items[o]
<1>. SUFFICES Kept
  OBVIOUS
<1>. USE DEF orderVars
<1>a. /\ orderStatus \in [Orders -> {"none", "PENDING", "PAID", "CONFIRMED",
                                     "REDEEMED", "CANCELED", "gone"}]
      /\ items \in [Orders -> Quantities]
  BY DEF TypeOK
<1>1. CASE Catalogue
  <2>1. UNCHANGED <<orderStatus, items>>
    BY <1>1 DEF Catalogue, DeleteProduct, CreateProduct, UpdateProduct, PromoWindowTurns,
                DeletePromoCode, CreatePromoCode, UpdatePromoCode
  <2>. QED
    BY <2>1
<1>2. ASSUME NEW x \in Orders, NEW e \in Events, NEW qty \in Quantities,
             NEW c \in Promos \cup {NoPromo}, CreateOrder(x, e, qty, c)
      PROVE  Kept
  BY <1>2, <1>a DEF CreateOrder
<1>3. ASSUME NEW x \in Orders, ConfirmOrder(x)
      PROVE  Kept
  BY <1>3, <1>a DEF ConfirmOrder, ConfirmPending, ConfirmAgain, PaidStatus
<1>4. ASSUME NEW x \in Orders, CancelOrder(x)
      PROVE  Kept
  BY <1>4, <1>a DEF CancelOrder, PaidStatuses
<1>5. ASSUME NEW S, EraseOrders(S)
      PROVE  Kept
  BY <1>5, <1>a DEF EraseOrders
<1>6. ASSUME NEW t \in TicketIds, NEW scan, RedeemTicket(t, scan)
      PROVE  Kept
  <2>1. t[1] \in Orders /\ orderStatus[t[1]] \in SoldStatuses /\ items' = items
    BY <1>6 DEF RedeemTicket, TicketIds
  <2>2. orderStatus' = [orderStatus EXCEPT ![t[1]] = "REDEEMED"] \/ orderStatus' = orderStatus
    BY <1>6, <1>a DEF RedeemTicket
  <2>. QED
    BY <1>a, <2>1, <2>2 DEF SoldStatuses, PaidStatuses
<1>7. CASE MigrateTo18
  BY <1>7, <1>a DEF MigrateTo18
<1>8. CASE UNCHANGED vars
  BY <1>8 DEF vars
<1>. QED
  BY <1>1, <1>2, <1>3, <1>4, <1>5, <1>6, <1>7, <1>8 DEF Next, Sales, DeleteOrder, DeleteEvent

\* The deletion of an event erases its orders.
LEMMA LiveStep ==
  ASSUME TypeOK, LiveEvents, [Next]_vars
  PROVE  LiveEvents'
<1>. USE DEF orderVars, eventVars
<1>a. items \in [Orders -> Quantities] /\ eventRow \in [Events -> {"live", "gone"}]
  BY DEF TypeOK
<1>1. ASSUME UNCHANGED <<items, eventRow>>
      PROVE  LiveEvents'
  BY <1>1 DEF LiveEvents, OrderOfEvent
<1>2. ASSUME NEW S, EraseOrders(S), UNCHANGED eventRow
      PROVE  LiveEvents'
  <2>1. \A o \in Orders, p \in Products : items'[o][p] > 0 => items'[o] = items[o]
    BY <1>2 DEF EraseOrders, NoItems
  <2>. QED
    BY <1>2, <2>1 DEF LiveEvents, OrderOfEvent
<1>3. ASSUME NEW x \in Orders, NEW e \in Events, NEW qty \in Quantities,
             NEW c \in Promos \cup {NoPromo}, CreateOrder(x, e, qty, c)
      PROVE  LiveEvents'
  <2>1. /\ UNCHANGED eventRow /\ eventRow[e] = "live"
        /\ items'[x] = qty /\ \A o \in Orders : o # x => items'[o] = items[o]
        /\ \A p \in Products : qty[p] > 0 => EventOf[p] = e
    BY <1>3, <1>a DEF CreateOrder
  <2>. QED
    BY <2>1 DEF LiveEvents, OrderOfEvent
<1>4. ASSUME NEW e \in Events, DeleteEvent(e)
      PROVE  LiveEvents'
  <2>1. \A f \in Events : f # e => eventRow'[f] = eventRow[f]
    BY <1>4, <1>a DEF DeleteEvent
  <2>2. \A o \in Orders : items'[o] = IF OrderOfEvent(o, e) THEN NoItems ELSE items[o]
    BY <1>4 DEF DeleteEvent, EraseOrders
  <2>3. \A o \in Orders, p \in Products :
          items'[o][p] > 0 => items'[o] = items[o] /\ ~OrderOfEvent(o, e)
    BY <2>2 DEF NoItems
  <2>. QED
    BY <2>1, <2>3 DEF LiveEvents, OrderOfEvent
<1>5. CASE Catalogue \/ MigrateTo18 \/ UNCHANGED vars
  BY <1>1, <1>5
     DEF vars, Catalogue, DeleteProduct, CreateProduct, UpdateProduct, PromoWindowTurns,
         DeletePromoCode, CreatePromoCode, UpdatePromoCode, MigrateTo18
<1>6. ASSUME NEW x \in Orders, ConfirmOrder(x) \/ CancelOrder(x) \/ DeleteOrder(x)
      PROVE  LiveEvents'
  BY <1>1, <1>2, <1>6 DEF ConfirmOrder, ConfirmPending, ConfirmAgain, CancelOrder, DeleteOrder
<1>7. ASSUME NEW t \in TicketIds, NEW scan, RedeemTicket(t, scan)
      PROVE  LiveEvents'
  BY <1>1, <1>7 DEF RedeemTicket
<1>. QED
  BY <1>3, <1>4, <1>5, <1>6, <1>7 DEF Next, Sales

\* What a request holds stays its own while the shop goes on.
LEMMA OwnEventKept ==
  ASSUME TypeOK, [Next]_vars, NEW r \in Requests, OwnEvent(r),
         request[r] # NoRequest => request[r].order \in Orders,
         request'[r] # NoRequest =>
           /\ request[r] # NoRequest
           /\ request'[r].order = request[r].order
           /\ request'[r].event = request[r].event
  PROVE  OwnEvent(r)'
<1>. SUFFICES ASSUME request'[r] # NoRequest
              PROVE  OwnEvent(r)'
  BY DEF OwnEvent
<1>. DEFINE o == request[r].order
            e == request[r].event
<1>1. /\ o \in Orders
      /\ request'[r].order = o /\ request'[r].event = e
      /\ orderStatus[o] = "gone" \/ (orderStatus[o] # "none" /\ OrderOfEvent(o, e))
  BY DEF OwnEvent
<1>2. orderStatus'[o] = "gone" \/ (orderStatus'[o] # "none" /\ items'[o] = items[o])
  BY <1>1, OrderRows
<1>3. orderStatus'[o] = "gone" \/ (orderStatus'[o] # "none" /\ OrderOfEvent(o, e)')
  BY <1>1, <1>2, OrderRows DEF OrderOfEvent
<1>. QED
  BY <1>1, <1>3 DEF OwnEvent

\* A step that pays no order and leaves the messages as they are, sent and to
\* be sent, keeps the count.
LEMMA QuietStep ==
  ASSUME AnnounceInv, [Next]_vars, SbpTypeOK',
         UNCHANGED <<everPaid, announced>>, faults' \in {faults, faults + 1},
         \A r \in Requests, o \in Orders : Announces(r, o)' <=> Announces(r, o),
         \A r \in Requests : OwnEvent(r)'
  PROVE  AnnounceInv'
<1>a. TypeOK
  BY DEF AnnounceInv, SbpTypeOK
<1>b. everPaid \subseteq Orders /\ announced \in [Orders -> Nat] /\ faults \in Nat
  BY SbpAssumption DEF AnnounceInv, SbpTypeOK
<1>1. Settled'
  BY <1>a, <1>b, OrderRows DEF AnnounceInv, Settled
<1>2. OneAnnouncer'
  BY DEF AnnounceInv, OneAnnouncer
<1>3. LiveEvents'
  BY <1>a, LiveStep DEF AnnounceInv
<1>4. ASSUME NEW o \in Orders
      PROVE  Counted(o)'
  <2>1. Waiting(o)' = Waiting(o) /\ Owed(o)' = Owed(o)
    BY DEF Waiting, Owed
  <2>2. Counted(o) /\ announced[o] \in Nat /\ Waiting(o) \in {0, 1} /\ Owed(o) \in {0, 1}
    BY <1>b DEF AnnounceInv, Waiting, Owed
  <2>3. HasRow(o)' /\ o \in everPaid => HasRow(o)
    BY <1>a, OrderRows DEF HasRow, AnnounceInv, Settled
  <2>4. announced'[o] = announced[o]
    OBVIOUS
  <2>. QED
    BY <1>b, <2>1, <2>2, <2>3, <2>4 DEF Counted, Owed
<1>. QED
  BY <1>1, <1>2, <1>3, <1>4 DEF AnnounceInv

\* The step that turns an order PAID makes one request announce it.
LEMMA PayingStep ==
  ASSUME AnnounceInv, [Next]_vars, SbpTypeOK',
         NEW r \in Requests, NEW x \in Orders, ConfirmPending(x),
         everPaid' = everPaid \cup {x}, UNCHANGED <<announced, faults>>,
         ~At(r, "announce"), Announces(r, x)', OwnEvent(r)',
         \A s \in Requests : s # r => request'[s] = request[s]
  PROVE  AnnounceInv'
<1>a. TypeOK
  BY DEF AnnounceInv, SbpTypeOK
<1>b. everPaid \subseteq Orders /\ announced \in [Orders -> Nat] /\ faults \in Nat
  BY SbpAssumption DEF AnnounceInv, SbpTypeOK
<1>c. orderStatus[x] = "PENDING" /\ orderStatus'[x] \notin {"none", "PENDING"} /\ x \notin everPaid
  BY <1>a DEF ConfirmPending, PaidStatus, TypeOK, AnnounceInv, Settled
<1>d. /\ \A s \in Requests, o \in Orders : s # r => (Announces(s, o)' <=> Announces(s, o))
      /\ \A o \in Orders : Announces(r, o)' <=> o = x
      /\ \A o \in Orders : ~Announces(r, o)
      /\ \A s \in Requests : ~Announces(s, x)
  BY <1>c DEF Announces, At, AnnounceInv, OneAnnouncer
<1>1. Settled'
  BY <1>a, <1>b, <1>c, OrderRows DEF AnnounceInv, Settled
<1>2. OneAnnouncer'
  BY <1>d DEF AnnounceInv, OneAnnouncer
<1>3. LiveEvents'
  BY <1>a, LiveStep DEF AnnounceInv
<1>4. ASSUME NEW s \in Requests
      PROVE  OwnEvent(s)'
  <2>1. CASE s = r
    BY <2>1
  <2>2. CASE s # r
    <3>1. request[s] # NoRequest => request[s].order \in Orders
      BY RequestType DEF AnnounceInv
    <3>. QED
      BY <1>a, <2>2, <3>1, OwnEventKept DEF AnnounceInv
  <2>. QED
    BY <2>1, <2>2
<1>5. ASSUME NEW o \in Orders
      PROVE  Counted(o)'
  <2>1. Counted(o) /\ announced[o] \in Nat
    BY <1>b DEF AnnounceInv
  <2>2. CASE o = x
    BY <1>b, <1>c, <1>d, <2>1, <2>2 DEF Counted, Waiting, Owed
  <2>3. CASE o # x
    <3>1. Waiting(o)' = Waiting(o) /\ Owed(o)' = Owed(o)
      BY <1>d, <2>3 DEF Waiting, Owed
    <3>2. HasRow(o)' /\ o \in everPaid => HasRow(o)
      BY <1>a, OrderRows DEF HasRow, AnnounceInv, Settled
    <3>3. Waiting(o) \in {0, 1} /\ Owed(o) \in {0, 1}
      BY DEF Waiting, Owed
    <3>. QED
      BY <1>b, <2>1, <3>1, <3>2, <3>3 DEF Counted, Owed
  <2>. QED
    BY <2>2, <2>3
<1>. QED
  BY <1>1, <1>2, <1>3, <1>4, <1>5 DEF AnnounceInv

\* The step that ends an announcement sends the message, or a fault loses or
\* repeats it; without a fault it is lost only with its order.
LEMMA AnnouncingStep ==
  ASSUME AnnounceInv, SbpTypeOK', UNCHANGED <<vars, everPaid>>,
         NEW r \in Requests, At(r, "announce"), Finish(r),
         NEW n \in {0, 1, 2}, announced' = [announced EXCEPT ![request[r].order] = @ + n],
         \/ n = 1 /\ UNCHANGED faults
         \/ n = 0 /\ UNCHANGED faults /\ eventRow[request[r].event] = "gone"
         \/ faults' = faults + 1
  PROVE  AnnounceInv'
<1>. DEFINE x == request[r].order
<1>b. everPaid \subseteq Orders /\ announced \in [Orders -> Nat] /\ faults \in Nat
  BY SbpAssumption DEF AnnounceInv, SbpTypeOK
<1>c. x \in Orders /\ request[r].event \in Events /\ x \in everPaid /\ request[r] # NoRequest
  BY RequestType DEF AnnounceInv, OneAnnouncer, Announces, At
<1>d. request'[r] = NoRequest /\ \A s \in Requests : s # r => request'[s] = request[s]
  BY DEF Finish, AnnounceInv, SbpTypeOK
<1>e. /\ \A s \in Requests, o \in Orders : s # r => (Announces(s, o)' <=> Announces(s, o))
      /\ \A o \in Orders : ~Announces(r, o)'
      /\ \A o \in Orders : Announces(r, o) <=> o = x
      /\ \A s \in Requests : s # r => ~Announces(s, x)
  BY <1>c, <1>d DEF Announces, At, AnnounceInv, OneAnnouncer
<1>f. UNCHANGED <<orderStatus, items, eventRow>>
  BY DEF vars, orderVars, eventVars
<1>1. Settled'
  BY <1>f DEF AnnounceInv, Settled
<1>2. OneAnnouncer'
  BY <1>e DEF AnnounceInv, OneAnnouncer
<1>3. LiveEvents'
  BY <1>f DEF AnnounceInv, LiveEvents, OrderOfEvent
<1>4. ASSUME NEW s \in Requests
      PROVE  OwnEvent(s)'
  BY <1>d, <1>f DEF AnnounceInv, OwnEvent, OrderOfEvent
<1>5. n = 0 /\ UNCHANGED faults => ~HasRow(x)
  <2>1. orderStatus[x] = "gone" \/ OrderOfEvent(x, request[r].event)
    BY <1>c DEF AnnounceInv, OwnEvent
  <2>2. OrderOfEvent(x, request[r].event) => eventRow[request[r].event] = "live"
    BY <1>c DEF AnnounceInv, LiveEvents
  <2>3. faults' = faults + 1 => faults' # faults
    BY <1>b
  <2>. QED
    BY <2>1, <2>2, <2>3 DEF HasRow
<1>6. ASSUME NEW o \in Orders
      PROVE  Counted(o)'
  <2>1. Counted(o) /\ announced[o] \in Nat /\ (HasRow(o)' <=> HasRow(o)) /\ Owed(o)' = Owed(o)
    BY <1>b, <1>f DEF AnnounceInv, HasRow, Owed
  <2>2. CASE o = x
    <3>1. Waiting(o) = 1 /\ Waiting(o)' = 0 /\ Owed(o) = 1 /\ announced'[o] = announced[o] + n
      BY <1>b, <1>c, <1>e, <2>2 DEF Waiting, Owed
    <3>. QED
      BY <1>b, <1>5, <2>1, <2>2, <3>1 DEF Counted
  <2>3. CASE o # x
    <3>1. Waiting(o)' = Waiting(o) /\ Waiting(o) \in {0, 1} /\ Owed(o) \in {0, 1}
      BY <1>e, <2>3 DEF Waiting, Owed
    <3>2. announced'[o] = announced[o] /\ faults' \in {faults, faults + 1}
      BY <1>b, <2>3
    <3>. QED
      BY <1>b, <2>1, <3>1, <3>2 DEF Counted
  <2>. QED
    BY <2>2, <2>3
<1>. QED
  BY <1>1, <1>2, <1>3, <1>4, <1>6 DEF AnnounceInv

\* A step of a request that announces nothing, before and after it.
LEMMA QuietRequest ==
  ASSUME AnnounceInv, [Next]_vars, SbpTypeOK',
         UNCHANGED <<everPaid, announced>>, faults' \in {faults, faults + 1},
         NEW r \in Requests, \A s \in Requests : s # r => request'[s] = request[s],
         ~At(r, "announce"), ~At(r, "announce")', OwnEvent(r)'
  PROVE  AnnounceInv'
<1>1. \A s \in Requests, o \in Orders : Announces(s, o)' <=> Announces(s, o)
  BY DEF Announces, At
<1>2. ASSUME NEW s \in Requests, s # r
      PROVE  OwnEvent(s)'
  <2>1. request[s] # NoRequest => request[s].order \in Orders
    BY RequestType DEF AnnounceInv
  <2>. QED
    BY <1>2, <2>1, OwnEventKept DEF AnnounceInv, SbpTypeOK
<1>. QED
  BY <1>1, <1>2, QuietStep

\* A request that moves on keeps its order and its event.
LEMMA SameOrder ==
  ASSUME SbpTypeOK, NEW r \in Requests, request[r] # NoRequest,
         \/ \E s \in Stages : GoTo(r, s)
         \/ Finish(r)
         \/ AfterSaving(r)
         \/ request' = [request EXCEPT ![r].stage = "saveQr", ![r].answer = bank[request[r].order]]
  PROVE  /\ \A s \in Requests : s # r => request'[s] = request[s]
         /\ request'[r] # NoRequest =>
              request'[r].order = request[r].order /\ request'[r].event = request[r].event
<1>1. request \in [Requests -> RequestStates \cup {NoRequest}] /\ request[r] \in RequestStates
  BY RequestType DEF SbpTypeOK
<1>4. ASSUME NEW s, GoTo(r, s)
      PROVE  /\ \A q \in Requests : q # r => request'[q] = request[q]
             /\ request'[r].order = request[r].order /\ request'[r].event = request[r].event
  <2>1. /\ request'[r] = [request[r] EXCEPT !.stage = s]
        /\ \A q \in Requests : q # r => request'[q] = request[q]
    BY <1>1, <1>4 DEF GoTo
  <2>. QED
    BY <1>1, <2>1 DEF RequestStates
<1>5. CASE Finish(r)
  BY <1>1, <1>5 DEF Finish
<1>6. CASE request' = [request EXCEPT ![r].stage = "saveQr", ![r].answer = bank[request[r].order]]
  BY <1>1, <1>6 DEF RequestStates
<1>. QED
  BY <1>4, <1>5, <1>6 DEF AfterSaving

\* The invariant follows every step.
LEMMA AnnounceStep ==
  ASSUME AnnounceInv, [SbpNext]_sbpVars
  PROVE  AnnounceInv'
<1>. USE DEF sbpVars, rowVars, pastVars
<1>a. SbpTypeOK /\ SbpTypeOK' /\ TypeOK
  BY SbpTypeStep DEF AnnounceInv, SbpTypeOK
<1>b. [Next]_vars
  BY <1>a, ShopStep
<1>c. request \in [Requests -> RequestStates \cup {NoRequest}] /\ faults \in Nat
      /\ \A r \in Requests : request[r] # NoRequest => request[r].order \in Orders
  BY <1>a, RequestType, SbpAssumption DEF SbpTypeOK
<1>1. ASSUME NEW r \in Requests, NEW o \in Orders, NEW e \in Events, NEW qty \in Quantities,
             NEW c \in Promos \cup {NoPromo}, CreateSbpOrder(r, o, e, qty, c)
      PROVE  AnnounceInv'
  <2>. DEFINE q == [stage |-> "register", order |-> o, event |-> e, answer |-> "none"]
  <2>1. /\ UNCHANGED <<everPaid, announced, faults>> /\ request[r] = NoRequest
        /\ orderStatus'[o] = "PENDING" /\ OrderOfEvent(o, e)'
    BY <1>1, <1>a, ConstantsAssumption
       DEF CreateSbpOrder, CreateOrder, TypeOK, OrderOfEvent, Products
  <2>2. CASE request' = [request EXCEPT ![r] = q]
    <3>1. request'[r] = q /\ \A s \in Requests : s # r => request'[s] = request[s]
      BY <1>c, <2>2
    <3>2. OwnEvent(r)'
      BY <2>1, <3>1 DEF OwnEvent
    <3>3. ~At(r, "announce") /\ ~At(r, "announce")'
      BY <2>1, <3>1 DEF At
    <3>. QED
      BY <1>a, <1>b, <2>1, <3>1, <3>2, <3>3, QuietRequest
  <2>3. CASE UNCHANGED request
    <3>1. OwnEvent(r)' /\ ~At(r, "announce") /\ ~At(r, "announce")'
      BY <2>1, <2>3 DEF OwnEvent, At
    <3>. QED
      BY <1>a, <1>b, <2>1, <2>3, <3>1, QuietRequest
  <2>. QED
    BY <1>1, <2>2, <2>3 DEF CreateSbpOrder
<1>2. ASSUME NEW r \in Requests, NEW o \in Orders, ReadStatus(r, o)
      PROVE  AnnounceInv'
  <2>1. PICK e \in Events :
          /\ OrderOfEvent(o, e)
          /\ request' = [request EXCEPT ![r] = [stage |-> "ask", order |-> o, event |-> e,
                                                answer |-> sbpQr[o]]]
    BY <1>2 DEF ReadStatus
  <2>2. /\ request[r] = NoRequest
        /\ request'[r] = [stage |-> "ask", order |-> o, event |-> e, answer |-> sbpQr[o]]
        /\ \A s \in Requests : s # r => request'[s] = request[s]
    BY <1>2, <1>c, <2>1 DEF ReadStatus
  <2>3. UNCHANGED <<vars, everPaid, announced, faults>> /\ HasRow(o)
    BY <1>2 DEF ReadStatus
  <2>4. OwnEvent(r)'
    BY <2>1, <2>2, <2>3 DEF OwnEvent, OrderOfEvent, HasRow, vars, orderVars
  <2>5. ~At(r, "announce") /\ ~At(r, "announce")'
    BY <2>2 DEF At
  <2>. QED
    BY <1>a, <1>b, <2>2, <2>3, <2>4, <2>5, QuietRequest
<1>3. ASSUME NEW r \in Requests, NEW o \in Orders, ConfirmByAdmin(r, o)
      PROVE  AnnounceInv'
  <2>1. UNCHANGED <<announced, faults>> /\ request[r] = NoRequest /\ ~At(r, "announce")
    BY <1>3 DEF ConfirmByAdmin, At
  <2>2. CASE ConfirmAgain(o) /\ UNCHANGED <<everPaid, request>>
    <3>1. ~At(r, "announce")' /\ OwnEvent(r)'
      BY <2>1, <2>2 DEF At, OwnEvent
    <3>. QED
      BY <1>a, <1>b, <2>1, <2>2, <3>1, QuietRequest
  <2>3. ASSUME ConfirmPending(o), everPaid' = everPaid \cup {o}, NEW e \in Events,
               OrderOfEvent(o, e),
               request' = [request EXCEPT ![r] = [stage |-> "announce", order |-> o,
                                                  event |-> e, answer |-> "none"]]
        PROVE  AnnounceInv'
    <3>1. /\ request'[r] = [stage |-> "announce", order |-> o, event |-> e, answer |-> "none"]
          /\ \A s \in Requests : s # r => request'[s] = request[s]
      BY <1>c, <2>3
    <3>2. Announces(r, o)'
      BY <3>1, SbpAssumption, <1>a DEF Announces, At, SbpTypeOK, RequestStates, Stages
    <3>3. OwnEvent(r)'
      BY <1>a, <2>3, <3>1 DEF OwnEvent, OrderOfEvent, ConfirmPending, PaidStatus, TypeOK
    <3>. QED
      BY <1>a, <1>b, <2>1, <2>3, <3>1, <3>2, <3>3, PayingStep
  <2>. QED
    BY <1>3, <2>2, <2>3 DEF ConfirmByAdmin
\* The steps of a request between its first and its confirmation.
<1>4. ASSUME NEW r \in Requests, request[r] # NoRequest, ~At(r, "announce"),
             UNCHANGED <<everPaid, announced>>, faults' \in {faults, faults + 1},
             \/ \E s \in Stages \ {"announce"} : GoTo(r, s)
             \/ Finish(r)
             \/ AfterSaving(r)
             \/ request' = [request EXCEPT ![r].stage = "saveQr",
                                           ![r].answer = bank[request[r].order]]
      PROVE  AnnounceInv'
  <2>1. /\ \A s \in Requests : s # r => request'[s] = request[s]
        /\ request'[r] # NoRequest =>
             request'[r].order = request[r].order /\ request'[r].event = request[r].event
    BY <1>4, <1>a, SameOrder
  <2>2. OwnEvent(r)'
    BY <1>4, <1>a, <1>b, <1>c, <2>1, OwnEventKept DEF AnnounceInv
  <2>3. request[r] \in RequestStates
    BY <1>4, <1>c
  <2>4. ~At(r, "announce")'
    BY <1>4, <1>c, <2>3 DEF At, GoTo, Finish, AfterSaving, RequestStates
  <2>. QED
    BY <1>4, <1>a, <1>b, <2>1, <2>2, <2>4, QuietRequest
<1>5. ASSUME NEW r \in Requests,
             \/ Register(r) \/ StoreQr(r) \/ StorePayment(r)
             \/ Ask(r) \/ SaveQr(r) \/ SavePayment(r)
      PROVE  AnnounceInv'
  <2>1. request[r] # NoRequest /\ ~At(r, "announce") /\ UNCHANGED <<everPaid, announced, faults>>
    BY <1>5 DEF Register, StoreQr, StorePayment, Ask, SaveQr, SavePayment, At
  <2>. QED
    BY <1>4, <1>5, <2>1
       DEF Register, StoreQr, StorePayment, Ask, SaveQr, SavePayment, Stages
<1>6. ASSUME NEW r \in Requests, ConfirmByBank(r)
      PROVE  AnnounceInv'
  <2>1. /\ UNCHANGED <<announced, faults>> /\ request[r] # NoRequest
        /\ ~At(r, "announce") /\ request[r].order \in Orders
    BY <1>6, <1>c DEF ConfirmByBank, At
  <2>. PICK o \in Orders : o = request[r].order
    BY <2>1
  <2>2. CASE ConfirmPending(o) /\ everPaid' = everPaid \cup {o} /\ GoTo(r, "announce")
    <3>1. /\ \A s \in Requests : s # r => request'[s] = request[s]
          /\ request'[r] # NoRequest =>
               request'[r].order = request[r].order /\ request'[r].event = request[r].event
      BY <1>a, <2>1, <2>2, SameOrder DEF Stages
    <3>2. OwnEvent(r)'
      BY <1>a, <1>b, <1>c, <2>1, <3>1, OwnEventKept DEF AnnounceInv
    <3>3. request[r] \in RequestStates /\ "announce" \in Stages
      BY <1>c, <2>1 DEF Stages
    <3>4. request'[r] = [request[r] EXCEPT !.stage = "announce"]
      BY <1>c, <2>2 DEF GoTo
    <3>5. request'[r] \in RequestStates /\ request'[r].stage = "announce" /\ request'[r].order = o
      BY <3>3, <3>4 DEF RequestStates
    <3>6. Announces(r, o)'
      BY <3>5, SbpAssumption DEF Announces, At
    <3>. QED
      BY <1>a, <1>b, <2>1, <2>2, <3>1, <3>2, <3>6, PayingStep
  <2>3. CASE UNCHANGED everPaid /\ Finish(r)
    BY <1>4, <2>1, <2>3
  <2>. QED
    BY <1>6, <2>2, <2>3 DEF ConfirmByBank
<1>7. ASSUME NEW r \in Requests, At(r, "announce"), UNCHANGED <<vars, everPaid>>, Finish(r),
             \/ Announce(r) \/ AnnounceTwice(r) \/ StepFails(r)
      PROVE  AnnounceInv'
  <2>. DEFINE x == request[r].order
  <2>1. announced \in [Orders -> Nat] /\ x \in Orders
    BY <1>7, <1>a, <1>c DEF SbpTypeOK, At
  <2>2. UNCHANGED announced => announced' = [announced EXCEPT ![x] = @ + 0]
    BY <2>1
  <2>3. \/ announced' = [announced EXCEPT ![x] = @ + 1] /\ UNCHANGED faults
        \/ /\ announced' = [announced EXCEPT ![x] = @ + 0]
           /\ UNCHANGED faults /\ eventRow[request[r].event] = "gone"
        \/ announced' = [announced EXCEPT ![x] = @ + 2] /\ faults' = faults + 1
        \/ announced' = [announced EXCEPT ![x] = @ + 0] /\ faults' = faults + 1
    BY <1>7, <2>2 DEF Announce, AnnounceTwice, StepFails, Fault
  <2>. QED
    BY <1>7, <1>a, <2>3, AnnouncingStep
<1>8. ASSUME NEW r \in Requests, Disturb(r), ~At(r, "announce")
      PROVE  AnnounceInv'
  <2>1. /\ request[r] # NoRequest
        /\ UNCHANGED <<everPaid, announced>> /\ faults' = faults + 1
    BY <1>8 DEF Disturb, AskEmpty, AnnounceTwice, StepFails, SaveFails, Fault, At
  <2>. QED
    BY <1>4, <1>8, <2>1 DEF Disturb, AskEmpty, AnnounceTwice, StepFails, SaveFails, Stages
<1>9. ASSUME NEW r \in Requests, Announce(r) \/ (Disturb(r) /\ At(r, "announce"))
      PROVE  AnnounceInv'
  BY <1>7, <1>9 DEF Announce, Disturb, AskEmpty, AnnounceTwice, StepFails, SaveFails, At
<1>10. CASE Shop \/ (\E o \in Orders : BankMoves(o)) \/ UNCHANGED sbpVars
  <2>1. UNCHANGED <<request, everPaid, announced, faults>>
    BY <1>10 DEF Shop, BankMoves
  <2>2. \A r \in Requests, o \in Orders : Announces(r, o)' <=> Announces(r, o)
    BY <2>1 DEF Announces, At
  <2>3. \A r \in Requests : OwnEvent(r)'
    BY <1>a, <1>b, <1>c, <2>1, OwnEventKept DEF AnnounceInv
  <2>. QED
    BY <1>a, <1>b, <2>1, <2>2, <2>3, QuietStep
<1>11. CASE Crash
  <2>1. /\ UNCHANGED <<vars, everPaid, announced>> /\ faults' = faults + 1
        /\ \A r \in Requests : request'[r] = NoRequest
    BY <1>11 DEF Crash, Fault
  <2>2. UNCHANGED <<orderStatus, items, eventRow>>
    BY <2>1 DEF vars, orderVars, eventVars
  <2>3. Settled' /\ OneAnnouncer' /\ LiveEvents' /\ \A r \in Requests : OwnEvent(r)'
    BY <2>1, <2>2 DEF AnnounceInv, Settled, OneAnnouncer, Announces, At, LiveEvents,
                      OrderOfEvent, OwnEvent
  <2>4. ASSUME NEW o \in Orders
        PROVE  Counted(o)'
    <3>1. Waiting(o)' = 0 /\ Owed(o)' = Owed(o) /\ (HasRow(o)' <=> HasRow(o))
      BY <2>1, <2>2 DEF Waiting, Owed, HasRow, Announces, At
    <3>2. Counted(o) /\ announced[o] \in Nat /\ Waiting(o) \in {0, 1} /\ Owed(o) \in {0, 1}
      BY <1>a DEF AnnounceInv, SbpTypeOK, Waiting, Owed
    <3>. QED
      BY <1>c, <2>1, <3>1, <3>2 DEF Counted
  <2>. QED
    BY <1>a, <2>3, <2>4 DEF AnnounceInv
<1>. QED
  BY <1>1, <1>2, <1>3, <1>5, <1>6, <1>8, <1>9, <1>10, <1>11 DEF SbpNext, Arrive, Handle

\* However polls and administrators race to confirm an order, its payment is
\* announced once, but for the faults, with any number of requests.
THEOREM AnnouncedOnceTheorem == SbpSpec => []AnnouncedOnce
<1>1. SbpInit => AnnounceInv
  <2>. SUFFICES ASSUME SbpInit PROVE AnnounceInv
    OBVIOUS
  <2>1. SbpTypeOK
    BY BankInit DEF BankInv
  <2>2. \A o \in Orders, p \in Products : items[o][p] = 0
    BY DEF SbpInit, Init, NoItems
  <2>. QED
    BY <2>1, <2>2 DEF SbpInit, AnnounceInv, Settled, OneAnnouncer, Announces, At, LiveEvents,
                      OrderOfEvent, OwnEvent, Counted, Waiting, Owed
<1>2. AnnounceInv /\ [SbpNext]_sbpVars => AnnounceInv'
  BY AnnounceStep
<1>3. AnnounceInv => AnnouncedOnce
  <2>. SUFFICES ASSUME AnnounceInv, NEW o \in Orders
                PROVE  /\ Messages(o) <= Owed(o) + faults
                       /\ HasRow(o) => Owed(o) <= Messages(o) + faults
    BY DEF AnnouncedOnce, Owed
  <2>. DEFINE A == {r \in Requests : At(r, "announce") /\ request[r].order = o}
  <2>1. Cardinality(A) = Waiting(o)
    <3>1. CASE \E r \in Requests : Announces(r, o)
      <4>1. PICK r \in Requests : Announces(r, o)
        BY <3>1
      <4>2. A = {r}
        BY <4>1 DEF Announces, AnnounceInv, OneAnnouncer
      <4>. QED
        BY <3>1, <4>2, FS_Singleton DEF Waiting
    <3>2. CASE ~\E r \in Requests : Announces(r, o)
      <4>1. A = {}
        BY <3>2 DEF Announces
      <4>. QED
        BY <3>2, <4>1, FS_EmptySet DEF Waiting
    <3>. QED
      BY <3>1, <3>2
  <2>2. Messages(o) = announced[o] + Waiting(o)
    BY <2>1 DEF Messages
  <2>. QED
    BY <2>2 DEF AnnounceInv, Counted
<1>. QED
  BY <1>1, <1>2, <1>3, PTL DEF SbpSpec

-----------------------------------------------------------------------------
(***************************************************************************)
(* The transactions, statement by statement.                               *)
(***************************************************************************)
Pending(s) == step[s] \in {"products", "promo", "commit"}

\* What a transaction has read of its order, when it locked the row, is so still;
\* an order that is to be created has no row.
OrderRead(s) ==
  LET t == txn[s]
      o == t.order
  IN  /\ t.kind = "create" =>
           orderStatus[o] = "none" /\ \E p \in TicketProducts : t.qty[p] > 0
      /\ t.kind # "create" => orderStatus[o] = t.seen
      /\ t.kind = "confirm" =>
           /\ t.seen \in {"PENDING"} \cup SoldStatuses
           /\ t.qty = IF t.seen = "PENDING" THEN items[o] ELSE NoItems
           /\ t.code = NoPromo
      /\ t.kind = "cancel" =>
           /\ t.seen \in {"PENDING"} \cup PaidStatuses
           /\ t.qty = IF t.seen \in PaidStatuses THEN items[o] ELSE NoItems
           /\ t.code = orderPromo[o]
      /\ t.kind = "delete" =>
           /\ t.seen \notin {"none", "gone"}
           /\ t.qty = IF t.seen \in SoldStatuses THEN items[o] ELSE NoItems
           /\ t.code = IF t.seen = "CANCELED" THEN NoPromo ELSE orderPromo[o]
      /\ t.kind = "redeem" =>
           /\ t.seen \in SoldStatuses
           /\ t.qty = NoItems
           /\ t.code = NoPromo
           /\ \E k \in TicketsOf(o) \ redeemed : t.tickets = {k}

\* So is what it has read of a product, and made of it.
ProductRead(s, p) ==
  LET t == txn[s]
  IN  /\ t.qty[p] > 0
      /\ t.kind = "create" => productRow[p] = "live" /\ p \in active /\ EventOf[p] = t.event
      /\ t.kind = "confirm" => HasRoom(p, t.qty[p]) /\ sold[s][p] = soldCount[p] + t.qty[p]
      /\ t.kind \in {"cancel", "delete"} /\ productRow[p] = "live" =>
           sold[s][p] = Less(soldCount[p], t.qty[p])

\* And of its promo code.
PromoRead(s) ==
  LET t == txn[s]
      c == t.code
  IN  /\ t.kind = "create" =>
           /\ usageLimit[c] > 0 => usedCount[c] < usageLimit[c]
           /\ promoScope[c] \in {AnyEvent, t.event}
           /\ used[s] = usedCount[c] + 1
      /\ t.kind # "create" => used[s] = Less(usedCount[c], 1)

\* What its last statements have made of the order.
DraftRight(s) ==
  LET t == txn[s]
      o == t.order
  IN  /\ t.kind = "create" => draft[s].status = "PENDING" /\ eventRow[t.event] = "live"
      /\ t.kind = "confirm" =>
           /\ draft[s].status = IF t.seen = "PENDING" THEN PaidStatus ELSE t.seen
           /\ draft[s].tickets = TicketsOf(o) \ qrIssued
      /\ t.kind = "cancel" => draft[s].status = "CANCELED"
      /\ t.kind = "delete" => draft[s].status = "gone"
      /\ t.kind = "redeem" =>
           /\ draft[s].status =
                IF TicketsOf(o) \subseteq redeemed \cup t.tickets THEN "REDEEMED" ELSE t.seen
           /\ draft[s].tickets = t.tickets

SessionInv(s) ==
  /\ \A p \in taken[s] : productRow[p] # "none"
  /\ \A c \in Promos : HoldsPromo(s, c) => promoRow[c] = "live"
  /\ step[s] = "rest" => taken[s] = {}
  /\ step[s] = "promo" => txn[s].code \in Promos
  /\ step[s] \in {"promo", "commit"} => AllTaken(s) /\ (txn[s].kind = "create" => Payable(s))
  /\ Pending(s) => OrderRead(s) /\ \A p \in taken[s] : ProductRead(s, p)
  /\ step[s] \in {"promo", "commit"} /\ txn[s].code \in Promos => PromoRead(s)
  /\ step[s] = "commit" => DraftRight(s)

\* No row is locked by two.
Exclusive(r, s) ==
  /\ step[r] # "rest" /\ step[s] # "rest" /\ (txn[r].kind = "create" <=> txn[s].kind = "create") =>
       txn[r].order # txn[s].order
  /\ \A p \in taken[r] \cap taken[s] : productRow[p] # "live"
  /\ \A c \in Promos : ~(HoldsPromo(r, c) /\ HoldsPromo(s, c))

TxnInv ==
  /\ TxnTypeOK
  /\ \A s \in Sessions : SessionInv(s)
  /\ \A r, s \in Sessions : r # s => Exclusive(r, s)

\* The shop as the transactions show it, with what is known of the shop.
Atomic == INSTANCE TicketingProofs WITH promoOpen <- OpenAtCommit

LEMMA AtomicConstants == Atomic!ConstantsAssumption
BY ConstantsAssumption
   DEF ConstantsAssumption, Atomic!ConstantsAssumption, Products, Atomic!Products, IsFiniteSet,
       Atomic!IsFiniteSet

LEMMA AtomicInit == AtCommit!Init => Atomic!Init
<1>1. /\ AtCommit!Products = Products /\ Atomic!Products = Products
      /\ AtCommit!NoItems = NoItems /\ Atomic!NoItems = NoItems
  BY DEF AtCommit!Products, Atomic!Products, Products, AtCommit!NoItems, Atomic!NoItems, NoItems
<1>. QED
  BY <1>1 DEF AtCommit!Init, Atomic!Init

\* The operators of the two instances are the same.
LEMMA AtomicSame ==
  /\ AtCommit!Products = Atomic!Products
  /\ AtCommit!TicketIds = Atomic!TicketIds
  /\ AtCommit!NoItems = Atomic!NoItems
  /\ AtCommit!Quantities = Atomic!Quantities
  /\ \A o : AtCommit!TicketsOf(o) = Atomic!TicketsOf(o)
  /\ \A o, e : AtCommit!OrderOfEvent(o, e) <=> Atomic!OrderOfEvent(o, e)
BY DEF AtCommit!Products, Atomic!Products, AtCommit!TicketIds, Atomic!TicketIds, AtCommit!NoItems, Atomic!NoItems,
       AtCommit!Quantities, Atomic!Quantities, AtCommit!TicketsOf, Atomic!TicketsOf,
       AtCommit!OrderOfEvent, Atomic!OrderOfEvent

LEMMA AtomicCatalogue == AtCommit!Catalogue => Atomic!Catalogue
<1>. USE DEF AtCommit!eventVars, AtCommit!promoVars, AtCommit!productVars, AtCommit!orderVars,
             AtCommit!ticketVars, Atomic!eventVars, Atomic!promoVars, Atomic!productVars,
             Atomic!orderVars, Atomic!ticketVars, AtCommit!Flag, Atomic!Flag
<1>1. \A p, limit, isActive, isPriced :
        AtCommit!CreateProduct(p, limit, isActive, isPriced)
          => Atomic!CreateProduct(p, limit, isActive, isPriced)
  BY DEF AtCommit!CreateProduct, Atomic!CreateProduct
<1>2. \A p, limit, isActive, isPriced :
        AtCommit!UpdateProduct(p, limit, isActive, isPriced)
          => Atomic!UpdateProduct(p, limit, isActive, isPriced)
  BY DEF AtCommit!UpdateProduct, Atomic!UpdateProduct, AtCommit!Coalesce, Atomic!Coalesce
<1>3. \A p : AtCommit!DeleteProduct(p) => Atomic!DeleteProduct(p)
  BY AtomicSame DEF AtCommit!DeleteProduct, Atomic!DeleteProduct, AtCommit!EraseProducts,
                    Atomic!EraseProducts
<1>4. \A c, limit, open, scope :
        AtCommit!CreatePromoCode(c, limit, open, scope)
          => Atomic!CreatePromoCode(c, limit, open, scope)
  BY DEF AtCommit!CreatePromoCode, Atomic!CreatePromoCode, AtCommit!LiveScope, Atomic!LiveScope
<1>5. \A c, limit, open, scope :
        AtCommit!UpdatePromoCode(c, limit, open, scope)
          => Atomic!UpdatePromoCode(c, limit, open, scope)
  BY DEF AtCommit!UpdatePromoCode, Atomic!UpdatePromoCode, AtCommit!LiveScope,
         Atomic!LiveScope, AtCommit!Coalesce, Atomic!Coalesce
<1>6. \A c : AtCommit!PromoWindowTurns(c) => Atomic!PromoWindowTurns(c)
  BY DEF AtCommit!PromoWindowTurns, Atomic!PromoWindowTurns
<1>7. \A c : AtCommit!DeletePromoCode(c) => Atomic!DeletePromoCode(c)
  BY DEF AtCommit!DeletePromoCode, Atomic!DeletePromoCode
<1>8. AtCommit!Products = Atomic!Products
  BY AtomicSame
<1>. QED
  BY <1>1, <1>2, <1>3, <1>4, <1>5, <1>6, <1>7, <1>8 DEF AtCommit!Catalogue, Atomic!Catalogue

LEMMA AtomicSales == AtCommit!Sales => Atomic!Sales
<1>. USE DEF AtCommit!eventVars, AtCommit!promoVars, AtCommit!productVars, AtCommit!orderVars,
             AtCommit!ticketVars, Atomic!eventVars, Atomic!promoVars, Atomic!productVars,
             Atomic!orderVars, Atomic!ticketVars, AtCommit!PaidStatuses, Atomic!PaidStatuses,
             AtCommit!SoldStatuses, Atomic!SoldStatuses
<1>1. \A o, e, qty, c : AtCommit!CreateOrder(o, e, qty, c) => Atomic!CreateOrder(o, e, qty, c)
  BY AtomicSame DEF AtCommit!CreateOrder, Atomic!CreateOrder, AtCommit!PromoValid,
                    Atomic!PromoValid, AtCommit!UsePromo, Atomic!UsePromo
<1>2. \A o : AtCommit!ConfirmPending(o) => Atomic!ConfirmPending(o)
  BY AtomicSame DEF AtCommit!ConfirmPending, Atomic!ConfirmPending, AtCommit!HasRoom,
                    Atomic!HasRoom, AtCommit!PaidStatus, Atomic!PaidStatus
<1>3. \A o : AtCommit!ConfirmAgain(o) => Atomic!ConfirmAgain(o)
  BY AtomicSame DEF AtCommit!ConfirmAgain, Atomic!ConfirmAgain
<1>4. \A o : AtCommit!GiveBack(o) = Atomic!GiveBack(o)
  BY AtomicSame DEF AtCommit!GiveBack, Atomic!GiveBack
<1>5. \A o : AtCommit!CancelOrder(o) => Atomic!CancelOrder(o)
  BY <1>4 DEF AtCommit!CancelOrder, Atomic!CancelOrder, AtCommit!ReturnPromo,
              Atomic!ReturnPromo
<1>6. \A o : AtCommit!DeleteOrder(o) => Atomic!DeleteOrder(o)
  BY <1>4, AtomicSame DEF AtCommit!DeleteOrder, Atomic!DeleteOrder, AtCommit!ReturnPromo,
                          Atomic!ReturnPromo, AtCommit!EraseOrders, Atomic!EraseOrders
<1>7. \A t, scan : AtCommit!RedeemTicket(t, scan) => Atomic!RedeemTicket(t, scan)
  BY AtomicSame DEF AtCommit!RedeemTicket, Atomic!RedeemTicket
<1>8. AtCommit!TicketIds = Atomic!TicketIds /\ AtCommit!Quantities = Atomic!Quantities
  BY AtomicSame
<1>. QED
  BY <1>1, <1>2, <1>3, <1>5, <1>6, <1>7, <1>8
     DEF AtCommit!Sales, Atomic!Sales, AtCommit!ConfirmOrder, Atomic!ConfirmOrder

LEMMA AtomicNext == [AtCommit!Next]_(AtCommit!vars) => [Atomic!Next]_(Atomic!vars)
<1>1. \A e : AtCommit!DeleteEvent(e) => Atomic!DeleteEvent(e)
  BY AtomicSame DEF AtCommit!DeleteEvent, Atomic!DeleteEvent, AtCommit!EraseProducts,
                    Atomic!EraseProducts, AtCommit!EraseOrders, Atomic!EraseOrders
<1>2. AtCommit!MigrateTo18 => Atomic!MigrateTo18
  BY DEF AtCommit!MigrateTo18, Atomic!MigrateTo18, AtCommit!eventVars, AtCommit!productVars,
         AtCommit!promoVars, AtCommit!ticketVars, Atomic!eventVars, Atomic!productVars,
         Atomic!promoVars, Atomic!ticketVars
<1>3. UNCHANGED AtCommit!vars => UNCHANGED Atomic!vars
  BY DEF AtCommit!vars, Atomic!vars, AtCommit!eventVars, AtCommit!productVars,
         AtCommit!promoVars, AtCommit!orderVars, AtCommit!ticketVars, Atomic!eventVars,
         Atomic!productVars, Atomic!promoVars, Atomic!orderVars, Atomic!ticketVars
<1>. QED
  BY <1>1, <1>2, <1>3, AtomicCatalogue, AtomicSales DEF AtCommit!Next, Atomic!Next

\* The rows are well typed, and those of an order belong together.
LEMMA RowsRight == ASSUME Atomic!IInv PROVE TypeOK /\ \A o \in Orders : OrderWellFormed(o)
<1>1. TypeOK
  BY DEF Atomic!IInv, Atomic!TypeOK, TypeOK, OpenAtCommit, Atomic!Products, Products,
         Atomic!Quantities, Quantities, Atomic!TicketIds, TicketIds
<1>2. ASSUME NEW o \in Orders PROVE OrderWellFormed(o)
  BY <1>2 DEF Atomic!IInv, Atomic!OrderWellFormed, OrderWellFormed, Atomic!NoItems, NoItems,
              Atomic!Products, Products, Atomic!TicketsOf, TicketsOf, Atomic!TicketIds, TicketIds
<1>. QED
  BY <1>1, <1>2

Sound == TypeOK /\ (\A o \in Orders : OrderWellFormed(o)) /\ TxnInv

LEMMA OfTransaction ==
  ASSUME TxnTypeOK, NEW s \in Sessions, step[s] # "rest"
  PROVE  /\ txn[s].kind \in {"create", "confirm", "cancel", "delete", "redeem"}
         /\ txn[s].order \in Orders
         /\ txn[s].event \in Events \cup {AnyEvent}
         /\ txn[s].qty \in Quantities
         /\ txn[s].code \in Promos \cup {NoPromo}
         /\ txn[s].tickets \subseteq TicketIds
BY DEF TxnTypeOK, TxnRecords

LEMMA Unseen ==
  ASSUME UNCHANGED vars, OpenAtCommit' = OpenAtCommit
  PROVE  UNCHANGED AtCommit!vars
BY DEF vars, eventVars, productVars, promoVars, orderVars, ticketVars, AtCommit!vars,
       AtCommit!eventVars, AtCommit!productVars, AtCommit!promoVars, AtCommit!orderVars,
       AtCommit!ticketVars

\* The codes that the transaction of s keeps open.
KeepsOpen(s) == {c \in Promos : Open(s, "create") /\ HoldsPromo(s, c)}

\* The others keep what they keep open.
LEMMA OpenBy ==
  ASSUME UNCHANGED promoOpen, NEW s \in Sessions,
         \A r \in Sessions : r # s => txn'[r] = txn[r] /\ step'[r] = step[r],
         KeepsOpen(s)' \subseteq KeepsOpen(s) \cup promoOpen,
         KeepsOpen(s) \subseteq KeepsOpen(s)'
  PROVE  OpenAtCommit' = OpenAtCommit
BY DEF OpenAtCommit, KeepsOpen, Open, HoldsPromo

LEMMA BeginUnseen ==
  ASSUME Sound, NEW s \in Sessions, NEW t, Begin(s, t)
  PROVE  UNCHANGED AtCommit!vars
<1>1. \A r \in Sessions : r # s => txn'[r] = txn[r] /\ step'[r] = step[r]
  BY DEF Sound, TxnInv, TxnTypeOK, Begin
<1>2. step[s] = "rest" /\ step'[s] = "products"
  BY DEF Sound, TxnInv, TxnTypeOK, Begin
<1>3. KeepsOpen(s)' = {} /\ KeepsOpen(s) = {}
  BY <1>2 DEF KeepsOpen, HoldsPromo
<1>4. UNCHANGED promoOpen /\ UNCHANGED vars
  BY DEF Begin, vars, promoVars
<1>. QED
  BY <1>1, <1>3, <1>4, OpenBy, Unseen

LEMMA TurnUnseen ==
  ASSUME NEW s \in Sessions, NEW p, Turn(s, p)
  PROVE  UNCHANGED AtCommit!vars
<1>1. UNCHANGED <<promoOpen, txn, step>> /\ UNCHANGED vars
  BY DEF Turn, vars, promoVars
<1>2. OpenAtCommit' = OpenAtCommit
  BY <1>1 DEF OpenAtCommit, Open, HoldsPromo
<1>. QED
  BY <1>1, <1>2, Unseen

LEMMA PromoUnseen ==
  ASSUME Sound, NEW s \in Sessions, UseCode(s) \/ ReturnCode(s)
  PROVE  UNCHANGED AtCommit!vars
<1>1. PICK count : LockPromo(s, count)
  BY DEF UseCode, ReturnCode
<1>2. /\ \A r \in Sessions : r # s => txn'[r] = txn[r] /\ step'[r] = step[r]
      /\ txn'[s] = txn[s] /\ step[s] = "products" /\ step'[s] = "promo"
  BY <1>1 DEF Sound, TxnInv, TxnTypeOK, LockPromo
<1>3. KeepsOpen(s) = {}
  BY <1>2 DEF KeepsOpen, HoldsPromo
<1>4. KeepsOpen(s)' \subseteq promoOpen
  BY <1>2 DEF KeepsOpen, Open, HoldsPromo, UseCode, ReturnCode, PromoValid
<1>5. UNCHANGED promoOpen /\ UNCHANGED vars
  BY <1>1 DEF LockPromo, vars, promoVars
<1>. QED
  BY <1>2, <1>3, <1>4, <1>5, OpenBy, Unseen

LEMMA LastUnseen ==
  ASSUME Sound, NEW s \in Sessions, NEW kind, NEW status, NEW tickets,
         LastStatements(s, kind, status, tickets)
  PROVE  UNCHANGED AtCommit!vars
<1>1. /\ \A r \in Sessions : r # s => txn'[r] = txn[r] /\ step'[r] = step[r]
      /\ txn'[s] = txn[s] /\ step'[s] = "commit"
      /\ step[s] = IF txn[s].code \in Promos THEN "promo" ELSE "products"
  BY DEF Sound, TxnInv, TxnTypeOK, LastStatements
<1>2. KeepsOpen(s)' = KeepsOpen(s)
  BY <1>1 DEF KeepsOpen, Open, HoldsPromo
<1>3. UNCHANGED promoOpen /\ UNCHANGED vars
  BY DEF LastStatements, vars, promoVars
<1>. QED
  BY <1>1, <1>2, <1>3, OpenBy, Unseen

\* What was kept open until the end closes now, if the window has closed.
LEMMA ForgetIsClock ==
  ASSUME Sound, NEW s \in Sessions, Forget(s)
  PROVE  [\E c \in Promos : AtCommit!PromoWindowTurns(c)]_(AtCommit!vars)
<1>1. /\ \A r \in Sessions : r # s => txn'[r] = txn[r] /\ step'[r] = step[r]
      /\ step'[s] = "rest"
  BY DEF Sound, TxnInv, TxnTypeOK, Forget
<1>2. KeepsOpen(s)' = {}
  BY <1>1 DEF KeepsOpen, Open
<1>3. UNCHANGED promoOpen /\ UNCHANGED vars
  BY DEF Forget, vars, promoVars
<1>4. CASE KeepsOpen(s) \subseteq promoOpen
  <2>1. OpenAtCommit' = OpenAtCommit
    BY <1>1, <1>2, <1>3, <1>4 DEF OpenAtCommit, KeepsOpen, Open, HoldsPromo
  <2>. QED
    BY <2>1, <1>3, Unseen
<1>5. CASE ~(KeepsOpen(s) \subseteq promoOpen)
  <2>1. PICK c \in Promos : c \in KeepsOpen(s) /\ c \notin promoOpen
    BY <1>5 DEF KeepsOpen
  <2>2. step[s] # "rest" /\ txn[s].code = c /\ HoldsPromo(s, c)
    BY <2>1 DEF KeepsOpen, Open, HoldsPromo
  <2>3. KeepsOpen(s) = {c}
    BY <2>1, <2>2 DEF KeepsOpen, HoldsPromo
  <2>4. \A r \in Sessions : r # s => c \notin KeepsOpen(r)
    BY <2>2 DEF KeepsOpen, Sound, TxnInv, Exclusive
  <2>5. \A r \in Sessions : r # s => KeepsOpen(r)' = KeepsOpen(r)
    BY <1>1 DEF KeepsOpen, Open, HoldsPromo
  <2>6. c \in OpenAtCommit /\ OpenAtCommit' = OpenAtCommit \ {c}
    <3>1. OpenAtCommit = promoOpen \cup UNION {KeepsOpen(r) : r \in Sessions}
      BY DEF OpenAtCommit, KeepsOpen
    <3>2. OpenAtCommit' = promoOpen \cup UNION {KeepsOpen(r)' : r \in Sessions}
      BY <1>3 DEF OpenAtCommit, KeepsOpen
    <3>. QED
      BY <3>1, <3>2, <1>2, <2>1, <2>3, <2>4, <2>5
  <2>7. promoRow[c] = "live"
    BY <2>2 DEF Sound, TxnInv, SessionInv
  <2>8. AtCommit!PromoWindowTurns(c)
    BY <2>6, <2>7, <1>3
       DEF AtCommit!PromoWindowTurns, AtCommit!Flag, vars, eventVars, productVars, promoVars,
           orderVars, ticketVars, AtCommit!eventVars, AtCommit!productVars, AtCommit!orderVars,
           AtCommit!ticketVars
  <2>. QED
    BY <2>1, <2>8
<1>. QED
  BY <1>4, <1>5

\* What holds when a transaction commits.
LEMMA AtTheCommit ==
  ASSUME Sound, NEW s \in Sessions, NEW kind, Commit(s, kind)
  PROVE  /\ txn[s].kind = kind
         /\ AllTaken(s) /\ OrderRead(s) /\ DraftRight(s)
         /\ \A p \in taken[s] : ProductRead(s, p)
         /\ txn[s].code \in Promos => PromoRead(s) /\ promoRow[txn[s].code] = "live"
         /\ kind = "create" => Payable(s)
         /\ taken[s] \subseteq Products
         /\ OpenAtCommit' = OpenAtCommit
<1>1. step[s] = "commit" /\ txn[s].kind = kind
  BY DEF Commit, Open
<1>2. SessionInv(s) /\ TxnTypeOK
  BY DEF Sound, TxnInv
<1>3. /\ AllTaken(s) /\ OrderRead(s) /\ DraftRight(s)
      /\ \A p \in taken[s] : ProductRead(s, p)
      /\ kind = "create" => Payable(s)
  BY <1>1, <1>2 DEF SessionInv, Pending
<1>4. txn[s].code \in Promos => PromoRead(s) /\ promoRow[txn[s].code] = "live"
  BY <1>1, <1>2 DEF SessionInv, HoldsPromo
<1>5. taken[s] \subseteq Products
  BY <1>2 DEF TxnTypeOK
<1>6. OpenAtCommit' = OpenAtCommit
  <2>1. /\ \A r \in Sessions : r # s => txn'[r] = txn[r] /\ step'[r] = step[r]
        /\ txn'[s] = txn[s] /\ step'[s] = "end"
    BY <1>2 DEF TxnTypeOK, Commit
  <2>2. KeepsOpen(s)' = KeepsOpen(s)
    BY <1>1, <2>1 DEF KeepsOpen, Open, HoldsPromo
  <2>. QED
    BY <2>1, <2>2, OpenBy DEF Commit
<1>. QED
  BY <1>1, <1>3, <1>4, <1>5, <1>6

\* The codes that the transaction has changed the counts of.
LEMMA CommittedUses ==
  ASSUME Sound, NEW s \in Sessions, NEW kind, Commit(s, kind)
  PROVE  /\ kind = "create" => usedCount' = AtCommit!UsePromo(txn[s].code)
         /\ kind # "create" => usedCount' = AtCommit!ReturnPromo(txn[s].code)
<1>1. CASE txn[s].code \in Promos
  <2>1. PromoRead(s) /\ txn[s].kind = kind
    BY <1>1, AtTheCommit
  <2>2. usedCount' = [usedCount EXCEPT ![txn[s].code] = used[s]]
    BY <1>1 DEF Commit
  <2>3. usedCount \in [Promos -> Nat]
    BY DEF Sound, TypeOK
  <2>4. ASSUME kind # "create" PROVE used[s] = IF usedCount[txn[s].code] = 0 THEN 0 ELSE usedCount[txn[s].code] - 1
    BY <1>1, <2>1, <2>3, <2>4 DEF PromoRead, Less
  <2>. QED
    BY <1>1, <2>1, <2>2, <2>3, <2>4 DEF PromoRead, AtCommit!UsePromo, AtCommit!ReturnPromo
<1>2. CASE txn[s].code \notin Promos
  BY <1>2 DEF Commit, AtCommit!UsePromo, AtCommit!ReturnPromo
<1>. QED
  BY <1>1, <1>2

\* The products of an order are those it has taken.
LEMMA CommittedUnits ==
  ASSUME Sound, NEW s \in Sessions, NEW kind, Commit(s, kind)
  PROVE  /\ kind = "create" \/ txn[s].qty = NoItems => soldCount' = soldCount
         /\ kind = "confirm" => soldCount' = [p \in Products |-> soldCount[p] + txn[s].qty[p]]
         /\ kind \in {"cancel", "delete"} =>
              soldCount' = [p \in Products |->
                 IF productRow[p] = "live" THEN Less(soldCount[p], txn[s].qty[p])
                 ELSE soldCount[p]]
<1>1. /\ soldCount \in [Products -> Nat] /\ txn[s].kind = kind /\ txn[s].qty \in Quantities
      /\ MaxQty \in Nat
  BY OfTransaction, AtTheCommit, ConstantsAssumption DEF Sound, TypeOK, TxnInv, Commit, Open
<1>2. soldCount' = [p \in Products |->
        IF kind # "create" /\ p \in taken[s] /\ productRow[p] = "live"
        THEN sold[s][p] ELSE soldCount[p]]
  BY DEF Commit
<1>3. \A p \in Products : txn[s].qty[p] \in Nat /\ (p \in taken[s] <=> txn[s].qty[p] > 0)
  <2>1. \A p \in Products : txn[s].qty[p] \in Nat
    BY <1>1 DEF Quantities
  <2>2. AllTaken(s) /\ \A p \in taken[s] : ProductRead(s, p)
    BY AtTheCommit
  <2>. QED
    BY <2>1, <2>2 DEF AllTaken, ProductRead
<1>4. \A p \in taken[s] : ProductRead(s, p)
  BY AtTheCommit
<1>5. ASSUME kind = "create" \/ txn[s].qty = NoItems PROVE soldCount' = soldCount
  <2>1. ASSUME NEW p \in Products PROVE soldCount'[p] = soldCount[p]
    BY <1>2, <1>3, <1>5 DEF NoItems
  <2>. QED
    BY <1>1, <1>2, <2>1
<1>6. ASSUME kind = "confirm", NEW p \in Products
      PROVE  soldCount'[p] = soldCount[p] + txn[s].qty[p]
  <2>1. soldCount[p] \in Nat
    BY <1>1
  <2>2. CASE p \in taken[s]
    BY <1>1, <1>2, <1>4, <1>6, <2>2 DEF ProductRead, HasRoom
  <2>3. CASE p \notin taken[s]
    BY <1>2, <1>3, <1>6, <2>1, <2>3
  <2>. QED
    BY <2>2, <2>3
<1>7. ASSUME kind \in {"cancel", "delete"}, NEW p \in Products
      PROVE  soldCount'[p] = IF productRow[p] = "live" THEN Less(soldCount[p], txn[s].qty[p])
                             ELSE soldCount[p]
  <2>1. soldCount[p] \in Nat
    BY <1>1
  <2>2. CASE p \in taken[s]
    BY <1>1, <1>2, <1>4, <1>7, <2>2 DEF ProductRead
  <2>3. CASE p \notin taken[s]
    <3>1. txn[s].qty[p] = 0
      BY <1>3, <2>3
    <3>2. Less(soldCount[p], txn[s].qty[p]) = soldCount[p]
      BY <3>1, <2>1 DEF Less
    <3>. QED
      BY <1>2, <2>3, <3>2
  <2>. QED
    BY <2>2, <2>3
<1>. QED
  BY <1>2, <1>5, <1>6, <1>7

LEMMA CreateAtCommit ==
  ASSUME Sound, NEW s \in Sessions, CommitCreate(s)
  PROVE  AtCommit!Next
<1>. DEFINE o == txn[s].order
            e == txn[s].event
            qty == txn[s].qty
            c == txn[s].code
<1>1. Commit(s, "create")
  BY DEF CommitCreate
<1>2. /\ o \in Orders /\ e \in Events \cup {AnyEvent} /\ qty \in Quantities
      /\ c \in Promos \cup {NoPromo} /\ txn[s].kind = "create"
  BY <1>1, OfTransaction DEF Sound, TxnInv, Commit, Open
<1>3. /\ AllTaken(s) /\ OrderRead(s) /\ DraftRight(s) /\ Payable(s)
      /\ \A p \in taken[s] : ProductRead(s, p)
      /\ c \in Promos => PromoRead(s) /\ promoRow[c] = "live"
      /\ OpenAtCommit' = OpenAtCommit
  BY <1>1, AtTheCommit
<1>4. orderStatus[o] = "none" /\ \E p \in TicketProducts : qty[p] > 0
  BY <1>2, <1>3 DEF OrderRead
<1>5. eventRow[e] = "live" /\ draft[s].status = "PENDING"
  BY <1>2, <1>3 DEF DraftRight
<1>6. \A p \in Products : qty[p] > 0 => productRow[p] = "live" /\ p \in active /\ EventOf[p] = e
  BY <1>2, <1>3 DEF AllTaken, ProductRead
<1>7. e \in Events
  <2>1. PICK p \in Products : qty[p] > 0
    BY <1>4 DEF Products
  <2>. QED
    BY <1>6, <2>1, ConstantsAssumption
<1>8. c # NoPromo => AtCommit!PromoValid(c, e)
  <2>1. ASSUME c \in Promos PROVE AtCommit!PromoValid(c, e)
    <3>1. PromoRead(s) /\ promoRow[c] = "live"
      BY <1>3, <2>1
    <3>2. c \in OpenAtCommit
      BY <1>1, <1>2, <2>1 DEF OpenAtCommit, Open, HoldsPromo, Commit
    <3>. QED
      BY <1>2, <3>1, <3>2 DEF PromoRead, AtCommit!PromoValid
  <2>. QED
    BY <1>2, <2>1
<1>9. usedCount' = AtCommit!UsePromo(c)
  BY <1>1, CommittedUses
<1>10. soldCount' = soldCount
  BY <1>1, CommittedUnits
<1>11. /\ orderStatus' = [orderStatus EXCEPT ![o] = "PENDING"]
       /\ items' = [items EXCEPT ![o] = qty]
       /\ orderPromo' = [orderPromo EXCEPT ![o] = c]
       /\ UNCHANGED <<eventRow, productRow, active, priced, inventoryLimit, promoRow,
                      promoScope, usageLimit, schema, qrIssued, redeemed>>
  BY <1>5 DEF CommitCreate, Commit, eventVars, ticketVars
<1>12. \E p \in priced : qty[p] > 0
  BY <1>3 DEF Payable
<1>13. AtCommit!CreateOrder(o, e, qty, c)
  BY <1>3, <1>4, <1>5, <1>6, <1>8, <1>9, <1>10, <1>11, <1>12
     DEF AtCommit!CreateOrder, AtCommit!eventVars, AtCommit!productVars, AtCommit!ticketVars,
         AtCommit!Products, Products
<1>14. qty \in AtCommit!Quantities
  BY <1>2 DEF AtCommit!Quantities, AtCommit!Products, Quantities, Products
<1>. QED
  BY <1>2, <1>7, <1>13, <1>14 DEF AtCommit!Next, AtCommit!Sales

LEMMA ConfirmAtCommit ==
  ASSUME Sound, NEW s \in Sessions, CommitConfirm(s)
  PROVE  AtCommit!Next
<1>. DEFINE o == txn[s].order
            t == txn[s]
<1>1. Commit(s, "confirm")
  BY DEF CommitConfirm
<1>2. o \in Orders /\ t.kind = "confirm" /\ t.qty \in Quantities
  BY <1>1, OfTransaction DEF Sound, TxnInv, Commit, Open
<1>3. /\ AllTaken(s) /\ OrderRead(s) /\ DraftRight(s)
      /\ \A p \in taken[s] : ProductRead(s, p)
      /\ OpenAtCommit' = OpenAtCommit
  BY <1>1, AtTheCommit
<1>4. /\ orderStatus[o] = t.seen
      /\ t.seen \in {"PENDING"} \cup SoldStatuses
      /\ t.qty = IF t.seen = "PENDING" THEN items[o] ELSE NoItems
      /\ t.code = NoPromo
  BY <1>2, <1>3 DEF OrderRead
<1>5. /\ draft[s].status = IF t.seen = "PENDING" THEN PaidStatus ELSE t.seen
      /\ draft[s].tickets = TicketsOf(o) \ qrIssued
  BY <1>2, <1>3 DEF DraftRight
<1>6. qrIssued' = qrIssued \cup TicketsOf(o)
  BY <1>5 DEF CommitConfirm
<1>7. /\ usedCount' = usedCount
      /\ orderStatus' = [orderStatus EXCEPT ![o] = draft[s].status]
      /\ UNCHANGED <<eventRow, productRow, active, priced, inventoryLimit, promoRow,
                     promoScope, usageLimit, schema, items, orderPromo, redeemed>>
  BY <1>1, <1>4, ConstantsAssumption DEF CommitConfirm, Commit, eventVars
<1>8. AtCommit!TicketsOf(o) = TicketsOf(o)
  BY DEF AtCommit!TicketsOf, TicketsOf, AtCommit!TicketIds, TicketIds
<1>9. AtCommit!ConfirmOrder(o)
  <2>1. CASE t.seen = "PENDING"
    <3>1. \A p \in Products : items[o][p] > 0 => AtCommit!HasRoom(p, items[o][p])
      BY <1>2, <1>3, <1>4, <2>1 DEF AllTaken, ProductRead, HasRoom, AtCommit!HasRoom
    <3>2. soldCount' = [p \in Products |-> soldCount[p] + items[o][p]]
      BY <1>1, <1>4, <2>1, CommittedUnits
    <3>3. orderStatus' = [orderStatus EXCEPT ![o] = AtCommit!PaidStatus]
      BY <1>5, <1>7, <2>1 DEF PaidStatus, AtCommit!PaidStatus
    <3>4. AtCommit!ConfirmPending(o)
      BY <1>3, <1>4, <1>6, <1>7, <1>8, <2>1, <3>1, <3>2, <3>3
         DEF AtCommit!ConfirmPending, AtCommit!eventVars, AtCommit!promoVars,
             AtCommit!Products, Products
    <3>. QED
      BY <3>4 DEF AtCommit!ConfirmOrder
  <2>2. CASE t.seen # "PENDING"
    <3>1. soldCount' = soldCount
      BY <1>1, <1>4, <2>2, CommittedUnits
    <3>2. orderStatus' = orderStatus
      BY <1>4, <1>5, <1>7, <2>2 DEF Sound, TypeOK
    <3>3. orderStatus[o] \in AtCommit!SoldStatuses
      BY <1>4, <2>2 DEF SoldStatuses, PaidStatuses, AtCommit!SoldStatuses, AtCommit!PaidStatuses
    <3>4. AtCommit!ConfirmAgain(o)
      BY <1>3, <1>6, <1>7, <1>8, <3>1, <3>2, <3>3
         DEF AtCommit!ConfirmAgain, AtCommit!eventVars, AtCommit!promoVars, AtCommit!productVars,
             AtCommit!orderVars
    <3>. QED
      BY <3>4 DEF AtCommit!ConfirmOrder
  <2>. QED
    BY <2>1, <2>2
<1>. QED
  BY <1>2, <1>9 DEF AtCommit!Next, AtCommit!Sales

LEMMA CancelAtCommit ==
  ASSUME Sound, NEW s \in Sessions, CommitCancel(s)
  PROVE  AtCommit!Next
<1>. DEFINE o == txn[s].order
            t == txn[s]
<1>1. Commit(s, "cancel")
  BY DEF CommitCancel
<1>2. o \in Orders /\ t.kind = "cancel" /\ items[o] \in Quantities
  BY <1>1, OfTransaction DEF Sound, TxnInv, TypeOK, Commit, Open
<1>3. OrderRead(s) /\ DraftRight(s) /\ OpenAtCommit' = OpenAtCommit
  BY <1>1, AtTheCommit
<1>4. /\ orderStatus[o] = t.seen
      /\ t.seen \in {"PENDING"} \cup PaidStatuses
      /\ t.qty = IF t.seen \in PaidStatuses THEN items[o] ELSE NoItems
      /\ t.code = orderPromo[o]
  BY <1>2, <1>3 DEF OrderRead
<1>5. draft[s].status = "CANCELED"
  BY <1>2, <1>3 DEF DraftRight
<1>6. usedCount' = AtCommit!ReturnPromo(orderPromo[o])
  BY <1>1, <1>4, CommittedUses
<1>7. soldCount' = IF orderStatus[o] \in AtCommit!PaidStatuses THEN AtCommit!GiveBack(o)
                   ELSE soldCount
  <2>1. CASE t.seen \in PaidStatuses
    BY <1>1, <1>4, <2>1, CommittedUnits
       DEF Less, AtCommit!GiveBack, AtCommit!Products, Products, AtCommit!PaidStatuses,
           PaidStatuses
  <2>2. CASE t.seen \notin PaidStatuses
    BY <1>1, <1>4, <2>2, CommittedUnits DEF AtCommit!PaidStatuses, PaidStatuses
  <2>. QED
    BY <2>1, <2>2
<1>8. /\ orderStatus' = [orderStatus EXCEPT ![o] = "CANCELED"]
      /\ UNCHANGED <<eventRow, productRow, active, priced, inventoryLimit, promoRow,
                     promoScope, usageLimit, schema, items, orderPromo, qrIssued, redeemed>>
  BY <1>1, <1>5 DEF CommitCancel, Commit, eventVars, ticketVars
<1>9. AtCommit!CancelOrder(o)
  BY <1>3, <1>4, <1>6, <1>7, <1>8
     DEF AtCommit!CancelOrder, AtCommit!eventVars, AtCommit!ticketVars, AtCommit!PaidStatuses,
         PaidStatuses
<1>. QED
  BY <1>2, <1>9 DEF AtCommit!Next, AtCommit!Sales

LEMMA DeleteAtCommit ==
  ASSUME Sound, NEW s \in Sessions, CommitDelete(s)
  PROVE  AtCommit!Next
<1>. DEFINE o == txn[s].order
            t == txn[s]
<1>1. Commit(s, "delete")
  BY DEF CommitDelete
<1>2. o \in Orders /\ t.kind = "delete"
  BY <1>1, OfTransaction DEF Sound, TxnInv, Commit, Open
<1>3. OrderRead(s) /\ DraftRight(s) /\ OpenAtCommit' = OpenAtCommit
  BY <1>1, AtTheCommit
<1>4. /\ orderStatus[o] = t.seen
      /\ t.seen \notin {"none", "gone"}
      /\ t.qty = IF t.seen \in SoldStatuses THEN items[o] ELSE NoItems
      /\ t.code = IF t.seen = "CANCELED" THEN NoPromo ELSE orderPromo[o]
  BY <1>2, <1>3 DEF OrderRead
<1>5. draft[s].status = "gone"
  BY <1>2, <1>3 DEF DraftRight
<1>6. usedCount' = IF orderStatus[o] = "CANCELED" THEN usedCount
                   ELSE AtCommit!ReturnPromo(orderPromo[o])
  BY <1>1, <1>4, CommittedUses, ConstantsAssumption DEF AtCommit!ReturnPromo
<1>7. soldCount' = IF orderStatus[o] \in AtCommit!SoldStatuses THEN AtCommit!GiveBack(o)
                   ELSE soldCount
  <2>1. CASE t.seen \in SoldStatuses
    BY <1>1, <1>4, <2>1, CommittedUnits
       DEF Less, AtCommit!GiveBack, AtCommit!Products, Products, AtCommit!SoldStatuses,
           SoldStatuses, AtCommit!PaidStatuses, PaidStatuses
  <2>2. CASE t.seen \notin SoldStatuses
    BY <1>1, <1>4, <2>2, CommittedUnits
       DEF AtCommit!SoldStatuses, SoldStatuses, AtCommit!PaidStatuses, PaidStatuses
  <2>. QED
    BY <2>1, <2>2
<1>8. UNCHANGED <<eventRow, productRow, active, priced, inventoryLimit, promoRow,
                  promoScope, usageLimit, schema>>
  BY <1>1 DEF Commit, eventVars
<1>9. AtCommit!EraseOrders({o})
  <2>1. orderStatus' = [x \in Orders |-> IF x \in {o} THEN "gone" ELSE orderStatus[x]]
    BY <1>1, <1>5 DEF Commit, Sound, TypeOK
  <2>2. items' = [x \in Orders |-> IF x \in {o} THEN AtCommit!NoItems ELSE items[x]]
    BY DEF CommitDelete, Sound, TypeOK, NoItems, AtCommit!NoItems, Products, AtCommit!Products
  <2>3. orderPromo' = [x \in Orders |-> IF x \in {o} THEN NoPromo ELSE orderPromo[x]]
    BY DEF CommitDelete, Sound, TypeOK
  <2>4. /\ qrIssued' = {k \in qrIssued : k[1] \notin {o}}
        /\ redeemed' = {k \in redeemed : k[1] \notin {o}}
    BY DEF CommitDelete
  <2>. QED
    BY <2>1, <2>2, <2>3, <2>4 DEF AtCommit!EraseOrders
<1>10. AtCommit!DeleteOrder(o)
  BY <1>3, <1>4, <1>6, <1>7, <1>8, <1>9 DEF AtCommit!DeleteOrder, AtCommit!eventVars
<1>. QED
  BY <1>2, <1>10 DEF AtCommit!Next, AtCommit!Sales

\* At its commit a redemption is one by the ticket's id: the scan was compared
\* before the first lock.
LEMMA RedeemAtCommit ==
  ASSUME Sound, NEW s \in Sessions, CommitRedeem(s)
  PROVE  AtCommit!Next
<1>. DEFINE o == txn[s].order
            t == txn[s]
<1>1. Commit(s, "redeem")
  BY DEF CommitRedeem
<1>2. o \in Orders /\ t.kind = "redeem"
  BY <1>1, OfTransaction DEF Sound, TxnInv, Commit, Open
<1>3. OrderRead(s) /\ DraftRight(s) /\ OpenAtCommit' = OpenAtCommit
  BY <1>1, AtTheCommit
<1>4. /\ orderStatus[o] = t.seen
      /\ t.seen \in SoldStatuses
      /\ t.qty = NoItems
      /\ t.code = NoPromo
      /\ \E k \in TicketsOf(o) \ redeemed : t.tickets = {k}
  BY <1>2, <1>3 DEF OrderRead
<1>5. PICK k \in TicketsOf(o) \ redeemed : t.tickets = {k}
  BY <1>4
<1>6. /\ draft[s].status =
           IF TicketsOf(o) \subseteq redeemed \cup {k} THEN "REDEEMED" ELSE t.seen
      /\ draft[s].tickets = {k}
  BY <1>2, <1>3, <1>5 DEF DraftRight
<1>7. k[1] = o /\ k \in TicketIds
  BY <1>5 DEF TicketsOf
<1>8. AtCommit!TicketsOf(o) = TicketsOf(o)
  BY DEF AtCommit!TicketsOf, TicketsOf, AtCommit!TicketIds, TicketIds
<1>9. usedCount' = usedCount /\ soldCount' = soldCount
  BY <1>1, <1>4, CommittedUnits, ConstantsAssumption DEF Commit
<1>10. redeemed' = redeemed \cup {k}
  BY <1>6 DEF CommitRedeem
<1>11. /\ orderStatus' = [orderStatus EXCEPT ![o] = draft[s].status]
       /\ UNCHANGED <<eventRow, productRow, active, priced, inventoryLimit, promoRow,
                      promoScope, usageLimit, schema, items, orderPromo, qrIssued>>
  BY <1>1 DEF CommitRedeem, Commit, eventVars
<1>12. orderStatus' = [orderStatus EXCEPT ![k[1]] =
                         IF AtCommit!TicketsOf(k[1]) \subseteq redeemed' THEN "REDEEMED" ELSE @]
  BY <1>4, <1>6, <1>7, <1>8, <1>10, <1>11
<1>13. orderStatus[k[1]] \in AtCommit!SoldStatuses
  BY <1>4, <1>7 DEF SoldStatuses, PaidStatuses, AtCommit!SoldStatuses, AtCommit!PaidStatuses
<1>14. k \in AtCommit!TicketsOf(k[1]) /\ k \notin redeemed
  BY <1>5, <1>7, <1>8
<1>15. AtCommit!RedeemTicket(k, NoScan)
  BY <1>3, <1>9, <1>10, <1>11, <1>12, <1>13, <1>14
     DEF AtCommit!RedeemTicket, AtCommit!eventVars, AtCommit!productVars, AtCommit!promoVars
<1>. QED
  BY <1>7, <1>15 DEF AtCommit!Next, AtCommit!Sales, AtCommit!TicketIds, TicketIds

\* The codes that some transaction keeps open.
KeptOpen == {c \in Promos : \E s \in Sessions : Open(s, "create") /\ HoldsPromo(s, c)}

LEMMA KeptOpenStays ==
  ASSUME UNCHANGED sessionVars
  PROVE  /\ OpenAtCommit = promoOpen \cup KeptOpen
         /\ OpenAtCommit' = promoOpen' \cup KeptOpen
BY DEF sessionVars, OpenAtCommit, KeptOpen, Open, HoldsPromo

LEMMA KeptIsLive ==
  ASSUME Sound, NEW c \in KeptOpen
  PROVE  promoRow[c] = "live" /\ PromoLocked(c)
BY DEF Sound, TxnInv, SessionInv, KeptOpen, PromoLocked

LEMMA ProductAtCommit ==
  ASSUME NEW p \in Products, SingleProduct(p), UNCHANGED sessionVars
  PROVE  AtCommit!Next
<1>1. p \in AtCommit!Products
  BY DEF AtCommit!Products, Products
<1>2. ASSUME UNCHANGED promoVars PROVE UNCHANGED AtCommit!promoVars
  BY <1>2, KeptOpenStays DEF promoVars, AtCommit!promoVars
<1>3. ASSUME NEW limit \in 0..MaxLimit, NEW isActive \in BOOLEAN, NEW isPriced \in BOOLEAN,
             CreateProduct(p, limit, isActive, isPriced)
      PROVE  AtCommit!Next
  <2>1. AtCommit!CreateProduct(p, limit, isActive, isPriced)
    BY <1>2, <1>3
       DEF CreateProduct, AtCommit!CreateProduct, Flag, AtCommit!Flag, eventVars, orderVars,
           ticketVars, AtCommit!eventVars, AtCommit!orderVars, AtCommit!ticketVars
  <2>. QED
    BY <1>1, <2>1 DEF AtCommit!Next, AtCommit!Catalogue
<1>4. ASSUME NEW limit \in 0..MaxLimit, NEW isActive \in BOOLEAN, NEW isPriced \in BOOLEAN,
             UpdateProduct(p, limit, isActive, isPriced)
      PROVE  AtCommit!Next
  <2>1. AtCommit!UpdateProduct(p, limit, isActive, isPriced)
    BY <1>2, <1>4
       DEF UpdateProduct, AtCommit!UpdateProduct, Flag, AtCommit!Flag, Coalesce,
           AtCommit!Coalesce, eventVars, orderVars, ticketVars, AtCommit!eventVars,
           AtCommit!orderVars, AtCommit!ticketVars
  <2>. QED
    BY <1>1, <2>1 DEF AtCommit!Next, AtCommit!Catalogue
<1>5. ASSUME DeleteProduct(p) PROVE AtCommit!Next
  <2>1. AtCommit!DeleteProduct(p)
    BY <1>2, <1>5
       DEF DeleteProduct, AtCommit!DeleteProduct, EraseProducts, AtCommit!EraseProducts,
           AtCommit!Products, Products, eventVars, orderVars, ticketVars, AtCommit!eventVars,
           AtCommit!orderVars, AtCommit!ticketVars
  <2>. QED
    BY <1>1, <2>1 DEF AtCommit!Next, AtCommit!Catalogue
<1>. QED
  BY <1>3, <1>4, <1>5 DEF SingleProduct

LEMMA PromoAtCommit ==
  ASSUME Sound, NEW c \in Promos, SinglePromo(c), UNCHANGED sessionVars
  PROVE  [AtCommit!Next]_(AtCommit!vars)
<1>1. OpenAtCommit = promoOpen \cup KeptOpen /\ OpenAtCommit' = promoOpen' \cup KeptOpen
  BY KeptOpenStays
<1>2. c \in KeptOpen => promoRow[c] = "live" /\ PromoLocked(c)
  BY KeptIsLive
<1>3. ASSUME NEW limit \in 0..MaxLimit, NEW open \in BOOLEAN,
             NEW scope \in Events \cup {AnyEvent}, CreatePromoCode(c, limit, open, scope)
      PROVE  AtCommit!Next
  <2>1. c \notin KeptOpen
    BY <1>2, <1>3 DEF CreatePromoCode
  <2>2. OpenAtCommit' = AtCommit!Flag(OpenAtCommit, c, open)
    BY <1>1, <1>3, <2>1 DEF CreatePromoCode, Flag, AtCommit!Flag
  <2>3. AtCommit!CreatePromoCode(c, limit, open, scope)
    BY <1>3, <2>2
       DEF CreatePromoCode, AtCommit!CreatePromoCode, LiveScope, AtCommit!LiveScope, eventVars,
           productVars, orderVars, ticketVars, AtCommit!eventVars, AtCommit!productVars,
           AtCommit!orderVars, AtCommit!ticketVars
  <2>. QED
    BY <2>3 DEF AtCommit!Next, AtCommit!Catalogue
<1>4. ASSUME NEW limit \in 0..MaxLimit, NEW open \in BOOLEAN,
             NEW scope \in Events \cup {AnyEvent}, ~PromoLocked(c),
             UpdatePromoCode(c, limit, open, scope)
      PROVE  AtCommit!Next
  <2>1. OpenAtCommit' = AtCommit!Flag(OpenAtCommit, c, open)
    BY <1>1, <1>2, <1>4 DEF UpdatePromoCode, Flag, AtCommit!Flag
  <2>2. AtCommit!UpdatePromoCode(c, limit, open, scope)
    BY <1>4, <2>1
       DEF UpdatePromoCode, AtCommit!UpdatePromoCode, LiveScope, AtCommit!LiveScope, Coalesce,
           AtCommit!Coalesce, eventVars, productVars, orderVars, ticketVars,
           AtCommit!eventVars, AtCommit!productVars, AtCommit!orderVars, AtCommit!ticketVars
  <2>. QED
    BY <2>2 DEF AtCommit!Next, AtCommit!Catalogue
<1>5. ASSUME ~PromoLocked(c), DeletePromoCode(c) PROVE AtCommit!Next
  <2>1. OpenAtCommit' = OpenAtCommit \ {c}
    BY <1>1, <1>2, <1>5 DEF DeletePromoCode
  <2>2. AtCommit!DeletePromoCode(c)
    BY <1>5, <2>1
       DEF DeletePromoCode, AtCommit!DeletePromoCode, eventVars, productVars, ticketVars,
           AtCommit!eventVars, AtCommit!productVars, AtCommit!ticketVars
  <2>. QED
    BY <2>2 DEF AtCommit!Next, AtCommit!Catalogue
<1>6. ASSUME PromoWindowTurns(c) PROVE [AtCommit!Next]_(AtCommit!vars)
  <2>1. UNCHANGED <<promoRow, promoScope, usageLimit, usedCount, eventVars, productVars,
                    orderVars, ticketVars>>
    BY <1>6 DEF PromoWindowTurns
  <2>2. CASE c \in KeptOpen
    <3>1. OpenAtCommit' = OpenAtCommit
      BY <1>1, <1>6, <2>2 DEF PromoWindowTurns, Flag
    <3>. QED
      BY <2>1, <3>1
         DEF AtCommit!vars, AtCommit!promoVars, AtCommit!eventVars, AtCommit!productVars,
             AtCommit!orderVars, AtCommit!ticketVars, eventVars, productVars, orderVars,
             ticketVars
  <2>3. CASE c \notin KeptOpen
    <3>1. OpenAtCommit' = AtCommit!Flag(OpenAtCommit, c, c \notin OpenAtCommit)
      BY <1>1, <1>6, <2>3 DEF PromoWindowTurns, Flag, AtCommit!Flag
    <3>2. AtCommit!PromoWindowTurns(c)
      BY <1>6, <2>1, <3>1
         DEF PromoWindowTurns, AtCommit!PromoWindowTurns, AtCommit!eventVars,
             AtCommit!productVars, AtCommit!orderVars, AtCommit!ticketVars, eventVars,
             productVars, orderVars, ticketVars
    <3>. QED
      BY <3>2 DEF AtCommit!Next, AtCommit!Catalogue
  <2>. QED
    BY <2>2, <2>3
<1>. QED
  BY <1>3, <1>4, <1>5, <1>6 DEF SinglePromo

LEMMA EventAtCommit ==
  ASSUME NEW e \in Events, SingleEvent(e), UNCHANGED sessionVars
  PROVE  AtCommit!Next
<1>1. DeleteEvent(e)
  BY DEF SingleEvent
<1>2. OpenAtCommit' = OpenAtCommit
  BY <1>1, KeptOpenStays DEF DeleteEvent
<1>3. {o \in Orders : AtCommit!OrderOfEvent(o, e)} = {o \in Orders : OrderOfEvent(o, e)}
  BY DEF AtCommit!OrderOfEvent, OrderOfEvent, AtCommit!Products, Products
<1>4. AtCommit!DeleteEvent(e)
  BY <1>1, <1>2, <1>3
     DEF DeleteEvent, AtCommit!DeleteEvent, EraseProducts, AtCommit!EraseProducts, EraseOrders,
         AtCommit!EraseOrders, AtCommit!Products, Products, NoItems, AtCommit!NoItems
<1>. QED
  BY <1>4 DEF AtCommit!Next

LEMMA MigrationAtCommit ==
  ASSUME Migration, UNCHANGED sessionVars
  PROVE  AtCommit!Next
<1>1. MigrateTo18 /\ OpenAtCommit' = OpenAtCommit
  BY KeptOpenStays DEF Migration, MigrateTo18, promoVars
<1>2. AtCommit!MigrateTo18
  BY <1>1 DEF MigrateTo18, AtCommit!MigrateTo18, eventVars, productVars, promoVars, ticketVars,
              AtCommit!eventVars, AtCommit!productVars, AtCommit!promoVars, AtCommit!ticketVars
<1>. QED
  BY <1>2 DEF AtCommit!Next

\* Every step of a transaction is one of the shop, or none at all.
LEMMA StepAtCommit ==
  ASSUME Sound, [TxnNext]_txnVars
  PROVE  [AtCommit!Next]_(AtCommit!vars)
<1>1. ASSUME NEW s \in Sessions, Starts(s) PROVE UNCHANGED AtCommit!vars
  <2>1. \E t : Begin(s, t)
    BY <1>1 DEF Starts, BeginCreate, BeginConfirm, BeginCancel, BeginDelete, BeginRedeem,
                LockOrder
  <2>. QED
    BY <2>1, BeginUnseen
<1>2. ASSUME NEW s \in Sessions, Proceeds(s) PROVE UNCHANGED AtCommit!vars
  <2>1. CASE \E p \in Products : Turn(s, p)
    BY <2>1, TurnUnseen
  <2>2. CASE UseCode(s) \/ ReturnCode(s)
    BY <2>2, PromoUnseen
  <2>3. CASE \E kind, status, tickets : LastStatements(s, kind, status, tickets)
    BY <2>3, LastUnseen
  <2>. QED
    BY <1>2, <2>1, <2>2, <2>3
       DEF Proceeds, CheckProduct, TakeUnits, GiveUnits, InsertOrder, MarkPaid, MarkCanceled,
           EraseRow, MarkUsed
<1>3. ASSUME NEW s \in Sessions, Commits(s) PROVE AtCommit!Next
  BY <1>3, CreateAtCommit, ConfirmAtCommit, CancelAtCommit, DeleteAtCommit, RedeemAtCommit
     DEF Commits
<1>4. ASSUME NEW s \in Sessions, Forget(s) PROVE [AtCommit!Next]_(AtCommit!vars)
  BY <1>4, ForgetIsClock DEF AtCommit!Next, AtCommit!Catalogue
<1>5. ASSUME Single PROVE [AtCommit!Next]_(AtCommit!vars)
  BY <1>5, ProductAtCommit, PromoAtCommit, EventAtCommit, MigrationAtCommit DEF Single
<1>6. ASSUME UNCHANGED txnVars PROVE UNCHANGED AtCommit!vars
  <2>1. UNCHANGED vars /\ UNCHANGED sessionVars
    BY <1>6 DEF txnVars
  <2>2. OpenAtCommit' = OpenAtCommit
    BY <2>1, KeptOpenStays DEF vars, promoVars
  <2>. QED
    BY <2>1, <2>2, Unseen
<1>. QED
  BY <1>1, <1>2, <1>3, <1>4, <1>5, <1>6 DEF TxnNext, Release, Rollback

LEMMA InitAtCommit == ASSUME TxnInit PROVE AtCommit!Init
<1>1. OpenAtCommit = {}
  BY DEF TxnInit, Init, OpenAtCommit, Open
<1>. QED
  BY <1>1 DEF TxnInit, Init, AtCommit!Init, NoItems, AtCommit!NoItems, Products,
              AtCommit!Products

\* What the rows are that a session relies on, and that a step leaves them alone.
OrderKept(o) ==
  /\ orderStatus'[o] = orderStatus[o] /\ items'[o] = items[o] /\ orderPromo'[o] = orderPromo[o]
  /\ \A k \in TicketIds : k[1] = o =>
       (k \in qrIssued' <=> k \in qrIssued) /\ (k \in redeemed' <=> k \in redeemed)

ProductKept(p) ==
  /\ productRow'[p] = productRow[p]
  /\ productRow[p] = "live" =>
       /\ p \in active' <=> p \in active
       /\ p \in priced' <=> p \in priced
       /\ inventoryLimit'[p] = inventoryLimit[p] /\ soldCount'[p] = soldCount[p]

PromoKept(c) ==
  /\ promoRow'[c] = promoRow[c] /\ promoScope'[c] = promoScope[c]
  /\ usageLimit'[c] = usageLimit[c] /\ usedCount'[c] = usedCount[c]

RowsKept(s) ==
  /\ Pending(s) => OrderKept(txn[s].order)
  /\ \A p \in taken[s] : ProductKept(p)
  /\ \A c \in Promos : Pending(s) /\ HoldsPromo(s, c) => PromoKept(c)
  /\ \A c \in Promos : HoldsPromo(s, c) => promoRow'[c] = promoRow[c]
  /\ step[s] = "commit" /\ txn[s].kind = "create" =>
       eventRow'[txn[s].event] = eventRow[txn[s].event]
  /\ step[s] = "commit" /\ txn[s].kind = "confirm" => schema' = schema

SessionSame(s) ==
  /\ txn'[s] = txn[s] /\ step'[s] = step[s] /\ taken'[s] = taken[s]
  /\ sold'[s] = sold[s] /\ used'[s] = used[s] /\ draft'[s] = draft[s]

LEMMA OrderTicketsKept ==
  ASSUME NEW o, OrderKept(o)
  PROVE  /\ TicketsOf(o)' = TicketsOf(o)
         /\ (TicketsOf(o) \cap redeemed)' = TicketsOf(o) \cap redeemed
         /\ (TicketsOf(o) \ redeemed)' = TicketsOf(o) \ redeemed
         /\ (TicketsOf(o) \ qrIssued)' = TicketsOf(o) \ qrIssued
<1>1. TicketsOf(o)' = TicketsOf(o)
  BY DEF TicketsOf, OrderKept
<1>2. \A k \in TicketsOf(o) : k \in TicketIds /\ k[1] = o
  BY DEF TicketsOf
<1>. QED
  BY <1>1, <1>2 DEF OrderKept

LEMMA OrderReadKept ==
  ASSUME NEW s \in Sessions, OrderRead(s), SessionSame(s), OrderKept(txn[s].order)
  PROVE  OrderRead(s)'
<1>0. PICK o : o = txn[s].order /\ OrderKept(o)
  BY DEF OrderKept
<1>1. txn'[s] = txn[s]
  BY DEF SessionSame
<1>2. orderStatus'[o] = orderStatus[o] /\ items'[o] = items[o] /\ orderPromo'[o] = orderPromo[o]
  BY <1>0 DEF OrderKept
<1>3. (TicketsOf(o) \ redeemed)' = TicketsOf(o) \ redeemed
  BY <1>0, OrderTicketsKept
<1>4. (TicketsOf(txn[s].order) \ redeemed)' = TicketsOf(o) \ redeemed
  BY <1>0, <1>1, <1>3
<1>. QED
  BY <1>0, <1>1, <1>2, <1>4 DEF OrderRead

LEMMA ProductReadKept ==
  ASSUME NEW s \in Sessions, NEW p, ProductRead(s, p), SessionSame(s), ProductKept(p)
  PROVE  ProductRead(s, p)'
BY DEF ProductRead, SessionSame, ProductKept, HasRoom

LEMMA PromoReadKept ==
  ASSUME NEW s \in Sessions, PromoRead(s), SessionSame(s), PromoKept(txn[s].code)
  PROVE  PromoRead(s)'
BY DEF PromoRead, SessionSame, PromoKept

LEMMA DraftKept ==
  ASSUME NEW s \in Sessions, DraftRight(s), SessionSame(s), OrderKept(txn[s].order),
         step[s] = "commit", RowsKept(s),
         txn[s].kind = "redeem" => txn[s].tickets \subseteq TicketsOf(txn[s].order)
  PROVE  DraftRight(s)'
<1>. DEFINE t == txn[s]
<1>0. PICK o : o = txn[s].order /\ OrderKept(o)
  BY DEF OrderKept
<1>1. txn'[s] = txn[s] /\ draft'[s] = draft[s]
  BY DEF SessionSame
<1>2. /\ TicketsOf(o)' = TicketsOf(o)
      /\ (TicketsOf(o) \cap redeemed)' = TicketsOf(o) \cap redeemed
      /\ (TicketsOf(o) \ qrIssued)' = TicketsOf(o) \ qrIssued
  BY <1>0, OrderTicketsKept
<1>3. /\ TicketsOf(txn[s].order)' = TicketsOf(o)
      /\ (TicketsOf(txn[s].order) \cap redeemed)' = TicketsOf(o) \cap redeemed
      /\ (TicketsOf(txn[s].order) \ qrIssued)' = TicketsOf(o) \ qrIssued
  BY <1>0, <1>1, <1>2
<1>4. t.kind = "create" => eventRow'[t.event] = eventRow[t.event]
  BY DEF RowsKept
<1>5. t.kind = "confirm" => PaidStatus' = PaidStatus
  BY DEF RowsKept, PaidStatus
<1>6. (TicketsOf(o) \subseteq redeemed' \cup t.tickets)
        <=> (TicketsOf(o) \subseteq redeemed \cup t.tickets)
  BY <1>3
<1>. QED
  BY <1>0, <1>1, <1>3, <1>4, <1>5, <1>6 DEF DraftRight

LEMMA PayableKept ==
  ASSUME NEW s \in Sessions, SessionSame(s), txn[s].kind = "create", Payable(s), AllTaken(s),
         priced \subseteq Products, \A p \in taken[s] : ProductRead(s, p) /\ ProductKept(p)
  PROVE  Payable(s)'
<1>1. PICK p \in priced : txn[s].qty[p] > 0
  BY DEF Payable
<1>2. p \in taken[s]
  BY <1>1 DEF AllTaken
<1>3. p \in priced'
  BY <1>1, <1>2 DEF ProductRead, ProductKept
<1>. QED
  BY <1>1, <1>3 DEF Payable, SessionSame

\* The rows that a session relies on are the only ones it relies on.
LEMMA SessionKept ==
  ASSUME Sound, NEW s \in Sessions, SessionSame(s), RowsKept(s)
  PROVE  SessionInv(s)'
<1>1. SessionInv(s) /\ TxnTypeOK /\ priced \subseteq Products
  BY DEF Sound, TxnInv, TypeOK
<1>2. txn'[s] = txn[s] /\ step'[s] = step[s] /\ taken'[s] = taken[s]
  BY DEF SessionSame
<1>3. \A c \in Promos : HoldsPromo(s, c)' <=> HoldsPromo(s, c)
  BY <1>2 DEF HoldsPromo
<1>4. \A p \in taken'[s] : productRow'[p] # "none"
  BY <1>1, <1>2 DEF SessionInv, RowsKept, ProductKept
<1>5. \A c \in Promos : HoldsPromo(s, c)' => promoRow'[c] = "live"
  BY <1>1, <1>3 DEF SessionInv, RowsKept
<1>6. ASSUME step[s] \in {"promo", "commit"}
      PROVE  AllTaken(s)' /\ (txn[s].kind = "create" => Payable(s)')
  <2>1. AllTaken(s) /\ (txn[s].kind = "create" => Payable(s))
    BY <1>1, <1>6 DEF SessionInv
  <2>2. AllTaken(s)'
    BY <2>1, <1>2 DEF AllTaken
  <2>3. \A p \in taken[s] : ProductRead(s, p) /\ ProductKept(p)
    BY <1>1, <1>6 DEF SessionInv, Pending, RowsKept
  <2>4. txn[s].kind = "create" => Payable(s)'
    BY <2>1, <2>3, <1>1, PayableKept
  <2>. QED
    BY <2>2, <2>4
<1>7. ASSUME Pending(s) PROVE OrderRead(s)' /\ \A p \in taken[s] : ProductRead(s, p)'
  <2>1. OrderRead(s) /\ OrderKept(txn[s].order)
    BY <1>1, <1>7 DEF SessionInv, RowsKept
  <2>2. \A p \in taken[s] : ProductRead(s, p) /\ ProductKept(p)
    BY <1>1, <1>7 DEF SessionInv, RowsKept
  <2>. QED
    BY <2>1, <2>2, OrderReadKept, ProductReadKept
<1>8. ASSUME step[s] \in {"promo", "commit"}, txn[s].code \in Promos PROVE PromoRead(s)'
  <2>1. PromoRead(s)
    BY <1>1, <1>8 DEF SessionInv
  <2>2. PromoKept(txn[s].code)
    BY <1>8 DEF RowsKept, HoldsPromo, Pending
  <2>. QED
    BY <2>1, <2>2, PromoReadKept
<1>9. ASSUME step[s] = "commit" PROVE DraftRight(s)'
  <2>1. DraftRight(s) /\ OrderRead(s) /\ OrderKept(txn[s].order)
    BY <1>1, <1>9 DEF SessionInv, Pending, RowsKept
  <2>2. txn[s].kind = "redeem" => txn[s].tickets \subseteq TicketsOf(txn[s].order)
    BY <2>1 DEF OrderRead
  <2>. QED
    BY <2>1, <2>2, <1>9, DraftKept
<1>10. step[s] = "rest" => taken[s] = {}
  BY <1>1 DEF SessionInv
<1>11. step[s] = "promo" => txn[s].code \in Promos
  BY <1>1 DEF SessionInv
<1>12. Pending(s)' <=> Pending(s)
  BY <1>2 DEF Pending
<1>. QED
  BY <1>2, <1>4, <1>5, <1>6, <1>7, <1>8, <1>9, <1>10, <1>11, <1>12 DEF SessionInv

\* Two sessions that a step leaves alone stay apart.
LEMMA ExclusiveKept ==
  ASSUME Sound, NEW r \in Sessions, NEW s \in Sessions, r # s, SessionSame(r), SessionSame(s),
         \A p \in taken[s] : productRow'[p] = productRow[p]
  PROVE  Exclusive(r, s)'
BY DEF Sound, TxnInv, Exclusive, SessionSame, HoldsPromo

LEMMA RowsUnchanged ==
  ASSUME UNCHANGED vars
  PROVE  \A s \in Sessions : RowsKept(s)
BY DEF vars, eventVars, productVars, promoVars, orderVars, ticketVars, RowsKept, OrderKept,
       ProductKept, PromoKept

\* A step of one session that leaves the rows of the others alone.
LEMMA OneSession ==
  ASSUME Sound, NEW s \in Sessions, TxnTypeOK', SessionInv(s)',
         \A r \in Sessions : r # s => SessionSame(r) /\ RowsKept(r) /\ Exclusive(s, r)'
  PROVE  TxnInv'
<1>1. ASSUME NEW r \in Sessions PROVE SessionInv(r)'
  BY SessionKept
<1>2. ASSUME NEW r \in Sessions, NEW q \in Sessions, r # q PROVE Exclusive(r, q)'
  <2>1. CASE r = s
    BY <1>2, <2>1
  <2>2. CASE q = s
    <3>1. Exclusive(s, r)'
      BY <1>2, <2>2
    <3>. QED
      BY <2>2, <3>1 DEF Exclusive
  <2>3. CASE r # s /\ q # s
    <3>1. SessionSame(r) /\ SessionSame(q) /\ \A p \in taken[q] : productRow'[p] = productRow[p]
      BY <2>3 DEF RowsKept, ProductKept
    <3>. QED
      BY <1>2, <3>1, ExclusiveKept
  <2>. QED
    BY <2>1, <2>2, <2>3
<1>. QED
  BY <1>1, <1>2 DEF TxnInv

LEMMA BeginKeeps ==
  ASSUME Sound, NEW s \in Sessions, NEW t \in TxnRecords, Begin(s, t), OrderRead(s)',
         \A r \in Sessions :
           r # s /\ step[r] # "rest" /\ (txn[r].kind = "create" <=> t.kind = "create") =>
             txn[r].order # t.order
  PROVE  TxnInv'
<1>1. TxnTypeOK /\ SessionInv(s) /\ \A r \in Sessions : SessionInv(r)
  BY DEF Sound, TxnInv
<1>2. /\ step[s] = "rest" /\ step'[s] = "products" /\ txn'[s] = t /\ taken'[s] = {}
      /\ \A r \in Sessions : r # s => SessionSame(r)
      /\ UNCHANGED vars
  BY <1>1 DEF TxnTypeOK, SessionInv, Begin, SessionSame
<1>3. TxnTypeOK'
  <2>1. txn' \in [Sessions -> TxnRecords \cup {NoTxn}] /\ step' \in [Sessions -> Steps]
    BY <1>1 DEF TxnTypeOK, Begin, Steps
  <2>2. \A r \in Sessions : step'[r] # "rest" => txn'[r] \in TxnRecords
    BY <1>1, <1>2 DEF TxnTypeOK, SessionSame
  <2>. QED
    BY <1>1, <2>1, <2>2 DEF TxnTypeOK, Begin
<1>4. SessionInv(s)'
  BY <1>2 DEF SessionInv, HoldsPromo, Pending
<1>5. ASSUME NEW r \in Sessions, r # s PROVE Exclusive(s, r)'
  BY <1>2, <1>5 DEF Exclusive, SessionSame, HoldsPromo
<1>. QED
  BY <1>2, <1>3, <1>4, <1>5, RowsUnchanged, OneSession

LEMMA CreateBegins ==
  ASSUME Sound, NEW s \in Sessions, NEW o \in Orders, NEW e \in Events, NEW qty \in Quantities,
         NEW c \in Promos \cup {NoPromo}, BeginCreate(s, o, e, qty, c)
  PROVE  TxnInv'
<1>. DEFINE t == [kind |-> "create", order |-> o, event |-> e, qty |-> qty, code |-> c,
                  seen |-> "none", tickets |-> {}]
<1>1. Begin(s, t) /\ t \in TxnRecords
  BY DEF BeginCreate, TxnRecords, Statuses
<1>2. txn'[s] = t /\ orderStatus' = orderStatus
  BY <1>1 DEF Begin, vars, orderVars, Sound, TxnInv, TxnTypeOK
<1>3. OrderRead(s)'
  BY <1>2 DEF OrderRead, BeginCreate
<1>4. \A r \in Sessions : step[r] # "rest" /\ txn[r].kind = "create" => txn[r].order # o
  BY DEF BeginCreate, Open
<1>. HIDE DEF t
<1>5. t.kind = "create" /\ t.order = o
  BY DEF t
<1>. QED
  BY <1>1, <1>3, <1>4, <1>5, BeginKeeps

\* A transaction that begins with the lock of an existing order.
LEMMA LockKeeps ==
  ASSUME Sound, NEW s \in Sessions, NEW kind \in {"confirm", "cancel", "delete", "redeem"},
         NEW o \in Orders, NEW qty \in Quantities, NEW code \in Promos \cup {NoPromo},
         NEW tickets \in SUBSET TicketIds, LockOrder(s, kind, o, qty, code, tickets),
         OrderRead(s)'
  PROVE  TxnInv'
<1>. DEFINE t == [kind |-> kind, order |-> o, event |-> AnyEvent, qty |-> qty, code |-> code,
                  seen |-> orderStatus[o], tickets |-> tickets]
<1>1. Begin(s, t) /\ t \in TxnRecords
  BY DEF LockOrder, TxnRecords, Statuses, Sound, TypeOK
<1>2. \A r \in Sessions : step[r] # "rest" /\ txn[r].kind # "create" => txn[r].order # o
  BY DEF LockOrder, OrderLocked
<1>3. t.kind # "create" /\ t.order = o
  OBVIOUS
<1>. HIDE DEF t
<1>. QED
  BY <1>1, <1>2, <1>3, BeginKeeps

LEMMA LockReads ==
  ASSUME Sound, NEW s \in Sessions, NEW kind, NEW o, NEW qty, NEW code, NEW tickets,
         LockOrder(s, kind, o, qty, code, tickets)
  PROVE  /\ txn'[s].kind = kind /\ txn'[s].order = o /\ txn'[s].qty = qty
         /\ txn'[s].code = code /\ txn'[s].seen = orderStatus[o] /\ txn'[s].tickets = tickets
         /\ UNCHANGED <<orderStatus, items, orderPromo, redeemed>>
<1>1. txn'[s] = [kind |-> kind, order |-> o, event |-> AnyEvent, qty |-> qty, code |-> code,
                 seen |-> orderStatus[o], tickets |-> tickets]
  BY DEF LockOrder, Begin, Sound, TxnInv, TxnTypeOK
<1>2. UNCHANGED vars
  BY DEF LockOrder, Begin
<1>. QED
  BY <1>1, <1>2 DEF vars, orderVars, ticketVars

LEMMA NoItemsInQuantities == NoItems \in Quantities
BY ConstantsAssumption DEF NoItems, Quantities

LEMMA ConfirmBegins ==
  ASSUME Sound, NEW s \in Sessions, NEW o \in Orders, BeginConfirm(s, o)
  PROVE  TxnInv'
<1>1. PICK qty : qty = IF orderStatus[o] = "PENDING" THEN items[o] ELSE NoItems
  OBVIOUS
<1>2. LockOrder(s, "confirm", o, qty, NoPromo, {}) /\ qty \in Quantities
  BY <1>1, NoItemsInQuantities DEF BeginConfirm, Sound, TypeOK
<1>3. OrderRead(s)'
  BY <1>1, <1>2, LockReads DEF OrderRead, BeginConfirm
<1>. QED
  BY <1>2, <1>3, LockKeeps

LEMMA CancelBegins ==
  ASSUME Sound, NEW s \in Sessions, NEW o \in Orders, BeginCancel(s, o)
  PROVE  TxnInv'
<1>1. PICK qty, code : /\ qty = IF orderStatus[o] \in PaidStatuses THEN items[o] ELSE NoItems
                       /\ code = orderPromo[o]
  OBVIOUS
<1>2. /\ LockOrder(s, "cancel", o, qty, code, {})
      /\ qty \in Quantities /\ code \in Promos \cup {NoPromo}
  BY <1>1, NoItemsInQuantities DEF BeginCancel, Sound, TypeOK
<1>3. OrderRead(s)'
  BY <1>1, <1>2, LockReads DEF OrderRead, BeginCancel, PaidStatuses
<1>. QED
  BY <1>2, <1>3, LockKeeps

LEMMA DeleteBegins ==
  ASSUME Sound, NEW s \in Sessions, NEW o \in Orders, BeginDelete(s, o)
  PROVE  TxnInv'
<1>1. PICK qty, code :
        /\ qty = IF orderStatus[o] \in SoldStatuses THEN items[o] ELSE NoItems
        /\ code = IF orderStatus[o] = "CANCELED" THEN NoPromo ELSE orderPromo[o]
  OBVIOUS
<1>2. /\ LockOrder(s, "delete", o, qty, code, {})
      /\ qty \in Quantities /\ code \in Promos \cup {NoPromo}
  BY <1>1, NoItemsInQuantities DEF BeginDelete, Sound, TypeOK
<1>3. OrderRead(s)'
  BY <1>1, <1>2, LockReads DEF OrderRead, BeginDelete, SoldStatuses, PaidStatuses
<1>. QED
  BY <1>2, <1>3, LockKeeps

LEMMA RedeemBegins ==
  ASSUME Sound, NEW s \in Sessions, NEW k \in TicketIds, NEW scan, BeginRedeem(s, k, scan)
  PROVE  TxnInv'
<1>1. PICK o : o = k[1]
  OBVIOUS
<1>2. /\ LockOrder(s, "redeem", o, NoItems, NoPromo, {k})
      /\ o \in Orders /\ NoItems \in Quantities
  BY <1>1, NoItemsInQuantities DEF BeginRedeem, TicketIds
<1>3. TicketsOf(o)' = TicketsOf(o)
  BY <1>2, LockReads DEF TicketsOf
<1>4. txn'[s].order = o
  BY <1>2, LockReads
<1>5. TicketsOf(txn[s].order)' = TicketsOf(o)
  BY <1>3, <1>4
<1>6. k \in TicketsOf(o) \ redeemed /\ redeemed' = redeemed
  BY <1>1, <1>2, LockReads DEF BeginRedeem
<1>7. OrderRead(s)'
  BY <1>1, <1>2, <1>4, <1>5, <1>6, LockReads DEF OrderRead, BeginRedeem
<1>. QED
  BY <1>2, <1>7, LockKeeps

\* A product is locked when nobody else has it, and found as it will be changed.
LEMMA TurnKeeps ==
  ASSUME Sound, NEW s \in Sessions, NEW p \in Products, Turn(s, p),
         sold' = [sold EXCEPT ![s][p] = sold'[s][p]], sold'[s][p] \in Nat,
         productRow[p] # "none", ProductRead(s, p)'
  PROVE  TxnInv'
<1>1. TxnTypeOK /\ \A r \in Sessions : SessionInv(r)
  BY DEF Sound, TxnInv
<1>2. /\ step[s] = "products" /\ UNCHANGED <<vars, txn, step, used, draft>>
      /\ taken' = [taken EXCEPT ![s] = @ \cup {p}]
      /\ p \notin taken[s] /\ ~ProductLocked(p)
  BY DEF Turn
<1>3. taken'[s] = taken[s] \cup {p} /\ \A r \in Sessions : r # s => taken'[r] = taken[r]
  BY <1>1, <1>2 DEF TxnTypeOK
<1>4. sold[s] \in [Products -> Nat] /\ sold' = [sold EXCEPT ![s] = [@ EXCEPT ![p] = sold'[s][p]]]
  BY <1>1 DEF TxnTypeOK
<1>5. /\ \A r \in Sessions : r # s => sold'[r] = sold[r]
      /\ \A q \in Products : q # p => sold'[s][q] = sold[s][q]
  BY <1>1, <1>4 DEF TxnTypeOK
<1>6. \A r \in Sessions : r # s => SessionSame(r)
  BY <1>2, <1>3, <1>5 DEF SessionSame
<1>7. TxnTypeOK'
  <2>1. taken' \in [Sessions -> SUBSET Products]
    BY <1>1, <1>2 DEF TxnTypeOK
  <2>2. sold' \in [Sessions -> [Products -> Nat]]
    <3>1. [sold[s] EXCEPT ![p] = sold'[s][p]] \in [Products -> Nat]
      BY <1>4
    <3>. QED
      BY <1>1, <1>4, <3>1 DEF TxnTypeOK
  <2>. QED
    BY <1>1, <1>2, <2>1, <2>2 DEF TxnTypeOK
<1>8. UNCHANGED <<eventRow, productRow, active, inventoryLimit, soldCount, orderStatus, items,
                  orderPromo, redeemed, promoRow>>
  BY <1>2 DEF vars, eventVars, productVars, promoVars, orderVars, ticketVars
<1>9. OrderRead(s)'
  <2>1. OrderRead(s)
    BY <1>1, <1>2 DEF SessionInv, Pending
  <2>2. PICK o : o = txn[s].order
    OBVIOUS
  <2>3. TicketsOf(o)' = TicketsOf(o)
    BY <1>8 DEF TicketsOf
  <2>4. TicketsOf(txn[s].order)' = TicketsOf(o)
    BY <1>2, <2>2, <2>3
  <2>. QED
    BY <1>2, <1>8, <2>1, <2>2, <2>4 DEF OrderRead
<1>10. ASSUME NEW q \in taken[s] PROVE ProductRead(s, q)' /\ productRow[q] # "none"
  <2>1. ProductRead(s, q) /\ q \in Products /\ productRow[q] # "none"
    BY <1>1, <1>2, <1>10 DEF SessionInv, Pending, TxnTypeOK
  <2>2. q # p
    BY <1>2, <1>10
  <2>. QED
    BY <1>2, <1>5, <1>8, <2>1, <2>2 DEF ProductRead, HasRoom
<1>11. SessionInv(s)'
  <2>1. \A q \in taken'[s] : productRow'[q] # "none" /\ ProductRead(s, q)'
    BY <1>3, <1>8, <1>10
  <2>2. step'[s] = "products" /\ \A c : ~HoldsPromo(s, c)'
    BY <1>2 DEF HoldsPromo
  <2>. QED
    BY <1>9, <2>1, <2>2 DEF SessionInv
<1>12. ASSUME NEW r \in Sessions, r # s PROVE Exclusive(s, r)'
  <2>1. Exclusive(s, r)
    BY <1>12 DEF Sound, TxnInv
  <2>2. \A q \in taken'[s] \cap taken'[r] : productRow'[q] # "live"
    BY <1>2, <1>3, <1>8, <1>12, <2>1 DEF Exclusive, ProductLocked
  <2>. QED
    BY <1>2, <2>1, <2>2 DEF Exclusive, HoldsPromo
<1>. QED
  BY <1>2, <1>6, <1>7, <1>11, <1>12, RowsUnchanged, OneSession

\* The products of an order that is locked have been created.
LEMMA ItemsCreated ==
  ASSUME Sound, NEW s \in Sessions, Pending(s), txn[s].kind # "create", NEW p \in Products,
         txn[s].qty[p] > 0
  PROVE  productRow[p] # "none"
<1>1. OrderRead(s) /\ txn[s].order \in Orders
      /\ txn[s].kind \in {"create", "confirm", "cancel", "delete", "redeem"}
  BY OfTransaction DEF Sound, TxnInv, SessionInv, Pending
<1>2. NoItems[p] = 0
  BY DEF NoItems
<1>3. items[txn[s].order][p] > 0
  BY <1>1, <1>2 DEF OrderRead
<1>. QED
  BY <1>1, <1>3 DEF Sound, OrderWellFormed

LEMMA ProductsKeep ==
  ASSUME Sound, NEW s \in Sessions, NEW p \in Products,
         CheckProduct(s, p) \/ TakeUnits(s, p) \/ GiveUnits(s, p)
  PROVE  TxnInv'
<1>1. Turn(s, p)
  BY DEF CheckProduct, TakeUnits, GiveUnits
<1>2. /\ step[s] = "products" /\ txn[s].qty[p] > 0
      /\ UNCHANGED <<productRow, active, inventoryLimit, soldCount, txn>>
  BY <1>1 DEF Turn, vars, productVars
<1>3. TxnTypeOK /\ soldCount \in [Products -> Nat] /\ sold[s] \in [Products -> Nat]
  BY DEF Sound, TxnInv, TxnTypeOK, TypeOK
<1>4. txn[s].qty[p] \in Nat
  BY <1>2, <1>3, OfTransaction, ConstantsAssumption DEF Quantities
<1>5. CASE CheckProduct(s, p)
  <2>1. txn[s].kind = "create" /\ sold' = sold
    BY <1>5 DEF CheckProduct
  <2>2. sold' = [sold EXCEPT ![s][p] = sold'[s][p]] /\ sold'[s][p] \in Nat
    BY <1>3, <2>1 DEF TxnTypeOK
  <2>3. productRow[p] # "none" /\ ProductRead(s, p)'
    BY <1>2, <1>5, <2>1 DEF ProductRead, CheckProduct
  <2>. QED
    BY <1>1, <2>2, <2>3, TurnKeeps
<1>6. ASSUME NEW n \in Nat, sold' = [sold EXCEPT ![s][p] = n]
      PROVE  sold'[s][p] = n /\ sold' = [sold EXCEPT ![s][p] = sold'[s][p]]
  <2>1. sold' = [sold EXCEPT ![s] = [@ EXCEPT ![p] = n]]
    BY <1>6
  <2>2. sold'[s] = [sold[s] EXCEPT ![p] = n]
    BY <1>3, <2>1 DEF TxnTypeOK
  <2>3. sold'[s][p] = n
    BY <1>3, <2>2
  <2>. QED
    BY <1>6, <2>3
<1>7. CASE TakeUnits(s, p)
  <2>1. PICK n \in Nat : n = soldCount[p] + txn[s].qty[p]
    BY <1>3, <1>4
  <2>2. sold' = [sold EXCEPT ![s][p] = n] /\ txn[s].kind = "confirm" /\ HasRoom(p, txn[s].qty[p])
    BY <1>7, <2>1 DEF TakeUnits
  <2>3. sold'[s][p] = n /\ sold' = [sold EXCEPT ![s][p] = sold'[s][p]]
    BY <1>6, <2>2
  <2>4. productRow[p] # "none"
    BY <2>2 DEF HasRoom
  <2>5. ProductRead(s, p)'
    BY <1>2, <2>1, <2>2, <2>3 DEF ProductRead, HasRoom
  <2>. QED
    BY <1>1, <2>3, <2>4, <2>5, TurnKeeps
<1>8. CASE GiveUnits(s, p)
  <2>1. PICK n \in Nat : n = Less(soldCount[p], txn[s].qty[p])
    BY <1>3, <1>4 DEF Less
  <2>2. sold' = [sold EXCEPT ![s][p] = n] /\ txn[s].kind \in {"cancel", "delete"}
    BY <1>8, <2>1 DEF GiveUnits
  <2>3. sold'[s][p] = n /\ sold' = [sold EXCEPT ![s][p] = sold'[s][p]]
    BY <1>6, <2>2
  <2>4. productRow[p] # "none"
    BY <1>2, <2>2, ItemsCreated DEF Pending
  <2>5. ProductRead(s, p)'
    BY <1>2, <2>1, <2>2, <2>3 DEF ProductRead, Less
  <2>. QED
    BY <1>1, <2>3, <2>4, <2>5, TurnKeeps
<1>. QED
  BY <1>5, <1>7, <1>8

\* The code of a canceled or deleted order still has its row.
LEMMA CodeIsLive ==
  ASSUME Sound, NEW s \in Sessions, Pending(s), txn[s].kind # "create", txn[s].code \in Promos
  PROVE  promoRow[txn[s].code] = "live"
<1>1. OrderRead(s) /\ txn[s].order \in Orders
      /\ txn[s].kind \in {"create", "confirm", "cancel", "delete", "redeem"}
  BY OfTransaction DEF Sound, TxnInv, SessionInv, Pending
<1>2. txn[s].code = orderPromo[txn[s].order]
  BY <1>1, ConstantsAssumption DEF OrderRead
<1>. QED
  BY <1>1, <1>2 DEF Sound, OrderWellFormed

\* What a session has read stays read while it goes on to its next statement.
LEMMA ReadsOn ==
  ASSUME Sound, NEW s \in Sessions, Pending(s), UNCHANGED <<vars, txn, taken, sold>>
  PROVE  /\ OrderRead(s)'
         /\ \A p \in taken[s] : ProductRead(s, p)' /\ productRow'[p] # "none"
         /\ AllTaken(s) => AllTaken(s)'
         /\ Payable(s) => Payable(s)'
<1>1. OrderRead(s) /\ \A p \in taken[s] : ProductRead(s, p) /\ productRow[p] # "none"
  BY DEF Sound, TxnInv, SessionInv
<1>2. UNCHANGED <<eventRow, productRow, active, priced, inventoryLimit, soldCount, orderStatus,
                  items, orderPromo, redeemed, qrIssued>>
  BY DEF vars, eventVars, productVars, orderVars, ticketVars
<1>3. PICK o : o = txn[s].order
  OBVIOUS
<1>4. TicketsOf(o)' = TicketsOf(o)
  BY <1>2 DEF TicketsOf
<1>5. TicketsOf(txn[s].order)' = TicketsOf(o)
  BY <1>3, <1>4
<1>6. OrderRead(s)'
  BY <1>1, <1>2, <1>3, <1>5 DEF OrderRead
<1>7. \A p \in taken[s] : ProductRead(s, p)' /\ productRow'[p] # "none"
  BY <1>1, <1>2 DEF ProductRead, HasRoom
<1>. QED
  BY <1>2, <1>6, <1>7 DEF AllTaken, Payable

LEMMA PromoKeeps ==
  ASSUME Sound, NEW s \in Sessions, UseCode(s) \/ ReturnCode(s)
  PROVE  TxnInv'
<1>. DEFINE c == txn[s].code
<1>1. TxnTypeOK /\ usedCount \in [Promos -> Nat]
  BY DEF Sound, TxnInv, TypeOK
<1>2. c \in Promos /\ usedCount[c] \in Nat
  BY <1>1 DEF UseCode, ReturnCode
<1>3. PICK n \in Nat : /\ LockPromo(s, n)
                       /\ UseCode(s) => n = usedCount[c] + 1
                       /\ ReturnCode(s) => n = Less(usedCount[c], 1)
  <2>1. usedCount[c] + 1 \in Nat /\ Less(usedCount[c], 1) \in Nat
    BY <1>2 DEF Less
  <2>2. ~(UseCode(s) /\ ReturnCode(s))
    BY DEF UseCode, ReturnCode, Open
  <2>. QED
    BY <2>1, <2>2 DEF UseCode, ReturnCode
<1>4. /\ step[s] = "products" /\ AllTaken(s) /\ ~PromoLocked(c)
      /\ UNCHANGED <<vars, txn, taken, sold, draft>>
      /\ step' = [step EXCEPT ![s] = "promo"] /\ used' = [used EXCEPT ![s] = n]
  BY <1>3 DEF LockPromo
<1>5. /\ step'[s] = "promo" /\ used'[s] = n
      /\ \A r \in Sessions : r # s => SessionSame(r)
  BY <1>1, <1>4 DEF TxnTypeOK, SessionSame
<1>6. TxnTypeOK'
  <2>1. step' \in [Sessions -> Steps] /\ used' \in [Sessions -> Nat]
    BY <1>1, <1>4 DEF TxnTypeOK, Steps
  <2>2. \A r \in Sessions : step'[r] # "rest" => txn'[r] \in TxnRecords
    BY <1>1, <1>4, <1>5 DEF TxnTypeOK, SessionSame
  <2>. QED
    BY <1>1, <1>4, <2>1, <2>2 DEF TxnTypeOK
<1>7. UNCHANGED <<promoRow, promoScope, usageLimit, usedCount>>
  BY <1>4 DEF vars, promoVars
<1>8. Pending(s) /\ Pending(s)'
  BY <1>4, <1>5 DEF Pending
<1>9. promoRow[c] = "live"
  <2>1. CASE UseCode(s)
    BY <2>1 DEF UseCode, PromoValid
  <2>2. CASE ReturnCode(s)
    BY <2>2, <1>2, <1>8, CodeIsLive DEF ReturnCode, Open
  <2>. QED
    BY <2>1, <2>2
<1>10. PromoRead(s)'
  <2>1. CASE UseCode(s)
    <3>1. /\ txn[s].kind = "create" /\ n = usedCount[c] + 1
          /\ usageLimit[c] > 0 => usedCount[c] < usageLimit[c]
          /\ promoScope[c] \in {AnyEvent, txn[s].event}
      BY <1>3, <2>1 DEF UseCode, PromoValid, Open
    <3>. QED
      BY <1>4, <1>5, <1>7, <3>1 DEF PromoRead
  <2>2. CASE ReturnCode(s)
    <3>1. txn[s].kind # "create" /\ n = Less(usedCount[c], 1)
      BY <1>3, <2>2 DEF ReturnCode, Open
    <3>. QED
      BY <1>4, <1>5, <1>7, <3>1 DEF PromoRead, Less
  <2>. QED
    BY <2>1, <2>2
<1>11. /\ OrderRead(s)' /\ \A p \in taken[s] : ProductRead(s, p)' /\ productRow'[p] # "none"
       /\ AllTaken(s)' /\ (Payable(s) => Payable(s)')
  BY <1>4, <1>8, ReadsOn
<1>12. txn[s].kind = "create" => Payable(s)
  BY DEF UseCode, ReturnCode, Open
<1>13. SessionInv(s)'
  BY <1>2, <1>4, <1>5, <1>7, <1>9, <1>10, <1>11, <1>12 DEF SessionInv, HoldsPromo
<1>14. ASSUME NEW r \in Sessions, r # s PROVE Exclusive(s, r)'
  <2>1. Exclusive(s, r) /\ SessionSame(r) /\ step[s] # "rest" /\ productRow' = productRow
    BY <1>4, <1>5, <1>14 DEF Sound, TxnInv, vars, productVars
  <2>2. \A d \in Promos : ~(HoldsPromo(s, d)' /\ HoldsPromo(r, d)')
    BY <1>4, <2>1 DEF PromoLocked, HoldsPromo, SessionSame
  <2>. QED
    BY <1>4, <2>1, <2>2 DEF Exclusive, SessionSame
<1>. QED
  BY <1>4, <1>5, <1>6, <1>13, <1>14, RowsUnchanged, OneSession

\* The last statements make of the order what the transaction is for.
LEMMA LastKeeps ==
  ASSUME Sound, NEW s \in Sessions, NEW kind, NEW status \in Statuses,
         NEW tickets \in SUBSET TicketIds, LastStatements(s, kind, status, tickets),
         kind = "create" => Payable(s), DraftRight(s)'
  PROVE  TxnInv'
<1>1. TxnTypeOK /\ SessionInv(s)
  BY DEF Sound, TxnInv
<1>2. /\ Open(s, kind) /\ AllTaken(s)
      /\ step[s] = IF txn[s].code \in Promos THEN "promo" ELSE "products"
      /\ draft' = [draft EXCEPT ![s] = [status |-> status, tickets |-> tickets]]
      /\ step' = [step EXCEPT ![s] = "commit"]
      /\ UNCHANGED <<vars, txn, taken, sold, used>>
  BY DEF LastStatements
<1>3. /\ step'[s] = "commit"
      /\ \A r \in Sessions : r # s => SessionSame(r)
  BY <1>1, <1>2 DEF TxnTypeOK, SessionSame
<1>4. TxnTypeOK'
  <2>1. step' \in [Sessions -> Steps]
    BY <1>1, <1>2 DEF TxnTypeOK, Steps
  <2>2. draft' \in [Sessions -> [status : Statuses, tickets : SUBSET TicketIds]]
    BY <1>1, <1>2 DEF TxnTypeOK
  <2>3. \A r \in Sessions : step'[r] # "rest" => txn'[r] \in TxnRecords
    BY <1>1, <1>2, <1>3 DEF TxnTypeOK, SessionSame
  <2>. QED
    BY <1>1, <1>2, <2>1, <2>2, <2>3 DEF TxnTypeOK
<1>5. Pending(s)
  BY <1>2 DEF Pending
<1>6. /\ OrderRead(s)' /\ \A p \in taken[s] : ProductRead(s, p)' /\ productRow'[p] # "none"
      /\ AllTaken(s)' /\ (Payable(s) => Payable(s)')
  BY <1>2, <1>5, ReadsOn
<1>7. \A c \in Promos : HoldsPromo(s, c)' => HoldsPromo(s, c)
  BY <1>2 DEF HoldsPromo
<1>8. UNCHANGED <<productRow, promoRow, promoScope, usageLimit, usedCount>>
  BY <1>2 DEF vars, productVars, promoVars
<1>9. txn[s].code \in Promos => PromoRead(s)'
  <2>1. txn[s].code \in Promos => PromoRead(s)
    BY <1>1, <1>2 DEF SessionInv
  <2>. QED
    BY <1>2, <1>8, <2>1 DEF PromoRead
<1>10. txn[s].kind = "create" => Payable(s)
  BY <1>2 DEF Open
<1>11. \A c \in Promos : HoldsPromo(s, c)' => promoRow'[c] = "live"
  BY <1>1, <1>7, <1>8 DEF SessionInv
<1>12. SessionInv(s)'
  BY <1>2, <1>3, <1>6, <1>9, <1>10, <1>11 DEF SessionInv
<1>13. ASSUME NEW r \in Sessions, r # s PROVE Exclusive(s, r)'
  <2>1. Exclusive(s, r) /\ SessionSame(r) /\ step[s] # "rest"
    BY <1>2, <1>3, <1>13 DEF Sound, TxnInv
  <2>2. \A d \in Promos : ~(HoldsPromo(s, d)' /\ HoldsPromo(r, d)')
    BY <1>7, <2>1 DEF HoldsPromo, SessionSame, Exclusive
  <2>. QED
    BY <1>2, <1>8, <2>1, <2>2 DEF Exclusive, SessionSame
<1>. QED
  BY <1>2, <1>3, <1>4, <1>12, <1>13, RowsUnchanged, OneSession

LEMMA LastReads ==
  ASSUME Sound, NEW s \in Sessions, NEW kind, NEW status, NEW tickets,
         LastStatements(s, kind, status, tickets)
  PROVE  /\ draft'[s] = [status |-> status, tickets |-> tickets]
         /\ txn[s].kind = kind /\ txn' = txn /\ OrderRead(s) /\ txn[s].order \in Orders
         /\ UNCHANGED <<eventRow, schema, items, redeemed, qrIssued>>
<1>1. step[s] \in {"products", "promo"} /\ txn[s].kind = kind /\ txn' = txn /\ UNCHANGED vars
  BY DEF LastStatements, Open
<1>2. draft'[s] = [status |-> status, tickets |-> tickets]
  BY DEF LastStatements, Sound, TxnInv, TxnTypeOK
<1>3. OrderRead(s) /\ txn[s].order \in Orders
  BY <1>1, OfTransaction DEF Sound, TxnInv, SessionInv, Pending
<1>. QED
  BY <1>1, <1>2, <1>3 DEF vars, eventVars, orderVars, ticketVars

LEMMA LastStatementsKeep ==
  ASSUME Sound, NEW s \in Sessions,
         InsertOrder(s) \/ MarkPaid(s) \/ MarkCanceled(s) \/ EraseRow(s) \/ MarkUsed(s)
  PROVE  TxnInv'
<1>. DEFINE t == txn[s]
<1>1. PICK o : o = t.order
  OBVIOUS
<1>2. CASE InsertOrder(s)
  <2>1. LastStatements(s, "create", "PENDING", {}) /\ Payable(s) /\ eventRow[t.event] = "live"
    BY <1>2 DEF InsertOrder
  <2>2. /\ draft'[s] = [status |-> "PENDING", tickets |-> {}] /\ txn' = txn
        /\ txn[s].kind = "create" /\ eventRow' = eventRow
    BY <2>1, LastReads
  <2>3. draft'[s].status = "PENDING" /\ txn'[s] = txn[s]
    BY <2>2
  <2>4. DraftRight(s)'
    BY <2>1, <2>2, <2>3 DEF DraftRight
  <2>5. "PENDING" \in Statuses /\ {} \in SUBSET TicketIds
    BY DEF Statuses
  <2>. QED
    BY <2>1, <2>4, <2>5, LastKeeps
<1>3. CASE MarkPaid(s)
  <2>1. PICK status, tickets :
          /\ status = IF t.seen = "PENDING" THEN PaidStatus ELSE t.seen
          /\ tickets = TicketsOf(o) \ qrIssued
    OBVIOUS
  <2>2. LastStatements(s, "confirm", status, tickets)
    BY <1>1, <1>3, <2>1 DEF MarkPaid
  <2>3. t.kind = "confirm" /\ OrderRead(s)
    BY <2>2, LastReads
  <2>4. status \in Statuses /\ tickets \subseteq TicketIds
    BY <2>1, <2>3 DEF OrderRead, PaidStatus, SoldStatuses, PaidStatuses, Statuses, TicketsOf
  <2>5. TicketsOf(o)' = TicketsOf(o) /\ PaidStatus' = PaidStatus
    BY <2>2, LastReads DEF TicketsOf, PaidStatus
  <2>6. TicketsOf(txn[s].order)' = TicketsOf(o)
    BY <1>1, <2>2, <2>5, LastReads
  <2>7. draft'[s] = [status |-> status, tickets |-> tickets] /\ txn'[s] = txn[s]
        /\ qrIssued' = qrIssued
    BY <2>2, LastReads
  <2>8. draft'[s].status = status /\ draft'[s].tickets = tickets
    BY <2>7
  <2>9. DraftRight(s)'
    BY <1>1, <2>1, <2>3, <2>5, <2>6, <2>7, <2>8 DEF DraftRight
  <2>. QED
    BY <2>2, <2>3, <2>4, <2>9, LastKeeps
<1>4. CASE MarkCanceled(s)
  <2>1. LastStatements(s, "cancel", "CANCELED", {})
    BY <1>4 DEF MarkCanceled
  <2>2. /\ draft'[s] = [status |-> "CANCELED", tickets |-> {}] /\ txn' = txn
        /\ txn[s].kind = "cancel" /\ eventRow' = eventRow
    BY <2>1, LastReads
  <2>3. draft'[s].status = "CANCELED" /\ txn'[s] = txn[s]
    BY <2>2
  <2>4. DraftRight(s)'
    BY <2>1, <2>2, <2>3 DEF DraftRight
  <2>5. "CANCELED" \in Statuses /\ {} \in SUBSET TicketIds
    BY DEF Statuses
  <2>. QED
    BY <2>1, <2>4, <2>5, LastKeeps
<1>5. CASE EraseRow(s)
  <2>1. LastStatements(s, "delete", "gone", {})
    BY <1>5 DEF EraseRow
  <2>2. /\ draft'[s] = [status |-> "gone", tickets |-> {}] /\ txn' = txn
        /\ txn[s].kind = "delete" /\ eventRow' = eventRow
    BY <2>1, LastReads
  <2>3. draft'[s].status = "gone" /\ txn'[s] = txn[s]
    BY <2>2
  <2>4. DraftRight(s)'
    BY <2>1, <2>2, <2>3 DEF DraftRight
  <2>5. "gone" \in Statuses /\ {} \in SUBSET TicketIds
    BY DEF Statuses
  <2>. QED
    BY <2>1, <2>4, <2>5, LastKeeps
<1>6. CASE MarkUsed(s)
  <2>1. PICK status, tickets :
          /\ status = IF TicketsOf(o) \subseteq redeemed \cup t.tickets THEN "REDEEMED"
                      ELSE t.seen
          /\ tickets = t.tickets
    OBVIOUS
  <2>2. LastStatements(s, "redeem", status, tickets)
    BY <1>1, <1>6, <2>1 DEF MarkUsed
  <2>3. t.kind = "redeem" /\ OrderRead(s) /\ step[s] # "rest"
    BY <2>2, LastReads DEF LastStatements, Open
  <2>4. status \in Statuses /\ tickets \subseteq TicketIds
    BY <2>1, <2>3 DEF OrderRead, SoldStatuses, PaidStatuses, Statuses, TicketsOf
  <2>5. TicketsOf(o)' = TicketsOf(o)
    BY <2>2, LastReads DEF TicketsOf
  <2>6. TicketsOf(txn[s].order)' = TicketsOf(o)
    BY <1>1, <2>2, <2>5, LastReads
  <2>7. draft'[s] = [status |-> status, tickets |-> tickets] /\ txn'[s] = txn[s]
        /\ redeemed' = redeemed
    BY <2>2, LastReads
  <2>8. draft'[s].status = status /\ draft'[s].tickets = tickets
    BY <2>7
  <2>9. DraftRight(s)'
    BY <1>1, <2>1, <2>3, <2>6, <2>7, <2>8 DEF DraftRight
  <2>. QED
    BY <2>2, <2>3, <2>4, <2>9, LastKeeps
<1>. QED
  BY <1>2, <1>3, <1>4, <1>5, <1>6

LEMMA OrdersApart ==
  ASSUME Sound, NEW r \in Sessions, NEW s \in Sessions, r # s, Pending(r), Pending(s)
  PROVE  txn[r].order # txn[s].order
<1>1. Exclusive(r, s) /\ step[r] # "rest" /\ step[s] # "rest"
  BY DEF Sound, TxnInv, Pending
<1>2. ASSUME NEW q \in Sessions, Pending(q)
      PROVE  orderStatus[txn[q].order] = "none" <=> txn[q].kind = "create"
  <2>1. OrderRead(q) /\ txn[q].kind \in {"create", "confirm", "cancel", "delete", "redeem"}
    BY <1>2, OfTransaction DEF Sound, TxnInv, SessionInv, Pending
  <2>. QED
    BY <2>1 DEF OrderRead, PaidStatuses, SoldStatuses
<1>. QED
  BY <1>1, <1>2 DEF Exclusive

\* A commit changes no order but its own.
LEMMA CommitOfOrder ==
  ASSUME Sound, NEW s \in Sessions, Commits(s)
  PROVE  /\ \E kind : Commit(s, kind)
         /\ \A o \in Orders : o # txn[s].order => OrderKept(o)
<1>1. PICK kind : Commit(s, kind) /\ kind \in {"create", "confirm", "cancel", "delete", "redeem"}
  BY DEF Commits, CommitCreate, CommitConfirm, CommitCancel, CommitDelete, CommitRedeem
<1>2. /\ txn[s].kind = kind /\ step[s] = "commit"
      /\ orderStatus' = [orderStatus EXCEPT ![txn[s].order] = draft[s].status]
  BY <1>1 DEF Commit, Open
<1>3. OrderRead(s) /\ DraftRight(s)
  BY <1>1, AtTheCommit
<1>4. orderStatus \in [Orders -> Statuses] /\ items \in [Orders -> Quantities]
      /\ orderPromo \in [Orders -> Promos \cup {NoPromo}]
  BY DEF Sound, TypeOK, Statuses
<1>5. ASSUME NEW o \in Orders, o # txn[s].order
      PROVE  orderStatus'[o] = orderStatus[o] /\ items'[o] = items[o]
             /\ orderPromo'[o] = orderPromo[o]
  BY <1>2, <1>4, <1>5
     DEF Commits, CommitCreate, CommitConfirm, CommitCancel, CommitDelete, CommitRedeem
<1>6. ASSUME NEW k \in TicketIds, k[1] # txn[s].order
      PROVE  (k \in qrIssued' <=> k \in qrIssued) /\ (k \in redeemed' <=> k \in redeemed)
  <2>1. CASE CommitCreate(s) \/ CommitCancel(s)
    BY <2>1 DEF CommitCreate, CommitCancel, ticketVars
  <2>2. CASE CommitConfirm(s)
    <3>1. draft[s].tickets = TicketsOf(txn[s].order) \ qrIssued
      BY <1>3, <2>2 DEF DraftRight, CommitConfirm, Commit, Open
    <3>2. k \notin TicketsOf(txn[s].order)
      BY <1>6 DEF TicketsOf
    <3>. QED
      BY <2>2, <3>1, <3>2 DEF CommitConfirm
  <2>3. CASE CommitDelete(s)
    BY <1>6, <2>3 DEF CommitDelete
  <2>4. CASE CommitRedeem(s)
    <3>1. txn[s].kind = "redeem"
      BY <2>4 DEF CommitRedeem, Commit, Open
    <3>2. draft[s].tickets = txn[s].tickets /\ txn[s].tickets \subseteq TicketsOf(txn[s].order)
      BY <1>3, <3>1 DEF DraftRight, OrderRead
    <3>3. k \notin TicketsOf(txn[s].order)
      BY <1>6 DEF TicketsOf
    <3>. QED
      BY <2>4, <3>2, <3>3 DEF CommitRedeem
  <2>. QED
    BY <2>1, <2>2, <2>3, <2>4 DEF Commits
<1>. QED
  BY <1>1, <1>5, <1>6 DEF OrderKept

LEMMA CommitSpares ==
  ASSUME Sound, NEW s \in Sessions, Commits(s), NEW r \in Sessions, r # s
  PROVE  RowsKept(r)
<1>1. PICK kind : Commit(s, kind)
  BY CommitOfOrder
<1>2. TxnTypeOK /\ Exclusive(r, s) /\ soldCount \in [Products -> Nat]
      /\ usedCount \in [Promos -> Nat]
  BY DEF Sound, TxnInv, TypeOK
<1>3. step[s] = "commit" /\ Pending(s)
  BY <1>1 DEF Commit, Pending
<1>4. UNCHANGED <<eventRow, productRow, active, priced, inventoryLimit, promoRow, promoScope,
                  usageLimit, schema>>
  BY <1>1 DEF Commit, eventVars
<1>5. Pending(r) => OrderKept(txn[r].order)
  BY <1>2, <1>3, OrdersApart, CommitOfOrder, OfTransaction DEF Pending
<1>6. ASSUME NEW p \in taken[r] PROVE ProductKept(p)
  <2>1. p \in Products /\ ~(p \in taken[s] /\ productRow[p] = "live")
    BY <1>2, <1>6 DEF TxnTypeOK, Exclusive
  <2>2. soldCount'[p] = soldCount[p]
    BY <1>1, <2>1 DEF Commit
  <2>. QED
    BY <1>4, <2>2 DEF ProductKept
<1>7. ASSUME NEW c \in Promos, HoldsPromo(r, c) PROVE PromoKept(c)
  <2>1. txn[s].code # c
    BY <1>2, <1>3, <1>7 DEF Exclusive, HoldsPromo
  <2>2. usedCount'[c] = usedCount[c]
    BY <1>1, <1>2, <2>1 DEF Commit
  <2>. QED
    BY <1>4, <2>2 DEF PromoKept
<1>. QED
  BY <1>4, <1>5, <1>6, <1>7 DEF RowsKept

LEMMA CommitKeeps ==
  ASSUME Sound, NEW s \in Sessions, Commits(s)
  PROVE  TxnInv'
<1>1. PICK kind : Commit(s, kind)
  BY CommitOfOrder
<1>2. TxnTypeOK /\ SessionInv(s)
  BY DEF Sound, TxnInv
<1>3. /\ step[s] = "commit" /\ step' = [step EXCEPT ![s] = "end"]
      /\ UNCHANGED <<productRow, promoRow, txn, taken, sold, used, draft>>
  BY <1>1 DEF Commit
<1>4. step'[s] = "end" /\ \A r \in Sessions : r # s => SessionSame(r)
  BY <1>2, <1>3 DEF TxnTypeOK, SessionSame
<1>5. TxnTypeOK'
  <2>1. step' \in [Sessions -> Steps]
    BY <1>2, <1>3 DEF TxnTypeOK, Steps
  <2>2. \A r \in Sessions : step'[r] # "rest" => txn'[r] \in TxnRecords
    BY <1>2, <1>3, <1>4 DEF TxnTypeOK, SessionSame
  <2>. QED
    BY <1>2, <1>3, <2>1, <2>2 DEF TxnTypeOK
<1>6. SessionInv(s)'
  BY <1>2, <1>3, <1>4 DEF SessionInv, HoldsPromo, Pending
<1>7. ASSUME NEW r \in Sessions, r # s PROVE Exclusive(s, r)'
  <2>1. Exclusive(s, r) /\ SessionSame(r)
    BY <1>4, <1>7 DEF Sound, TxnInv
  <2>. QED
    BY <1>3, <1>4, <2>1 DEF Exclusive, SessionSame, HoldsPromo
<1>. QED
  BY <1>4, <1>5, <1>6, <1>7, CommitSpares, OneSession

LEMMA ForgetKeeps ==
  ASSUME Sound, NEW s \in Sessions, Forget(s)
  PROVE  TxnInv'
<1>1. TxnTypeOK
  BY DEF Sound, TxnInv
<1>2. /\ step'[s] = "rest" /\ taken'[s] = {} /\ UNCHANGED vars
      /\ \A r \in Sessions : r # s => SessionSame(r)
  BY <1>1 DEF TxnTypeOK, Forget, SessionSame
<1>3. TxnTypeOK'
  <2>1. txn' \in [Sessions -> TxnRecords \cup {NoTxn}] /\ step' \in [Sessions -> Steps]
    BY <1>1 DEF TxnTypeOK, Forget, Steps
  <2>2. \A r \in Sessions : step'[r] # "rest" => txn'[r] \in TxnRecords
    BY <1>1, <1>2 DEF TxnTypeOK, SessionSame
  <2>3. taken' \in [Sessions -> SUBSET Products] /\ used' \in [Sessions -> Nat]
    BY <1>1 DEF TxnTypeOK, Forget
  <2>4. sold' \in [Sessions -> [Products -> Nat]]
    <3>1. NoItems \in [Products -> Nat]
      BY DEF NoItems
    <3>. QED
      BY <1>1, <3>1 DEF TxnTypeOK, Forget
  <2>5. draft' \in [Sessions -> [status : Statuses, tickets : SUBSET TicketIds]]
    <3>1. NoDraft \in [status : Statuses, tickets : SUBSET TicketIds]
      BY DEF NoDraft, Statuses
    <3>. QED
      BY <1>1, <3>1 DEF TxnTypeOK, Forget
  <2>. QED
    BY <2>1, <2>2, <2>3, <2>4, <2>5 DEF TxnTypeOK
<1>4. SessionInv(s)'
  BY <1>2 DEF SessionInv, HoldsPromo, Pending
<1>5. ASSUME NEW r \in Sessions, r # s PROVE Exclusive(s, r)'
  BY <1>2 DEF Exclusive, HoldsPromo
<1>. QED
  BY <1>2, <1>3, <1>4, <1>5, RowsUnchanged, OneSession

\* What is known of the sessions while a statement outside of them runs.
LEMMA SessionFacts ==
  ASSUME Sound, NEW s \in Sessions
  PROVE  /\ taken[s] \subseteq Products /\ \A p \in taken[s] : productRow[p] # "none"
         /\ \A p \in taken[s] : productRow[p] = "live" => ProductLocked(p)
         /\ \A c \in Promos : HoldsPromo(s, c) => promoRow[c] = "live" /\ PromoLocked(c)
         /\ Pending(s) => txn[s].order \in Orders
         /\ Pending(s) /\ txn[s].kind # "create" => OrderLocked(txn[s].order)
         /\ Pending(s) /\ txn[s].kind = "create" =>
              /\ orderStatus[txn[s].order] = "none"
              /\ items[txn[s].order] = NoItems /\ orderPromo[txn[s].order] = NoPromo
<1>1. SessionInv(s) /\ TxnTypeOK
  BY DEF Sound, TxnInv
<1>2. Pending(s) => txn[s].order \in Orders /\ OrderRead(s)
  BY <1>1, OfTransaction DEF SessionInv, Pending
<1>3. Pending(s) /\ txn[s].kind = "create" => orderStatus[txn[s].order] = "none"
  BY <1>2 DEF OrderRead
<1>. QED
  BY <1>1, <1>2, <1>3
     DEF SessionInv, TxnTypeOK, ProductLocked, PromoLocked, OrderLocked, Pending, Sound,
         OrderWellFormed

LEMMA ProductSpares ==
  ASSUME Sound, NEW p \in Products, SingleProduct(p), NEW s \in Sessions
  PROVE  RowsKept(s)
<1>1. UNCHANGED <<eventVars, promoVars, orderVars, ticketVars>>
  BY DEF SingleProduct, CreateProduct, UpdateProduct, DeleteProduct
<1>2. p \notin taken[s]
  BY SessionFacts DEF SingleProduct, CreateProduct, UpdateProduct, DeleteProduct
<1>3. ASSUME NEW q \in Products, q # p PROVE ProductKept(q)
  <2>. USE <1>3 DEF ProductKept, Sound, TypeOK, Flag
  <2>1. ASSUME NEW limit \in 0..MaxLimit, NEW isActive \in BOOLEAN, NEW isPriced \in BOOLEAN,
               CreateProduct(p, limit, isActive, isPriced)
        PROVE  ProductKept(q)
    BY <2>1 DEF CreateProduct
  <2>2. ASSUME NEW limit \in 0..MaxLimit, NEW isActive \in BOOLEAN, NEW isPriced \in BOOLEAN,
               UpdateProduct(p, limit, isActive, isPriced)
        PROVE  ProductKept(q)
    BY <2>2 DEF UpdateProduct
  <2>3. CASE DeleteProduct(p)
    BY <2>3 DEF DeleteProduct, EraseProducts
  <2>. QED
    BY <2>1, <2>2, <2>3 DEF SingleProduct
<1>4. \A q \in taken[s] : ProductKept(q)
  BY <1>2, <1>3, SessionFacts
<1>. QED
  BY <1>1, <1>4
     DEF RowsKept, OrderKept, PromoKept, eventVars, promoVars, orderVars, ticketVars

LEMMA PromoSpares ==
  ASSUME Sound, NEW c \in Promos, SinglePromo(c), NEW s \in Sessions
  PROVE  RowsKept(s)
<1>1. UNCHANGED <<eventVars, productVars, schema, orderStatus, items, ticketVars>>
  BY DEF SinglePromo, CreatePromoCode, UpdatePromoCode, DeletePromoCode, PromoWindowTurns,
         orderVars
<1>2. ASSUME NEW d \in Promos, HoldsPromo(s, d) PROVE PromoKept(d)
  <2>1. promoRow[d] = "live" /\ PromoLocked(d)
    BY <1>2, SessionFacts
  <2>. USE DEF PromoKept, Sound, TypeOK
  <2>2. ASSUME NEW limit \in 0..MaxLimit, NEW open \in BOOLEAN,
               NEW scope \in Events \cup {AnyEvent}, CreatePromoCode(c, limit, open, scope)
        PROVE  PromoKept(d)
    BY <2>1, <2>2 DEF CreatePromoCode
  <2>3. ASSUME NEW limit \in 0..MaxLimit, NEW open \in BOOLEAN,
               NEW scope \in Events \cup {AnyEvent}, ~PromoLocked(c),
               UpdatePromoCode(c, limit, open, scope)
        PROVE  PromoKept(d)
    BY <2>1, <2>3 DEF UpdatePromoCode
  <2>4. ASSUME ~PromoLocked(c), DeletePromoCode(c) PROVE PromoKept(d)
    BY <2>1, <2>4 DEF DeletePromoCode
  <2>5. CASE PromoWindowTurns(c)
    BY <2>5 DEF PromoWindowTurns
  <2>. QED
    BY <2>2, <2>3, <2>4, <2>5 DEF SinglePromo
<1>3. ASSUME Pending(s) PROVE orderPromo'[txn[s].order] = orderPromo[txn[s].order]
  <2>1. CASE \/ \E limit, open, scope : CreatePromoCode(c, limit, open, scope)
             \/ \E limit, open, scope : UpdatePromoCode(c, limit, open, scope)
             \/ PromoWindowTurns(c)
    BY <2>1 DEF CreatePromoCode, UpdatePromoCode, PromoWindowTurns, orderVars
  <2>2. CASE DeletePromoCode(c) /\ \A o \in Orders : orderPromo[o] = c => ~OrderLocked(o)
    <3>1. txn[s].order \in Orders /\ orderPromo[txn[s].order] # c
      BY <1>3, <2>2, SessionFacts, ConstantsAssumption
    <3>. QED
      BY <2>2, <3>1 DEF DeletePromoCode
  <2>. QED
    BY <2>1, <2>2 DEF SinglePromo
<1>4. Pending(s) => OrderKept(txn[s].order)
  BY <1>1, <1>3 DEF OrderKept, ticketVars
<1>5. \A p \in taken[s] : ProductKept(p)
  BY <1>1 DEF ProductKept, productVars
<1>. QED
  BY <1>1, <1>2, <1>4, <1>5 DEF RowsKept, PromoKept, eventVars

LEMMA EventSpares ==
  ASSUME Sound, NEW e \in Events, SingleEvent(e), NEW s \in Sessions
  PROVE  RowsKept(s)
<1>1. DeleteEvent(e)
  BY DEF SingleEvent
<1>2. ASSUME NEW p \in taken[s] PROVE ProductKept(p)
  <2>1. p \in Products /\ ~(EventOf[p] = e /\ productRow[p] = "live")
    BY <1>2, SessionFacts DEF SingleEvent
  <2>. QED
    BY <1>1, <2>1 DEF DeleteEvent, EraseProducts, ProductKept
<1>3. ASSUME NEW c \in Promos, HoldsPromo(s, c) PROVE PromoKept(c)
  <2>1. promoScope[c] # e
    BY <1>3, SessionFacts DEF SingleEvent
  <2>. QED
    BY <1>1, <2>1 DEF DeleteEvent, PromoKept
<1>4. ASSUME Pending(s) PROVE OrderKept(txn[s].order)
  <2>1. PICK o \in Orders : o = txn[s].order
    BY <1>4, SessionFacts
  <2>2. ~OrderOfEvent(o, e)
    <3>1. CASE txn[s].kind = "create"
      <4>1. items[o] = NoItems
        BY <1>4, <2>1, <3>1, SessionFacts
      <4>. QED
        BY <4>1 DEF OrderOfEvent, NoItems
    <3>2. CASE txn[s].kind # "create"
      BY <1>4, <2>1, <3>2, SessionFacts DEF SingleEvent
    <3>. QED
      BY <3>1, <3>2
  <2>3. OrderKept(o)
    <3>1. PICK S : S = {x \in Orders : OrderOfEvent(x, e)}
      OBVIOUS
    <3>2. EraseOrders(S) /\ o \notin S
      BY <1>1, <2>2, <3>1 DEF DeleteEvent
    <3>. QED
      BY <3>2 DEF EraseOrders, OrderKept
  <2>. QED
    BY <2>1, <2>3 DEF OrderKept
<1>5. step[s] = "commit" /\ txn[s].kind = "create" => eventRow'[txn[s].event] = eventRow[txn[s].event]
  <2>1. ASSUME step[s] = "commit", txn[s].kind = "create" PROVE txn[s].event # e
    BY <2>1 DEF SingleEvent, EventLocked, Open
  <2>. QED
    BY <1>1, <2>1 DEF DeleteEvent, Sound, TypeOK
<1>. QED
  BY <1>1, <1>2, <1>3, <1>4, <1>5 DEF RowsKept, PromoKept, DeleteEvent

LEMMA MigrationSpares ==
  ASSUME Sound, Migration, NEW s \in Sessions
  PROVE  RowsKept(s)
<1>1. MigrateTo18 /\ (step[s] = "rest" \/ (Open(s, "create") /\ step[s] \in {"products", "promo"}))
  BY DEF Migration
<1>2. ASSUME Pending(s) PROVE OrderKept(txn[s].order)
  <2>1. txn[s].order \in Orders /\ orderStatus[txn[s].order] = "none"
    BY <1>1, <1>2, SessionFacts DEF Open, Pending
  <2>. QED
    BY <1>1, <2>1 DEF MigrateTo18, OrderKept, ticketVars
<1>. QED
  BY <1>1, <1>2
     DEF RowsKept, ProductKept, PromoKept, MigrateTo18, eventVars, productVars, promoVars

LEMMA SinglesKeep ==
  ASSUME Sound, Single
  PROVE  TxnInv'
<1>1. \A s \in Sessions : RowsKept(s)
  BY ProductSpares, PromoSpares, EventSpares, MigrationSpares DEF Single
<1>2. \A s \in Sessions : SessionSame(s)
  BY DEF Single, sessionVars, SessionSame
<1>3. TxnTypeOK'
  BY DEF Sound, TxnInv, TxnTypeOK, Single, sessionVars
<1>4. \A s \in Sessions : SessionInv(s)'
  BY <1>1, <1>2, SessionKept
<1>5. ASSUME NEW r \in Sessions, NEW s \in Sessions, r # s PROVE Exclusive(r, s)'
  <2>1. \A p \in taken[s] : productRow'[p] = productRow[p]
    BY <1>1 DEF RowsKept, ProductKept
  <2>. QED
    BY <1>2, <1>5, <2>1, ExclusiveKept
<1>. QED
  BY <1>3, <1>4, <1>5 DEF TxnInv

LEMMA TxnInitInv == TxnInit => TxnInv
<1>. SUFFICES ASSUME TxnInit PROVE TxnInv
  OBVIOUS
<1>1. TxnTypeOK
  BY DEF TxnInit, TxnTypeOK, Steps, NoItems, NoDraft, Statuses
<1>2. \A s \in Sessions : step[s] = "rest" /\ taken[s] = {}
  BY DEF TxnInit
<1>3. \A s \in Sessions : SessionInv(s)
  BY <1>2 DEF SessionInv, HoldsPromo, Pending
<1>4. \A r, s \in Sessions : Exclusive(r, s)
  BY <1>2 DEF Exclusive, HoldsPromo
<1>. QED
  BY <1>1, <1>3, <1>4 DEF TxnInv

\* No step of any session breaks what another has read.
LEMMA TxnStep ==
  ASSUME Sound, [TxnNext]_txnVars
  PROVE  TxnInv'
<1>1. ASSUME NEW s \in Sessions, Starts(s) PROVE TxnInv'
  BY <1>1, CreateBegins, ConfirmBegins, CancelBegins, DeleteBegins, RedeemBegins DEF Starts
<1>2. ASSUME NEW s \in Sessions, Proceeds(s) PROVE TxnInv'
  BY <1>2, ProductsKeep, PromoKeeps, LastStatementsKeep DEF Proceeds
<1>3. ASSUME NEW s \in Sessions, Commits(s) PROVE TxnInv'
  BY <1>3, CommitKeeps
<1>4. ASSUME NEW s \in Sessions, Release(s) \/ Rollback(s) PROVE TxnInv'
  BY <1>4, ForgetKeeps DEF Release, Rollback
<1>5. CASE UNCHANGED txnVars
  <2>1. UNCHANGED vars /\ UNCHANGED sessionVars
    BY <1>5 DEF txnVars
  <2>2. \A s \in Sessions : SessionSame(s) /\ RowsKept(s)
    BY <2>1, RowsUnchanged DEF sessionVars, SessionSame
  <2>3. TxnTypeOK'
    BY <2>1 DEF Sound, TxnInv, TxnTypeOK, sessionVars
  <2>4. \A r, s \in Sessions : r # s => Exclusive(r, s)'
    BY <2>2, ExclusiveKept DEF RowsKept, ProductKept
  <2>. QED
    BY <2>2, <2>3, <2>4, SessionKept DEF TxnInv
<1>. QED
  BY <1>1, <1>2, <1>3, <1>4, <1>5, SinglesKeep DEF TxnNext

\* The shop that the transactions show keeps its invariant, and they keep theirs.
LEMMA TxnInvariant == TxnSpec => [](TxnInv /\ Atomic!IInv)
<1>1. TxnInit => TxnInv /\ Atomic!IInv
  BY TxnInitInv, InitAtCommit, AtomicInit, AtomicConstants, Atomic!InvInit
<1>2. TxnInv /\ Atomic!IInv /\ [TxnNext]_txnVars => (TxnInv /\ Atomic!IInv)'
  <2>. SUFFICES ASSUME TxnInv, Atomic!IInv, [TxnNext]_txnVars PROVE TxnInv' /\ Atomic!IInv'
    OBVIOUS
  <2>1. Sound
    BY RowsRight DEF Sound
  <2>2. [Atomic!Next]_(Atomic!vars)
    BY <2>1, StepAtCommit, AtomicNext
  <2>. QED
    BY <2>1, <2>2, TxnStep, AtomicConstants, Atomic!InvStep
<1>. QED
  BY <1>1, <1>2, PTL DEF TxnSpec

\* The variables of the open transactions have their types.
THEOREM TxnTypeCorrect == TxnSpec => []TxnTypeOK
<1>1. TxnInv => TxnTypeOK
  BY DEF TxnInv
<1>. QED
  BY <1>1, TxnInvariant, PTL

\* However the statements of any number of transactions interleave, every one
\* takes effect as one step of Ticketing, at its commit.
THEOREM AtOnceTheorem == TxnSpec => CommitsAtOnce
<1>1. TxnInit => AtCommit!Init
  BY InitAtCommit
<1>2. TxnInv /\ Atomic!IInv /\ [TxnNext]_txnVars => [AtCommit!Next]_(AtCommit!vars)
  BY RowsRight, StepAtCommit DEF Sound
<1>. QED
  BY <1>1, <1>2, TxnInvariant, PTL DEF TxnSpec, AtCommit!Spec, CommitsAtOnce

-----------------------------------------------------------------------------
(***************************************************************************)
(* What the transactions have of it: the promises of the shop, proved of   *)
(* transactions that are one step, hold of its committed rows although     *)
(* they are not.                                                           *)
(***************************************************************************)
LEMMA SameSize == ASSUME NEW S PROVE Atomic!Cardinality(S) = Cardinality(S)
BY DEF Atomic!Cardinality, Cardinality

LEMMA SameCounts ==
  /\ \A p : Atomic!SoldUnits(p) = SoldUnits(p)
  /\ \A c : Atomic!PromoUses(c) = PromoUses(c)
BY DEF Atomic!SoldUnits, SoldUnits, Atomic!SoldStatuses, SoldStatuses, Atomic!PaidStatuses,
       PaidStatuses, Atomic!PromoUses, PromoUses

\* The counters are exact, QR codes and redemptions follow the payments, and the
\* statuses are those of the schema, whenever nobody's commit is half done, which
\* it never is.
THEOREM TxnShopTheorem ==
  TxnSpec => /\ []SoldCountExact
             /\ []PromoUseCounted
             /\ []RedeemedIffAllUsed
             /\ []QrFollowsPayment
             /\ []SpelledBySchema
<1>1. Atomic!IInv => SoldCountExact
  BY SameSize, SameCounts
     DEF Atomic!IInv, Atomic!SoldCountExact, SoldCountExact, Atomic!Products, Products
<1>2. Atomic!IInv => PromoUseCounted
  BY SameSize, SameCounts DEF Atomic!IInv, Atomic!PromoUseCounted, PromoUseCounted
<1>3. Atomic!IInv => RedeemedIffAllUsed
  BY DEF Atomic!IInv, Atomic!RedeemedIffAllUsed, RedeemedIffAllUsed, Atomic!SoldStatuses,
         SoldStatuses, Atomic!PaidStatuses, PaidStatuses, Atomic!TicketsOf, TicketsOf,
         Atomic!TicketIds, TicketIds
<1>4. Atomic!IInv => QrFollowsPayment
  BY DEF Atomic!IInv, Atomic!QrFollowsPayment, QrFollowsPayment, Atomic!SoldStatuses,
         SoldStatuses, Atomic!PaidStatuses, PaidStatuses, Atomic!TicketsOf, TicketsOf,
         Atomic!TicketIds, TicketIds
<1>5. Atomic!IInv => SpelledBySchema
  BY DEF Atomic!IInv, Atomic!SpelledBySchema, SpelledBySchema
<1>. QED
  BY <1>1, <1>2, <1>3, <1>4, <1>5, TxnInvariant, PTL

LEMMA SameCountsNext ==
  /\ \A p : (Atomic!SoldUnits(p))' = (SoldUnits(p))'
  /\ \A c : (Atomic!PromoUses(c))' = (PromoUses(c))'
BY DEF Atomic!SoldUnits, SoldUnits, Atomic!SoldStatuses, SoldStatuses, Atomic!PaidStatuses,
       PaidStatuses, Atomic!PromoUses, PromoUses

\* No two payments that run at the same time sell more than the limit.
THEOREM TxnNoOversell == TxnSpec => NoOversell
<1>. DEFINE A == \A p \in Products :
                   Cardinality(SoldUnits(p)') > Cardinality(SoldUnits(p)) =>
                     /\ productRow[p] = "live"
                     /\ inventoryLimit[p] > 0 => Cardinality(SoldUnits(p)') <= inventoryLimit[p]
<1>1. TxnInv /\ Atomic!IInv /\ [TxnNext]_txnVars => [A]_vars
  <2>. SUFFICES ASSUME TxnInv, Atomic!IInv, [TxnNext]_txnVars, NEW p \in Products,
                       Cardinality(SoldUnits(p)') > Cardinality(SoldUnits(p))
                PROVE  /\ productRow[p] = "live"
                       /\ inventoryLimit[p] > 0 =>
                            Cardinality(SoldUnits(p)') <= inventoryLimit[p]
    OBVIOUS
  <2>1. [Atomic!Next]_(Atomic!vars) /\ p \in Atomic!Products
    BY RowsRight, StepAtCommit, AtomicNext DEF Sound, Atomic!Products, Products
  <2>2. /\ Atomic!Cardinality((Atomic!SoldUnits(p))') = Cardinality(SoldUnits(p)')
        /\ Atomic!Cardinality(Atomic!SoldUnits(p)) = Cardinality(SoldUnits(p))
    BY SameSize, SameCounts, SameCountsNext
  <2>. QED
    BY <2>1, <2>2, AtomicConstants, Atomic!SellWithinLimit
<1>. HIDE DEF A
<1>2. TxnSpec => [][A]_vars
  BY <1>1, TxnInvariant, PTL DEF TxnSpec
<1>. QED
  BY <1>2 DEF A, NoOversell

\* No two orders that are placed at the same time share the last use of a code.
THEOREM TxnPromoCap == TxnSpec => PromoCapHeld
<1>. DEFINE A == \A c \in Promos :
                   Cardinality(PromoUses(c)') > Cardinality(PromoUses(c)) =>
                     (usageLimit[c] = 0 \/ Cardinality(PromoUses(c)') <= usageLimit[c])
<1>1. TxnInv /\ Atomic!IInv /\ [TxnNext]_txnVars => [A]_vars
  <2>. SUFFICES ASSUME TxnInv, Atomic!IInv, [TxnNext]_txnVars, NEW c \in Promos,
                       Cardinality(PromoUses(c)') > Cardinality(PromoUses(c))
                PROVE  usageLimit[c] = 0 \/ Cardinality(PromoUses(c)') <= usageLimit[c]
    OBVIOUS
  <2>1. [Atomic!Next]_(Atomic!vars)
    BY RowsRight, StepAtCommit, AtomicNext DEF Sound
  <2>2. /\ Atomic!Cardinality((Atomic!PromoUses(c))') = Cardinality(PromoUses(c)')
        /\ Atomic!Cardinality(Atomic!PromoUses(c)) = Cardinality(PromoUses(c))
    BY SameSize, SameCounts, SameCountsNext
  <2>. QED
    BY <2>1, <2>2, AtomicConstants, Atomic!UseWithinLimit
<1>. HIDE DEF A
<1>2. TxnSpec => [][A]_vars
  BY <1>1, TxnInvariant, PTL DEF TxnSpec
<1>. QED
  BY <1>2 DEF A, PromoCapHeld
=============================================================================
