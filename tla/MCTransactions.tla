--------------------------- MODULE MCTransactions ---------------------------
(***************************************************************************)
(* The instance of Transactions for TLC.  Three questions are asked of one *)
(* run: how transactions meet on a ticket and a transfer product; how they *)
(* meet on a promo code, with a plain ticket product and another event     *)
(* that the code may be for; and what the migration, patches and deletions *)
(* of a single product do to them.                                         *)
(***************************************************************************)
EXTENDS Transactions, TLC

CONSTANTS e1, e2, t1, r1

\* Everything is sold for the first event.
OneEvent == [p \in Products |-> e1]

Symmetry == Permutations(Orders) \cup Permutations(Sessions)

NoPromoCodes == eventRow[e2] = "live" /\ \A c \in Promos : promoRow[c] = "none"

\* A product is made in its final form, its limit alone is patched.
Stock ==
  /\ NoPromoCodes
  /\ \A p \in Products : productRow[p] = "live" => p \in priced /\ p \in active
  /\ schema = 18

Promo ==
  /\ productRow[r1] = "none"
  /\ productRow[t1] = "live" => t1 \in active /\ t1 \in priced /\ inventoryLimit[t1] = 0
  /\ productRow[t1] = "gone" => eventRow[e1] = "gone"
  /\ eventRow[e2] = "gone" => \E c \in Promos : promoRow[c] # "none"
  /\ redeemed = {}
  /\ schema = 18

OneProduct == NoPromoCodes /\ productRow[r1] = "none"

Bounded == Stock \/ Promo \/ OneProduct
=============================================================================
