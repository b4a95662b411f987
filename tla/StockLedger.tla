---------------------------- MODULE StockLedger ----------------------------
(***************************************************************************)
(* What ordering promises about stock, with no handler, lock or            *)
(* transaction in sight: an order and the quantities it takes from the     *)
(* stock of its products appear in one step, an order never changes once   *)
(* it is placed, and nothing but the tenant's own writes and the orders    *)
(* placed moves the stock of a product.                                    *)
(*                                                                         *)
(* It does not promise that stock stays above zero.  Inventory.tla shows   *)
(* that createOrder implements this module, and by how much it oversells.  *)
(***************************************************************************)
EXTENDS Integers, Sequences

CONSTANTS
  Products,     \* product ids
  Seller,       \* the tenant that sells each product
  Quantities,   \* what an item may ask for
  MaxQuantity,  \* bound on a quantity
  MaxItems,     \* bound on the items of a basket
  Levels,       \* stock levels a tenant writes
  Orders        \* order ids

(* No validation pipe is installed: a quantity may be zero or negative.    *)
ASSUME QuantityAssumption ==
  MaxQuantity \in Nat /\ Quantities \subseteq Int /\ \A q \in Quantities : q <= MaxQuantity
ASSUME ItemsAssumption == MaxItems \in Nat
ASSUME LevelsAssumption == Levels \subseteq Nat

VARIABLES
  listed,   \* "new", "listed" or "deleted"
  stock,    \* column stock of a listed product; 0 of the others
  orders    \* the items of each order placed

ledgerVars == <<listed, stock, orders>>

(* What createOrder is asked for.                                          *)
Item == [product : Products, quantity : Quantities]
Baskets == UNION {[1..n -> Item] : n \in 0..MaxItems}

(* The items of an order id that has no row.                               *)
NoOrder == <<>>

(* findMany returns one row for a product however often it is asked for,   *)
(* so that a basket naming a product twice has too few of them.            *)
Distinct(basket) ==
  \A i, j \in DOMAIN basket : basket[i].product = basket[j].product => i = j

OneSeller(basket) ==
  \A i, j \in DOMAIN basket : Seller[basket[i].product] = Seller[basket[j].product]

(* What an order takes of a product.                                       *)
Quantity(basket, p) ==
  IF \E i \in DOMAIN basket : basket[i].product = p
  THEN basket[CHOOSE i \in DOMAIN basket : basket[i].product = p].quantity
  ELSE 0

LedgerInit ==
  /\ listed = [p \in Products |-> "new"]
  /\ stock = [p \in Products |-> 0]
  /\ orders = [o \in Orders |-> NoOrder]

Sell(o, basket) ==
  /\ orders[o] = NoOrder
  /\ basket # NoOrder /\ Distinct(basket) /\ OneSeller(basket)
  /\ \A i \in DOMAIN basket : listed[basket[i].product] = "listed"
  /\ orders' = [orders EXCEPT ![o] = basket]
  /\ stock' = [p \in Products |-> stock[p] - Quantity(basket, p)]
  /\ UNCHANGED listed

Stock(p, n) ==
  /\ listed[p] # "deleted"
  /\ listed' = [listed EXCEPT ![p] = "listed"]
  /\ stock' = [stock EXCEPT ![p] = n]
  /\ UNCHANGED orders

Delist(p) ==
  /\ listed[p] = "listed"
  /\ listed' = [listed EXCEPT ![p] = "deleted"]
  /\ stock' = [stock EXCEPT ![p] = 0]
  /\ UNCHANGED orders

LedgerNext ==
  \/ \E o \in Orders, basket \in Baskets : Sell(o, basket)
  \/ \E p \in Products : Delist(p) \/ \E n \in Levels : Stock(p, n)

LedgerSpec == LedgerInit /\ [][LedgerNext]_ledgerVars

=============================================================================
