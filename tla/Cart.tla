------------------------------- MODULE Cart --------------------------------
(***************************************************************************)
(* The carts: CartService over the documents in Redis, and its checkout,   *)
(* composed with StockLedger, which OrderServiceImpl.createOrder           *)
(* implements: an order is a Sell, or an error at any point.  The tenants' *)
(* own writes are left out: a product that is gone is such an error.       *)
(*                                                                         *)
(* A document is read, changed and written back whole.  RedisService       *)
(* answers a read with null and ignores a write or a delete while it       *)
(* believes itself disconnected.  The connection may come and go between   *)
(* any two accesses, so that each finds it up or down as it likes.         *)
(***************************************************************************)
EXTENDS StockLedger

CONSTANTS
  Users,      \* who have carts
  Tabs,       \* those of them who send several requests at once
  Carts,      \* bound: the carts a change may make
  Handlers,   \* requests being served at once
  None        \* no user

ASSUME TabsAssumption == Tabs \subseteq Users
ASSUME CartsAssumption == Carts \subseteq Baskets
ASSUME NoneAssumption == None \notin Users

VARIABLES
  carts,       \* the items of the document cart:<userId>; none is as good as empty
  owner,       \* column customerId of each order
  proc         \* the step each handler is at, and its locals

vars == <<carts, owner, proc, listed, stock, orders>>

NoItems == <<>>
NoChange == [kind |-> "none"]

(* No validation pipe is installed: any quantity may be added.  To set one *)
(* below 1 takes the item out, as removeCartItem does.                     *)
Changes ==
  [kind : {"add"}, product : Products, quantity : Quantities] \union
  [kind : {"set"}, product : Products, quantity : Quantities \union {0}] \union
  {NoChange}

Idle == [pc |-> "idle", user |-> None, change |-> NoChange, seen |-> NoItems]

(* The tenants have listed their products.                                 *)
Init ==
  /\ listed = [p \in Products |-> "listed"]
  /\ stock = [p \in Products |-> 0]
  /\ orders = [o \in Orders |-> NoOrder]
  /\ carts = [u \in Users |-> NoItems]
  /\ owner = [o \in Orders |-> None]
  /\ proc = [h \in Handlers |-> Idle]

At(h, pc) == proc[h].pc = pc

(***************************************************************************)
(* The changes of a cart.                                                  *)
(***************************************************************************)
Has(cart, p) == \E i \in DOMAIN cart : cart[i].product = p
Position(cart, p) == CHOOSE i \in DOMAIN cart : cart[i].product = p

AddItem_Append(cart, p, quantity) ==
  Append(cart, [product |-> p, quantity |-> quantity])

AddItem(cart, p, quantity) ==
  IF Has(cart, p)
  THEN [cart EXCEPT ![Position(cart, p)].quantity = @ + quantity]
  ELSE Append(cart, [product |-> p, quantity |-> quantity])

RemoveItem(cart, p) ==
  SubSeq(cart, 1, Position(cart, p) - 1) \o SubSeq(cart, Position(cart, p) + 1, Len(cart))

SetItem(cart, p, quantity) ==
  IF quantity <= 0
  THEN RemoveItem(cart, p)
  ELSE [cart EXCEPT ![Position(cart, p)].quantity = quantity]

Changed(cart, change) ==
  IF change.kind = "add"
  THEN AddItem(cart, change.product, change.quantity)
  ELSE SetItem(cart, change.product, change.quantity)

(***************************************************************************)
(* The requests.                                                           *)
(***************************************************************************)
Key_Shared(u) == CHOOSE v \in Users : TRUE

Key(u) == u

(* A user who does one thing at a time waits for the answer.               *)
MayAsk(u) == u \in Tabs \/ \A h \in Handlers : proc[h].user # u

(* RedisService.getJSON, setJSON and del; up is isConnected.               *)
Fetched(u, up) == IF up THEN carts[Key(u)] ELSE NoItems

Stored(u, cart, up) ==
  carts' = IF up THEN [carts EXCEPT ![Key(u)] = cart] ELSE carts

(* updateCartItem and removeCartItem refuse what is not in the cart.       *)
ChangeRead(h, u, change, up) ==
  /\ At(h, "idle") /\ MayAsk(u)
  /\ change.kind = "set" => Has(Fetched(u, up), change.product)
  /\ Changed(Fetched(u, up), change) \in Carts
  /\ proc' = [proc EXCEPT ![h] =
       [pc |-> "write", user |-> u, change |-> change, seen |-> Fetched(u, up)]]
  /\ UNCHANGED <<carts, owner, ledgerVars>>

ChangeWrite(h, up) ==
  /\ At(h, "write")
  /\ Stored(proc[h].user, Changed(proc[h].seen, proc[h].change), up)
  /\ proc' = [proc EXCEPT ![h] = Idle]
  /\ UNCHANGED <<owner, ledgerVars>>

ClearCart(u, up) ==
  /\ MayAsk(u)
  /\ Stored(u, NoItems, up)
  /\ UNCHANGED <<owner, proc, ledgerVars>>

CheckoutRead(h, u, up) ==
  /\ At(h, "idle") /\ MayAsk(u)
  /\ Fetched(u, up) # NoItems
  /\ proc' = [proc EXCEPT ![h] =
       [pc |-> "order", user |-> u, change |-> NoChange, seen |-> Fetched(u, up)]]
  /\ UNCHANGED <<carts, owner, ledgerVars>>

CheckoutOrder_Anonymous(h, o) ==
  /\ At(h, "order")
  /\ Sell(o, proc[h].seen)
  /\ proc' = [proc EXCEPT ![h].pc = "clear"]
  /\ UNCHANGED <<carts, owner>>

CheckoutOrder(h, o) ==
  /\ At(h, "order")
  /\ Sell(o, proc[h].seen)
  /\ owner' = [owner EXCEPT ![o] = proc[h].user]
  /\ proc' = [proc EXCEPT ![h].pc = "clear"]
  /\ UNCHANGED carts

CheckoutClear(h, up) ==
  /\ At(h, "clear")
  /\ Stored(proc[h].user, NoItems, up)
  /\ proc' = [proc EXCEPT ![h] = Idle]
  /\ UNCHANGED <<owner, ledgerVars>>

(* A request ends early: createOrder refuses the items or throws, a call   *)
(* to Redis throws, the process crashes.                                   *)
Fail(h) ==
  /\ ~At(h, "idle")
  /\ proc' = [proc EXCEPT ![h] = Idle]
  /\ UNCHANGED <<carts, owner, ledgerVars>>

(***************************************************************************)
(* Redis forgets a document after 7 days.                                  *)
(***************************************************************************)
Expire(u) ==
  /\ carts[u] # NoItems
  /\ carts' = [carts EXCEPT ![u] = NoItems]
  /\ UNCHANGED <<owner, proc, ledgerVars>>

(***************************************************************************)
(* The specification.                                                      *)
(***************************************************************************)
Serve(h) ==
  \/ \E up \in BOOLEAN :
       \/ \E u \in Users :
            \/ CheckoutRead(h, u, up)
            \/ \E change \in Changes \ {NoChange} : ChangeRead(h, u, change, up)
       \/ ChangeWrite(h, up) \/ CheckoutClear(h, up)
  \/ \E o \in Orders : CheckoutOrder(h, o)
  \/ Fail(h)

Next ==
  \/ \E h \in Handlers : Serve(h)
  \/ \E u \in Users : Expire(u) \/ \E up \in BOOLEAN : ClearCart(u, up)

Spec == Init /\ [][Next]_vars

(***************************************************************************)
(* Properties.                                                             *)
(***************************************************************************)
HandlerState ==
  [pc : {"idle", "write", "order", "clear"}, user : Users \union {None},
   change : Changes, seen : Baskets]

(* Every variable keeps its type, and an order has its customer.           *)
TypeOK ==
  /\ carts \in [Users -> Baskets]
  /\ owner \in [Orders -> Users \union {None}]
  /\ proc \in [Handlers -> HandlerState]
  /\ listed \in [Products -> {"new", "listed", "deleted"}]
  /\ stock \in [Products -> Int]
  /\ orders \in [Orders -> Baskets]
  /\ \A o \in Orders : orders[o] = NoOrder <=> owner[o] = None

(* createOrder refuses a basket that names a product twice                 *)
(* (order.service.impl.ts:83): no interleaving of changes makes a cart do  *)
(* so.  Nothing is said of the quantity, which may be none or negative.    *)
OneItemPerProduct == \A u \in Users : Distinct(carts[u])

(* What src/README.md:251 and the cart's DTO (@Min(1)) say of quantities:  *)
(* what is ordered is at least one of each product.  The DTO's rules are   *)
(* never applied, and a cart of -1 checks out to an order that adds stock. *)
OrdersAskForSome ==
  \A o \in Orders : \A i \in DOMAIN orders[o] : orders[o][i].quantity >= 1

(* The carts and orders of those who do one thing at a time.  While a      *)
(* request is served the cart is what the request has read, and once it is *)
(* ordered it is empty.                                                    *)
Alone == Users \ Tabs

Serving(u) == {h \in Handlers : proc[h].user = u}

Items(u) ==
  IF \E h \in Serving(u) : At(h, "clear") THEN NoItems
  ELSE IF \E h \in Serving(u) : proc[h].seen # NoItems
  THEN proc[CHOOSE h \in Serving(u) : TRUE].seen
  ELSE carts[u]

(* The quantities of a product; none when the product is not there, which  *)
(* is not a quantity of 0.                                                 *)
Amount(items, p) == {items[i].quantity : i \in {j \in DOMAIN items : items[j].product = p}}
Amounts(items) == [p \in Products |-> Amount(items, p)]

Unplaced == [by |-> None, quantities |-> Amounts(NoItems)]

Promise ==
  INSTANCE CartPromise WITH
    Users <- Alone,
    cart <- [u \in Alone |-> Amounts(Items(u))],
    placed <- [o \in Orders |->
      IF owner[o] \in Alone
      THEN [by |-> owner[o], quantities |-> Amounts(orders[o])]
      ELSE Unplaced]

(* CartService keeps the promise of CartPromise to a user who does one     *)
(* thing at a time, whatever other users do, Redis and crashes included.   *)
KeepsCart == Promise!PromiseSpec

=============================================================================
