----------------------------- MODULE Inventory -----------------------------
(***************************************************************************)
(* Placing an order: OrderServiceImpl.createOrder and reorder over the     *)
(* tables Product, Order and OrderItem, next to the tenant's own writes of *)
(* a product (ProductController).                                          *)
(*                                                                         *)
(* The products are read and checked before the transaction.  In it the    *)
(* order is inserted and each item decremented by an UPDATE that takes the *)
(* lock of the product's row and keeps it to the end of the transaction,   *)
(* as PostgreSQL does at READ COMMITTED; the event that mails the          *)
(* confirmation is queued in Redis, outside the transaction and before it  *)
(* commits.  The tables show what is committed; draft is the version of a  *)
(* row written by the transaction that holds its lock.                     *)
(***************************************************************************)
EXTENDS StockLedger, FiniteSets

CONSTANTS Handlers, None   \* requests being served at once; no handler

ASSUME NoneAssumption == None \notin Handlers \union Orders
ASSUME HandlersAssumption == IsFiniteSet(Handlers)

VARIABLES
  lock,       \* the handler whose transaction holds the lock of each row
  draft,      \* the stock that transaction wrote, if any
  announced,  \* orders with a confirmation queued for mailing
  proc,       \* the step each handler is at, and its locals
  supplied    \* history: what the tenant's writes added to each stock

vars == <<listed, stock, orders, lock, draft, announced, proc, supplied>>

Handler(pc, o, basket) ==
  [pc |-> pc, order |-> o, basket |-> basket, taken |-> 0, open |-> FALSE]

Idle == Handler("idle", None, NoOrder)

Init ==
  /\ LedgerInit
  /\ lock = [p \in Products |-> None]
  /\ draft = [p \in Products |-> 0]
  /\ announced = {}
  /\ proc = [h \in Handlers |-> Idle]
  /\ supplied = [p \in Products |-> 0]

At(h, pc) == proc[h].pc = pc
Basket(h) == proc[h].basket

(* The id a new order will have: no order, mail or request has it.         *)
FreshOrder(o) ==
  /\ orders[o] = NoOrder
  /\ o \notin announced
  /\ \A h \in Handlers : proc[h].order # o

(***************************************************************************)
(* Reading and checking.                                                   *)
(***************************************************************************)
InStock_Unchecked(basket) ==
  \A i \in DOMAIN basket : listed[basket[i].product] = "listed"

InStock(basket) ==
  \A i \in DOMAIN basket :
    /\ listed[basket[i].product] = "listed"
    /\ stock[basket[i].product] >= basket[i].quantity

Acceptable_AnySeller(basket) ==
  basket # NoOrder /\ Distinct(basket) /\ InStock(basket)

(* Whether createOrder goes on to its transaction, from one findMany.      *)
Acceptable(basket) ==
  basket # NoOrder /\ Distinct(basket) /\ InStock(basket) /\ OneSeller(basket)

(* A request that is refused changes nothing.                              *)
PlaceOrder(h, o, basket) ==
  /\ At(h, "idle") /\ FreshOrder(o)
  /\ Acceptable(basket)
  /\ proc' = [proc EXCEPT ![h] = Handler("insert", o, basket)]
  /\ UNCHANGED <<listed, stock, orders, lock, draft, announced, supplied>>

(* reorder reads the items of an earlier order, checks their stock, and    *)
(* calls createOrder, which reads and checks again.                        *)
ReorderRead(h, o, earlier) ==
  /\ At(h, "idle") /\ FreshOrder(o)
  /\ orders[earlier] # NoOrder
  /\ proc' = [proc EXCEPT ![h] = Handler("recheck", o, orders[earlier])]
  /\ UNCHANGED <<listed, stock, orders, lock, draft, announced, supplied>>

ReorderCheck(h) ==
  /\ At(h, "recheck")
  /\ proc' = [proc EXCEPT ![h] = IF InStock(Basket(h)) THEN [@ EXCEPT !.pc = "place"] ELSE Idle]
  /\ UNCHANGED <<listed, stock, orders, lock, draft, announced, supplied>>

ReorderPlace(h) ==
  /\ At(h, "place")
  /\ proc' = [proc EXCEPT ![h] = IF Acceptable(Basket(h)) THEN [@ EXCEPT !.pc = "insert"] ELSE Idle]
  /\ UNCHANGED <<listed, stock, orders, lock, draft, announced, supplied>>

(***************************************************************************)
(* The transaction.                                                        *)
(***************************************************************************)
Insert(h) ==
  /\ At(h, "insert")
  /\ proc' = [proc EXCEPT ![h].pc = "decrement", ![h].open = TRUE]
  /\ UNCHANGED <<listed, stock, orders, lock, draft, announced, supplied>>

NextItem(h) == Basket(h)[proc[h].taken + 1]

Taken(h) ==
  [proc[h] EXCEPT !.taken = @ + 1,
     !.pc = IF proc[h].taken + 1 = Len(Basket(h)) THEN "emit" ELSE "decrement"]

(* updateStock called without the transaction's client.                    *)
Decrement_OutsideTx(h) ==
  /\ At(h, "decrement") /\ proc[h].open
  /\ LET p == NextItem(h).product IN
       /\ listed[p] = "listed" /\ lock[p] = None
       /\ stock' = [stock EXCEPT ![p] = @ - NextItem(h).quantity]
  /\ proc' = [proc EXCEPT ![h] = Taken(h)]
  /\ UNCHANGED <<listed, orders, lock, draft, announced, supplied>>

(* updateMany, which does not mind a product that is gone.                 *)
Decrement_AnyRow(h) ==
  /\ At(h, "decrement") /\ proc[h].open
  /\ LET p == NextItem(h).product IN
       /\ lock[p] = None
       /\ lock' = [lock EXCEPT ![p] = h]
       /\ draft' = [draft EXCEPT ![p] = stock[p] - NextItem(h).quantity]
  /\ proc' = [proc EXCEPT ![h] = Taken(h)]
  /\ UNCHANGED <<listed, stock, orders, announced, supplied>>

(* stock = stock - quantity: waits for the lock, then takes the quantity   *)
(* from what is committed by then.                                         *)
Decrement(h) ==
  /\ At(h, "decrement") /\ proc[h].open
  /\ LET p == NextItem(h).product IN
       /\ listed[p] = "listed" /\ lock[p] = None
       /\ lock' = [lock EXCEPT ![p] = h]
       /\ draft' = [draft EXCEPT ![p] = stock[p] - NextItem(h).quantity]
  /\ proc' = [proc EXCEPT ![h] = Taken(h)]
  /\ UNCHANGED <<listed, stock, orders, announced, supplied>>

(* A failure of the queue caught and logged, as if mail did not matter.    *)
Emit_Swallowed(h) ==
  /\ At(h, "emit")
  /\ announced' \in {announced, announced \union {proc[h].order}}
  /\ proc' = [proc EXCEPT ![h].pc = "commit"]
  /\ UNCHANGED <<listed, stock, orders, lock, draft, supplied>>

(* eventBus.emit adds a job to the e-mail queue in Redis: it needs no open *)
(* transaction, and if it fails the transaction does.                      *)
Emit(h) ==
  /\ At(h, "emit")
  /\ announced' = announced \union {proc[h].order}
  /\ proc' = [proc EXCEPT ![h].pc = "commit"]
  /\ UNCHANGED <<listed, stock, orders, lock, draft, supplied>>

Unlock_Leaked(h) == UNCHANGED <<lock, draft>>

Unlock(h) ==
  /\ lock' = [p \in Products |-> IF lock[p] = h THEN None ELSE lock[p]]
  /\ draft' = [p \in Products |-> IF lock[p] = h THEN 0 ELSE draft[p]]

Commit(h) ==
  /\ At(h, "commit") /\ proc[h].open
  /\ orders' = [orders EXCEPT ![proc[h].order] = Basket(h)]
  /\ stock' = [p \in Products |-> IF lock[p] = h THEN draft[p] ELSE stock[p]]
  /\ Unlock(h)
  /\ proc' = [proc EXCEPT ![h] = Idle]
  /\ UNCHANGED <<listed, announced, supplied>>

(* A request ends early, at any await: the customer is not found, a call   *)
(* throws, the order number is not unique, the process crashes.  Its       *)
(* transaction is rolled back; the mail it queued is not.                  *)
Fail(h) ==
  /\ ~At(h, "idle")
  /\ Unlock(h)
  /\ proc' = [proc EXCEPT ![h] = Idle]
  /\ UNCHANGED <<listed, stock, orders, announced, supplied>>

(* Prisma rolls back a transaction open for too long (5 s, 2 s to start);  *)
(* the handler finds out at its next query.                                *)
Timeout(h) ==
  /\ proc[h].open
  /\ Unlock(h)
  /\ proc' = [proc EXCEPT ![h].open = FALSE]
  /\ UNCHANGED <<listed, stock, orders, announced, supplied>>

(* Handlers that wait for each other's rows in a circle; PostgreSQL breaks *)
(* it by failing one of them.                                              *)
WaitsFor(h, g) ==
  At(h, "decrement") /\ proc[h].open /\ lock[NextItem(h).product] = g

Deadlocked(h) ==
  \E S \in SUBSET Handlers : h \in S /\ \A f \in S : \E g \in S : WaitsFor(f, g)

(* What makes the next query of a handler throw for certain.               *)
Doomed(h) ==
  \/ proc[h].pc \in {"decrement", "commit"} /\ ~proc[h].open
  \/ At(h, "decrement") /\ listed[NextItem(h).product] # "listed"
  \/ Deadlocked(h)

Throw(h) == Doomed(h) /\ Fail(h)

(***************************************************************************)
(* The tenant: POST, PATCH and DELETE of a product.  PATCH writes the stock *)
(* it is given, whatever the stock was; both it and DELETE wait for the    *)
(* row's lock.  What becomes of them between their read and their write is *)
(* nobody's concern: the write alone changes something.                    *)
(***************************************************************************)
CreateProduct(p, n) ==
  /\ listed[p] = "new"
  /\ listed' = [listed EXCEPT ![p] = "listed"]
  /\ stock' = [stock EXCEPT ![p] = n]
  /\ supplied' = [supplied EXCEPT ![p] = n]
  /\ UNCHANGED <<orders, lock, draft, announced, proc>>

PatchStock(p, n) ==
  /\ listed[p] = "listed" /\ lock[p] = None
  /\ stock' = [stock EXCEPT ![p] = n]
  /\ supplied' = [supplied EXCEPT ![p] = @ + n - stock[p]]
  /\ UNCHANGED <<listed, orders, lock, draft, announced, proc>>

DeleteProduct(p) ==
  /\ listed[p] = "listed" /\ lock[p] = None
  /\ listed' = [listed EXCEPT ![p] = "deleted"]
  /\ stock' = [stock EXCEPT ![p] = 0]
  /\ UNCHANGED <<orders, lock, draft, announced, proc, supplied>>

(***************************************************************************)
(* The specification.                                                      *)
(***************************************************************************)
Request(h) ==
  \E o \in Orders :
    \/ \E basket \in Baskets : PlaceOrder(h, o, basket)
    \/ \E earlier \in Orders : ReorderRead(h, o, earlier)

HandlerStep(h) ==
  \/ ReorderCheck(h) \/ ReorderPlace(h)
  \/ Insert(h) \/ Emit(h) \/ Commit(h) \/ Throw(h)

Tenant(p) ==
  DeleteProduct(p) \/ \E n \in Levels : CreateProduct(p, n) \/ PatchStock(p, n)

Next ==
  \/ \E h \in Handlers :
       Request(h) \/ HandlerStep(h) \/ Decrement(h) \/ Fail(h) \/ Timeout(h)
  \/ \E p \in Products : Tenant(p)

Spec == Init /\ [][Next]_vars

(* A request goes on, and PostgreSQL gives a row to those that wait for it *)
(* in turn.  No timeout is counted on.                                     *)
Fairness ==
  \A h \in Handlers : WF_vars(HandlerStep(h)) /\ SF_vars(Decrement(h))

FairSpec == Spec /\ Fairness

(***************************************************************************)
(* Properties.                                                             *)
(***************************************************************************)
HandlerPCs == {"idle", "recheck", "place", "insert", "decrement", "emit", "commit"}

HandlerState ==
  [pc : HandlerPCs, order : Orders \union {None}, basket : Baskets,
   taken : 0..MaxItems, open : BOOLEAN]

(* Every variable keeps its type, and a product without a row has neither  *)
(* stock nor a lock.                                                       *)
TypeOK ==
  /\ listed \in [Products -> {"new", "listed", "deleted"}]
  /\ stock \in [Products -> Int]
  /\ orders \in [Orders -> Baskets]
  /\ lock \in [Products -> Handlers \union {None}]
  /\ draft \in [Products -> Int]
  /\ announced \subseteq Orders
  /\ proc \in [Handlers -> HandlerState]
  /\ supplied \in [Products -> Int]
  /\ \A p \in Products : listed[p] # "listed" => stock[p] = 0 /\ lock[p] = None

(* What the orders in the database have taken of a product: the units they *)
(* asked for less those that an item of a negative quantity gave, counted  *)
(* one by one.                                                             *)
Units(quantities) == UNION {{o} \X (1..quantities[o]) : o \in Orders}

Sold(p) ==
  Cardinality(Units([o \in Orders |-> Quantity(orders[o], p)]))
    - Cardinality(Units([o \in Orders |-> -Quantity(orders[o], p)]))

(* The stock of a product is what the tenant supplied less what the orders *)
(* in the database took: no failed, timed-out or deadlocked request keeps  *)
(* stock, and no order is placed without taking its own.                   *)
StockConserved ==
  \A p \in Products : listed[p] = "listed" => stock[p] = supplied[p] - Sold(p)

(* The stock check is made before the transaction and never again, so that *)
(* stock may fall below zero, but by no more than the requests in flight   *)
(* can take together.                                                      *)
OversellBounded ==
  \A p \in Products : stock[p] >= -(MaxQuantity * Cardinality(Handlers))

(* No order is placed without its confirmation: the event is queued before *)
(* the commit, and a failure to queue it rolls the order back.             *)
CommittedIsAnnounced ==
  \A o \in Orders : orders[o] # NoOrder => o \in announced

(* Every step of ordering is a step of the ledger or leaves it alone.      *)
KeepsLedger == LedgerSpec

(* Every request ends, though rows are locked in the order of the basket   *)
(* and two baskets may name the same products in opposite orders.          *)
RequestEnds == \A h \in Handlers : ~At(h, "idle") ~> At(h, "idle")

(***************************************************************************)
(* What the code's tests and rules say, and its interleavings refute.      *)
(***************************************************************************)

(* order.service.integration.spec.ts:166, "should rollback entire          *)
(* transaction if product stock insufficient".                             *)
NoOversell == \A p \in Products : stock[p] >= 0

(* order.service.integration.spec.ts:193, "Verify no event emitted" for an *)
(* order that is rolled back.                                              *)
NoPhantomConfirmation ==
  \A o \in announced : orders[o] # NoOrder \/ \E h \in Handlers : proc[h].order = o

=============================================================================
