-------------------------- MODULE InventoryProofs --------------------------
(***************************************************************************)
(* Proofs about Inventory, for any products, sellers, baskets, orders and  *)
(* any finite number of handlers: the type invariant, that a committed     *)
(* order has its confirmation queued, the bound on overselling, the        *)
(* refinement of StockLedger, and that no stock is lost.                   *)
(***************************************************************************)
EXTENDS Inventory, TLAPS, SequenceTheorems, FiniteSetTheorems

(***************************************************************************)
(* The inductive invariant.                                                *)
(***************************************************************************)

(* A request has its order id to itself, and the id has no row yet.        *)
OrdersOwned ==
  /\ \A h \in Handlers : ~At(h, "idle") =>
       proc[h].order \in Orders /\ orders[proc[h].order] = NoOrder
  /\ \A g, h \in Handlers :
       g # h /\ ~At(g, "idle") /\ ~At(h, "idle") => proc[g].order # proc[h].order

(* A handler past the checks: its basket was acceptable when it was read.  *)
Accepted(h) == proc[h].pc \in {"insert", "decrement", "emit", "commit"}

HandlersSound ==
  \A h \in Handlers :
    /\ Accepted(h) => Basket(h) # NoOrder /\ Distinct(Basket(h)) /\ OneSeller(Basket(h))
    /\ proc[h].open => proc[h].pc \in {"decrement", "emit", "commit"}
    /\ proc[h].pc \in {"recheck", "place", "insert"} => proc[h].taken = 0
    /\ At(h, "decrement") => proc[h].taken < Len(Basket(h))
    /\ proc[h].pc \in {"emit", "commit"} => proc[h].taken = Len(Basket(h))
    /\ At(h, "commit") => proc[h].order \in announced

(* An open transaction holds the rows of the items it has taken, each with *)
(* a draft that takes the item's quantity from what is committed now; and  *)
(* no row is locked but for that.                                          *)
RowsLocked ==
  /\ \A h \in Handlers : proc[h].open =>
       \A i \in 1..proc[h].taken :
         /\ lock[Basket(h)[i].product] = h
         /\ listed[Basket(h)[i].product] = "listed"
         /\ draft[Basket(h)[i].product] = stock[Basket(h)[i].product] - Basket(h)[i].quantity
  /\ \A p \in Products, h \in Handlers : lock[p] = h =>
       proc[h].open /\ \E i \in 1..proc[h].taken : Basket(h)[i].product = p

(* Each of the handlers that may still take of p can take MaxQuantity of   *)
(* it; the others leave that much more above the bound, those whose        *)
(* quantity is negative and adds to the stock among them.                  *)
Asks(basket, p) == \E i \in 1..Len(basket) : basket[i].product = p
Takes(basket, p) == \E i \in 1..Len(basket) : basket[i].product = p /\ basket[i].quantity > 0
Takers(p) == {h \in Handlers : Accepted(h) /\ Takes(Basket(h), p)}
Others(p) == Handlers \ Takers(p)

OversellOwed ==
  \A p \in Products : stock[p] >= -(MaxQuantity * Cardinality(Others(p)))

IInv ==
  /\ TypeOK
  /\ OrdersOwned
  /\ HandlersSound
  /\ RowsLocked
  /\ CommittedIsAnnounced
  /\ OversellOwed

(***************************************************************************)
(* Baskets, and arithmetic of the bound.                                   *)
(***************************************************************************)
LEMMA BasketFacts ==
  ASSUME NEW b \in Baskets
  PROVE  /\ Len(b) \in 0..MaxItems
         /\ DOMAIN b = 1..Len(b)
         /\ \A i \in 1..Len(b) : b[i] \in Item
         /\ b # NoOrder => Len(b) > 0
<1>1. PICK n \in 0..MaxItems : b \in [1..n -> Item]
  BY DEF Baskets
<1>2. b \in Seq(Item)
  BY <1>1, ItemsAssumption
<1>3. Len(b) = n
  BY <1>1, <1>2, ItemsAssumption, LenProperties
<1>4. b # NoOrder => Len(b) > 0
  BY <1>2, EmptySeq DEF NoOrder
<1>5. QED
  BY <1>1, <1>3, <1>4

LEMMA NoOrderBasket == NoOrder \in Baskets
<1>1. NoOrder \in [1..0 -> Item]
  BY DEF NoOrder
<1>2. QED
  BY <1>1, ItemsAssumption DEF Baskets

(* What a basket takes of a product is what its one item of it asks for.   *)
LEMMA QuantityFacts ==
  ASSUME NEW b \in Baskets, NEW p \in Products, Distinct(b)
  PROVE  /\ Quantity(b, p) \in Int /\ Quantity(b, p) <= MaxQuantity
         /\ ~Takes(b, p) => Quantity(b, p) <= 0
         /\ \A i \in 1..Len(b) : b[i].product = p => Quantity(b, p) = b[i].quantity
         /\ ~Asks(b, p) => Quantity(b, p) = 0
<1>1. DOMAIN b = 1..Len(b) /\ \A i \in 1..Len(b) : b[i] \in Item
  BY BasketFacts
<1>2. CASE Asks(b, p)
  <2> DEFINE k == CHOOSE i \in DOMAIN b : b[i].product = p
  <2>1. k \in DOMAIN b /\ b[k].product = p
    BY <1>1, <1>2 DEF Asks
  <2>2. \A i \in DOMAIN b : b[i].product = p => i = k
    BY <2>1
  <2>3. Quantity(b, p) = b[k].quantity
    BY <2>1 DEF Quantity
  <2> HIDE DEF k
  <2>4. k \in 1..Len(b) /\ b[k].quantity \in Int /\ b[k].quantity <= MaxQuantity
    BY <1>1, <2>1, QuantityAssumption DEF Item
  <2>5. ~Takes(b, p) => Quantity(b, p) <= 0
    BY <2>1, <2>3, <2>4 DEF Takes
  <2>6. QED
    BY <1>1, <1>2, <2>2, <2>3, <2>4, <2>5
<1>3. CASE ~Asks(b, p)
  BY <1>1, <1>3, QuantityAssumption DEF Asks, Quantity
<1>4. QED
  BY <1>2, <1>3

(* The bound falls as handlers stop asking for a product, by MaxQuantity   *)
(* for each.                                                               *)
LEMMA TimesMonotone ==
  ASSUME NEW m \in Nat, NEW a \in Nat, NEW b \in Nat, a <= b
  PROVE  m * a <= m * b
OBVIOUS

LEMMA TimesSuccessor ==
  ASSUME NEW m \in Nat, NEW a \in Nat
  PROVE  m * (a + 1) = m * a + m
OBVIOUS

LEMMA HandlersFinite ==
  ASSUME NEW S \in SUBSET Handlers
  PROVE  IsFiniteSet(S) /\ Cardinality(S) \in Nat
BY HandlersAssumption, FS_Subset, FS_CardinalityType

LEMMA BoundBelowZero ==
  ASSUME NEW S \in SUBSET Handlers, NEW n \in Nat
  PROVE  n >= -(MaxQuantity * Cardinality(S))
<1>1. MaxQuantity * Cardinality(S) \in Nat
  BY HandlersFinite, QuantityAssumption
<1>2. QED
  BY <1>1

LEMMA BoundFalls ==
  ASSUME NEW S \in SUBSET Handlers, NEW T \in SUBSET Handlers, S \subseteq T,
         NEW n \in Int, n >= -(MaxQuantity * Cardinality(S))
  PROVE  n >= -(MaxQuantity * Cardinality(T))
<1>1. Cardinality(S) <= Cardinality(T)
  BY HandlersFinite, FS_Subset
<1>2. MaxQuantity * Cardinality(S) <= MaxQuantity * Cardinality(T)
  BY <1>1, HandlersFinite, QuantityAssumption, TimesMonotone
<1>3. MaxQuantity * Cardinality(S) \in Int /\ MaxQuantity * Cardinality(T) \in Int
  BY HandlersFinite, QuantityAssumption
<1>4. QED
  BY <1>2, <1>3

LEMMA BoundPays ==
  ASSUME NEW S \in SUBSET Handlers, NEW h \in Handlers \ S,
         NEW q \in Int, q <= MaxQuantity, NEW n \in Int, n >= -(MaxQuantity * Cardinality(S))
  PROVE  n - q >= -(MaxQuantity * Cardinality(S \union {h}))
<1>1. Cardinality(S \union {h}) = Cardinality(S) + 1
  BY HandlersFinite, FS_AddElement
<1>2. MaxQuantity * (Cardinality(S) + 1) = MaxQuantity * Cardinality(S) + MaxQuantity
  BY HandlersFinite, QuantityAssumption, TimesSuccessor
<1>3. MaxQuantity * Cardinality(S) \in Int /\ MaxQuantity \in Nat
  BY HandlersFinite, QuantityAssumption
<1>4. QED
  BY <1>1, <1>2, <1>3

(***************************************************************************)
(* The invariant holds at first, and no step breaks it.                    *)
(***************************************************************************)
LEMMA InitIInv == Init => IInv
<1> SUFFICES ASSUME Init PROVE IInv
  OBVIOUS
<1>1. TypeOK
  BY NoOrderBasket, ItemsAssumption
     DEF Init, LedgerInit, TypeOK, Idle, Handler, HandlerState, HandlerPCs
<1>2. OrdersOwned /\ HandlersSound /\ RowsLocked /\ CommittedIsAnnounced
  BY NoneAssumption
     DEF Init, LedgerInit, OrdersOwned, HandlersSound, RowsLocked,
         CommittedIsAnnounced, Accepted, At, Idle, Handler
<1>3. OversellOwed
  BY BoundBelowZero DEF Init, LedgerInit, OversellOwed, Others
<1>4. QED
  BY <1>1, <1>2, <1>3 DEF IInv

(* A step that keeps the stock and lets no handler in keeps the bound.     *)
LEMMA OversellKept ==
  ASSUME TypeOK, OversellOwed, stock' = stock,
         \A p \in Products : Takers(p)' \subseteq Takers(p)
  PROVE  OversellOwed'
<1>1. SUFFICES ASSUME NEW p \in Products
               PROVE  stock[p] >= -(MaxQuantity * Cardinality(Others(p)'))
  BY DEF OversellOwed
<1>2. Others(p) \subseteq Others(p)'
  BY DEF Others
<1>3. QED
  BY <1>2, BoundFalls DEF OversellOwed, TypeOK, Others

(* A product that a basket in stock takes has no less than it takes.       *)
LEMMA TakenIsInStock ==
  ASSUME TypeOK, NEW basket \in Baskets, InStock(basket),
         NEW p \in Products, Takes(basket, p)
  PROVE  stock[p] \in Nat
<1>1. PICK i \in 1..Len(basket) : basket[i].product = p /\ basket[i].quantity > 0
  BY DEF Takes
<1>2. i \in DOMAIN basket /\ basket[i] \in Item
  BY <1>1, BasketFacts
<1>3. basket[i].quantity \in Int
  BY <1>2, QuantityAssumption DEF Item
<1>4. stock[p] >= basket[i].quantity
  BY <1>1, <1>2 DEF InStock
<1>5. QED
  BY <1>1, <1>3, <1>4 DEF TypeOK

(* A handler with no open transaction, before and after, locks nothing.    *)
LEMMA RowsLockedKept ==
  ASSUME RowsLocked, UNCHANGED <<listed, stock, lock, draft>>,
         NEW h \in Handlers, ~proc[h].open, ~(proc[h].open)',
         \A g \in Handlers : g # h => proc'[g] = proc[g]
  PROVE  RowsLocked'
BY DEF RowsLocked, Basket

LEMMA PlaceOrderIInv ==
  ASSUME IInv, NEW h \in Handlers, NEW o \in Orders, NEW basket \in Baskets,
         PlaceOrder(h, o, basket)
  PROVE  IInv'
<1> DEFINE state == Handler("insert", o, basket)
<1>1. state \in HandlerState /\ state.pc = "insert" /\ state.order = o
        /\ state.basket = basket /\ state.taken = 0 /\ state.open = FALSE
  BY ItemsAssumption DEF Handler, HandlerState, HandlerPCs
<1>2. proc' = [proc EXCEPT ![h] = state]
  BY DEF PlaceOrder
<1> HIDE DEF state
<1>3. TypeOK'
  BY <1>1, <1>2 DEF IInv, PlaceOrder, TypeOK
<1>4. OrdersOwned'
  BY <1>1, <1>2 DEF IInv, PlaceOrder, FreshOrder, OrdersOwned, At
<1>5. HandlersSound'
  BY <1>1, <1>2
     DEF IInv, PlaceOrder, Acceptable, HandlersSound, Accepted, At, Basket
<1>6. RowsLocked'
  BY <1>1, <1>2, RowsLockedKept DEF IInv, PlaceOrder, HandlersSound, At
<1>7. CommittedIsAnnounced'
  BY DEF IInv, PlaceOrder, CommittedIsAnnounced
<1>8. OversellOwed'
  <2>1. SUFFICES ASSUME NEW p \in Products
                 PROVE  stock[p] >= -(MaxQuantity * Cardinality(Others(p)'))
    BY DEF PlaceOrder, OversellOwed
  <2>2. CASE Takes(basket, p)
    <3>1. stock[p] \in Nat
      BY <2>2, TakenIsInStock DEF PlaceOrder, Acceptable, IInv
    <3>2. QED
      BY <3>1, BoundBelowZero DEF Others
  <2>3. CASE ~Takes(basket, p)
    <3>1. Takers(p)' \subseteq Takers(p)
      BY <1>1, <1>2, <2>3 DEF Takers, Accepted, Basket
    <3>2. QED
      BY <3>1, BoundFalls DEF Others, IInv, OversellOwed, TypeOK
  <2>4. QED
    BY <2>2, <2>3
<1>9. QED
  BY <1>3, <1>4, <1>5, <1>6, <1>7, <1>8 DEF IInv

LEMMA ReorderReadIInv ==
  ASSUME IInv, NEW h \in Handlers, NEW o \in Orders, NEW earlier \in Orders,
         ReorderRead(h, o, earlier)
  PROVE  IInv'
<1> DEFINE state == Handler("recheck", o, orders[earlier])
<1>1. state \in HandlerState /\ state.pc = "recheck" /\ state.order = o
        /\ state.basket = orders[earlier] /\ state.taken = 0 /\ state.open = FALSE
  BY ItemsAssumption DEF Handler, HandlerState, HandlerPCs, IInv, TypeOK
<1>2. proc' = [proc EXCEPT ![h] = state]
  BY DEF ReorderRead
<1> HIDE DEF state
<1>3. TypeOK'
  BY <1>1, <1>2 DEF IInv, ReorderRead, TypeOK
<1>4. OrdersOwned'
  BY <1>1, <1>2 DEF IInv, ReorderRead, FreshOrder, OrdersOwned, At
<1>5. HandlersSound'
  BY <1>1, <1>2 DEF IInv, ReorderRead, HandlersSound, Accepted, At, Basket
<1>6. RowsLocked'
  BY <1>1, <1>2, RowsLockedKept DEF IInv, ReorderRead, HandlersSound, At
<1>7. CommittedIsAnnounced'
  BY DEF IInv, ReorderRead, CommittedIsAnnounced
<1>8. OversellOwed'
  <2>1. \A p \in Products : Takers(p)' \subseteq Takers(p)
    BY <1>1, <1>2 DEF Takers, Accepted, Basket
  <2>2. QED
    BY <2>1, OversellKept DEF ReorderRead, IInv
<1>9. QED
  BY <1>3, <1>4, <1>5, <1>6, <1>7, <1>8 DEF IInv

(* A request refused after its order was read again is over.               *)
LEMMA RefusedIInv ==
  ASSUME IInv, NEW h \in Handlers, proc[h].pc \in {"recheck", "place"},
         proc' = [proc EXCEPT ![h] = Idle],
         UNCHANGED <<listed, stock, orders, lock, draft, announced, supplied>>
  PROVE  IInv'
<1>1. Idle \in HandlerState /\ Idle.pc = "idle" /\ ~Idle.open
  BY NoOrderBasket, ItemsAssumption DEF Idle, Handler, HandlerState, HandlerPCs
<1>2. TypeOK'
  BY <1>1 DEF IInv, TypeOK
<1>3. OrdersOwned'
  BY <1>1 DEF IInv, OrdersOwned, At
<1>4. HandlersSound'
  BY <1>1 DEF IInv, HandlersSound, Accepted, At, Basket
<1>5. RowsLocked'
  BY <1>1, RowsLockedKept DEF IInv, HandlersSound
<1>6. CommittedIsAnnounced'
  BY DEF IInv, CommittedIsAnnounced
<1>7. OversellOwed'
  <2>1. \A p \in Products : Takers(p)' \subseteq Takers(p)
    BY <1>1 DEF Takers, Accepted, Basket
  <2>2. QED
    BY <2>1, OversellKept DEF IInv
<1>8. QED
  BY <1>2, <1>3, <1>4, <1>5, <1>6, <1>7 DEF IInv

LEMMA ReorderCheckIInv ==
  ASSUME IInv, NEW h \in Handlers, ReorderCheck(h)
  PROVE  IInv'
<1>1. CASE ~InStock(Basket(h))
  BY <1>1, RefusedIInv DEF ReorderCheck, At
<1>2. CASE InStock(Basket(h))
  <2> DEFINE state == [proc[h] EXCEPT !.pc = "place"]
  <2>1. state \in HandlerState /\ state.pc = "place" /\ state.order = proc[h].order
          /\ state.basket = proc[h].basket /\ state.open = proc[h].open
          /\ state.taken = proc[h].taken
    BY DEF IInv, TypeOK, HandlerState, HandlerPCs
  <2>2. proc' = [proc EXCEPT ![h] = state]
    BY <1>2 DEF ReorderCheck
  <2> HIDE DEF state
  <2>3. TypeOK'
    BY <2>1, <2>2 DEF IInv, ReorderCheck, TypeOK
  <2>4. OrdersOwned'
    BY <2>1, <2>2 DEF IInv, ReorderCheck, OrdersOwned, At
  <2>5. HandlersSound'
    BY <2>1, <2>2 DEF IInv, ReorderCheck, HandlersSound, Accepted, At, Basket
  <2>6. RowsLocked'
    BY <2>1, <2>2, RowsLockedKept DEF IInv, ReorderCheck, HandlersSound, At
  <2>7. CommittedIsAnnounced'
    BY DEF IInv, ReorderCheck, CommittedIsAnnounced
  <2>8. OversellOwed'
    <3>1. \A p \in Products : Takers(p)' \subseteq Takers(p)
      BY <2>1, <2>2 DEF Takers, Accepted, Basket
    <3>2. QED
      BY <3>1, OversellKept DEF ReorderCheck, IInv
  <2>9. QED
    BY <2>3, <2>4, <2>5, <2>6, <2>7, <2>8 DEF IInv
<1>3. QED
  BY <1>1, <1>2

LEMMA ReorderPlaceIInv ==
  ASSUME IInv, NEW h \in Handlers, ReorderPlace(h)
  PROVE  IInv'
<1>1. CASE ~Acceptable(Basket(h))
  BY <1>1, RefusedIInv DEF ReorderPlace, At
<1>2. CASE Acceptable(Basket(h))
  <2> DEFINE state == [proc[h] EXCEPT !.pc = "insert"]
  <2>1. state \in HandlerState /\ state.pc = "insert" /\ state.order = proc[h].order
          /\ state.basket = Basket(h) /\ state.open = proc[h].open
          /\ state.taken = proc[h].taken
    BY DEF IInv, TypeOK, HandlerState, HandlerPCs, Basket
  <2>2. proc' = [proc EXCEPT ![h] = state]
    BY <1>2 DEF ReorderPlace
  <2>3. Basket(h) \in Baskets
    BY DEF Basket, IInv, TypeOK, HandlerState
  <2> HIDE DEF state
  <2>4. TypeOK'
    BY <2>1, <2>2 DEF IInv, ReorderPlace, TypeOK
  <2>5. OrdersOwned'
    BY <2>1, <2>2 DEF IInv, ReorderPlace, OrdersOwned, At
  <2>6. HandlersSound'
    BY <1>2, <2>1, <2>2
       DEF IInv, ReorderPlace, Acceptable, HandlersSound, Accepted, At, Basket
  <2>7. RowsLocked'
    BY <2>1, <2>2, RowsLockedKept DEF IInv, ReorderPlace, HandlersSound, At
  <2>8. CommittedIsAnnounced'
    BY DEF IInv, ReorderPlace, CommittedIsAnnounced
  <2>9. OversellOwed'
    <3>1. SUFFICES ASSUME NEW p \in Products
                   PROVE  stock[p] >= -(MaxQuantity * Cardinality(Others(p)'))
      BY DEF ReorderPlace, OversellOwed
    <3>2. CASE Takes(Basket(h), p)
      <4>1. stock[p] \in Nat
        BY <1>2, <2>3, <3>2, TakenIsInStock DEF Acceptable, IInv
      <4>2. QED
        BY <4>1, BoundBelowZero DEF Others
    <3>3. CASE ~Takes(Basket(h), p)
      <4>1. Takers(p)' \subseteq Takers(p)
        BY <2>1, <2>2, <3>3 DEF Takers, Accepted, Basket
      <4>2. QED
        BY <4>1, BoundFalls DEF Others, IInv, OversellOwed, TypeOK
    <3>4. QED
      BY <3>2, <3>3
  <2>10. QED
    BY <2>4, <2>5, <2>6, <2>7, <2>8, <2>9 DEF IInv
<1>3. QED
  BY <1>1, <1>2

LEMMA InsertIInv ==
  ASSUME IInv, NEW h \in Handlers, Insert(h)
  PROVE  IInv'
<1> DEFINE state == [proc[h] EXCEPT !.pc = "decrement", !.open = TRUE]
<1>1. state \in HandlerState /\ state.pc = "decrement" /\ state.order = proc[h].order
        /\ state.basket = Basket(h) /\ state.open /\ state.taken = proc[h].taken
  BY DEF IInv, TypeOK, HandlerState, HandlerPCs, Basket
<1>2. proc' = [proc EXCEPT ![h] = state]
  BY DEF Insert
<1>3. /\ Basket(h) \in Baskets /\ Basket(h) # NoOrder
      /\ proc[h].taken = 0 /\ ~proc[h].open
  BY DEF Insert, At, Basket, IInv, TypeOK, HandlersSound, HandlerState, Accepted
<1>4. 0 < Len(Basket(h))
  BY <1>3, BasketFacts
<1> HIDE DEF state
<1>5. TypeOK'
  <2>1. proc \in [Handlers -> HandlerState] => proc' \in [Handlers -> HandlerState]
    BY <1>1, <1>2
  <2>2. TypeOK /\ UNCHANGED <<listed, stock, orders, lock, draft, announced, supplied>>
    BY DEF IInv, Insert
  <2>3. QED
    BY <2>1, <2>2 DEF TypeOK
<1>6. OrdersOwned'
  BY <1>1, <1>2 DEF IInv, Insert, TypeOK, OrdersOwned, At
<1>7. HandlersSound'
  BY <1>1, <1>2, <1>3, <1>4, SMTT(30) DEF IInv, Insert, TypeOK, HandlersSound, Accepted,
         At, Basket
<1>8. RowsLocked'
  <2>1. \A g \in Handlers \ {h} : proc'[g] = proc[g]
    BY <1>2 DEF IInv, TypeOK
  <2>2. proc'[h].open /\ proc'[h].taken = 0 /\ ~proc[h].open
    BY <1>1, <1>2, <1>3 DEF IInv, TypeOK
  <2>3. RowsLocked /\ UNCHANGED <<lock, listed, draft, stock>>
    BY DEF IInv, Insert
  <2>4. QED
    BY <2>1, <2>2, <2>3, SMTT(30) DEF RowsLocked, Basket
<1>9. CommittedIsAnnounced'
  BY DEF IInv, Insert, CommittedIsAnnounced
<1>10. OversellOwed'
  <2>1. \A p \in Products : Takers(p)' \subseteq Takers(p)
    BY <1>1, <1>2 DEF Insert, At, Takers, Accepted, Basket, IInv, TypeOK
  <2>2. QED
    BY <2>1, OversellKept DEF Insert, IInv
<1>11. QED
  BY <1>5, <1>6, <1>7, <1>8, <1>9, <1>10 DEF IInv

LEMMA EmitIInv ==
  ASSUME IInv, NEW h \in Handlers, Emit(h)
  PROVE  IInv'
<1> DEFINE state == [proc[h] EXCEPT !.pc = "commit"]
<1>1. state \in HandlerState /\ state.pc = "commit" /\ state.order = proc[h].order
        /\ state.basket = Basket(h) /\ state.open = proc[h].open
        /\ state.taken = proc[h].taken
  BY DEF IInv, TypeOK, HandlerState, HandlerPCs, Basket
<1>2. proc' = [proc EXCEPT ![h] = state]
  BY DEF Emit
<1>3. proc[h].order \in Orders /\ announced' = announced \union {proc[h].order}
  BY DEF Emit, At, IInv, OrdersOwned
<1> HIDE DEF state
<1>4. TypeOK'
  BY <1>1, <1>2, <1>3 DEF IInv, Emit, TypeOK
<1>5. OrdersOwned'
  BY <1>1, <1>2 DEF IInv, Emit, OrdersOwned, At
<1>6. HandlersSound'
  BY <1>1, <1>2, <1>3 DEF IInv, Emit, HandlersSound, Accepted, At, Basket
<1>7. RowsLocked'
  <2>1. \A g \in Handlers : /\ proc'[g].open = proc[g].open /\ proc'[g].taken = proc[g].taken
                            /\ Basket(g)' = Basket(g)
    BY <1>1, <1>2 DEF IInv, TypeOK, Basket
  <2>2. RowsLocked /\ UNCHANGED <<lock, listed, draft, stock>>
    BY DEF IInv, Emit
  <2>3. QED
    BY <2>1, <2>2, SMTT(30) DEF RowsLocked
<1>8. CommittedIsAnnounced'
  BY <1>3 DEF IInv, Emit, CommittedIsAnnounced
<1>9. OversellOwed'
  <2>1. \A p \in Products : Takers(p)' \subseteq Takers(p)
    BY <1>1, <1>2 DEF Emit, At, Takers, Accepted, Basket
  <2>2. QED
    BY <2>1, OversellKept DEF Emit, IInv
<1>10. QED
  BY <1>4, <1>5, <1>6, <1>7, <1>8, <1>9 DEF IInv

(* The items a handler has taken are items of its basket.                  *)
LEMMA TakenItems ==
  ASSUME IInv, NEW h \in Handlers, proc[h].open, NEW i \in 1..proc[h].taken
  PROVE  /\ i \in 1..Len(Basket(h))
         /\ Basket(h)[i] \in Item
         /\ Basket(h)[i].product \in Products
         /\ Basket(h)[i].quantity \in Int
<1>1. Basket(h) \in Baskets /\ proc[h].taken \in Nat
  BY ItemsAssumption DEF IInv, TypeOK, HandlerState, Basket
<1>2. proc[h].taken <= Len(Basket(h)) /\ Len(Basket(h)) \in Nat
  BY <1>1, BasketFacts, ItemsAssumption DEF IInv, HandlersSound, At
<1>3. i \in 1..Len(Basket(h))
  BY <1>1, <1>2
<1>4. Basket(h)[i] \in Item
  BY <1>1, <1>3, BasketFacts
<1>5. QED
  BY <1>3, <1>4, QuantityAssumption DEF Item

LEMMA DecrementIInv ==
  ASSUME IInv, NEW h \in Handlers, Decrement(h)
  PROVE  IInv'
<1> DEFINE n == proc[h].taken + 1
           p == Basket(h)[n].product
<1>1. /\ proc[h].pc = "decrement" /\ proc[h].open
      /\ proc[h].taken \in Nat /\ proc[h].taken < Len(Basket(h))
      /\ Basket(h) \in Baskets /\ Basket(h) # NoOrder /\ Distinct(Basket(h))
  BY ItemsAssumption
     DEF Decrement, Accepted, IInv, TypeOK, HandlersSound, HandlerState, Basket
<1>2. /\ n \in 1..Len(Basket(h)) /\ n \in 0..MaxItems
      /\ DOMAIN Basket(h) = 1..Len(Basket(h))
      /\ Basket(h)[n] \in Item
  BY <1>1, BasketFacts, ItemsAssumption
<1>3. p \in Products /\ Basket(h)[n].quantity \in Int
  BY <1>2, QuantityAssumption DEF Item
<1>4. /\ listed[p] = "listed" /\ lock[p] = None
      /\ lock' = [lock EXCEPT ![p] = h]
      /\ draft' = [draft EXCEPT ![p] = stock[p] - Basket(h)[n].quantity]
      /\ UNCHANGED <<listed, stock, orders, announced, supplied>>
  BY DEF Decrement, NextItem
<1>5. /\ Taken(h) \in HandlerState /\ Taken(h).order = proc[h].order
      /\ Taken(h).basket = Basket(h) /\ Taken(h).open /\ Taken(h).taken = n
      /\ Taken(h).pc = IF n = Len(Basket(h)) THEN "emit" ELSE "decrement"
  BY <1>1, <1>2 DEF Taken, IInv, TypeOK, HandlerState, HandlerPCs, Basket
<1>6. proc' = [proc EXCEPT ![h] = Taken(h)]
  BY DEF Decrement
<1> HIDE DEF n, p
<1>7. TypeOK'
  BY <1>3, <1>4, <1>5, <1>6, QuantityAssumption DEF IInv, TypeOK
<1>8. OrdersOwned'
  BY <1>1, <1>4, <1>5, <1>6 DEF IInv, OrdersOwned, At
<1>9. HandlersSound'
  BY <1>1, <1>2, <1>4, <1>5, <1>6, BasketFacts, ItemsAssumption
     DEF IInv, HandlersSound, Accepted, At, Basket
<1>10. RowsLocked'
  <2>1. ASSUME NEW g \in Handlers, (proc[g].open)', NEW i \in 1..(proc[g].taken)'
        PROVE  LET q == (Basket(g)[i].product)' IN
                 lock'[q] = g /\ listed'[q] = "listed"
                   /\ draft'[q] = stock'[q] - (Basket(g)[i].quantity)'
    <3>1. CASE g = h /\ i = n
      BY <1>3, <1>4, <1>5, <1>6, <3>1 DEF IInv, TypeOK, Basket, p
    <3>2. CASE g # h \/ i # n
      <4>1. proc[g].open /\ Basket(g)' = Basket(g) /\ i \in 1..proc[g].taken
        BY <1>1, <1>5, <1>6, <2>1, <3>2 DEF Basket, n
      <4>2. Basket(g)[i].product \in Products /\ lock[Basket(g)[i].product] = g
        BY <4>1, TakenItems DEF IInv, RowsLocked
      <4>3. Basket(g)[i].product # p
        BY <1>4, <4>2, NoneAssumption
      <4>4. QED
        BY <1>4, <4>1, <4>2, <4>3 DEF IInv, RowsLocked
    <3>3. QED
      BY <3>1, <3>2
  <2>2. ASSUME NEW q \in Products, NEW g \in Handlers, lock'[q] = g
        PROVE  (proc[g].open)' /\ \E i \in 1..(proc[g].taken)' : (Basket(g)[i].product)' = q
    <3>1. CASE q = p
      <4>1. g = h
        BY <1>3, <1>4, <2>2, <3>1 DEF IInv, TypeOK
      <4>2. n \in 1..n
        BY <1>2
      <4>3. QED
        BY <1>5, <1>6, <3>1, <4>1, <4>2 DEF IInv, TypeOK, Basket, p
    <3>2. CASE q # p
      <4>1. proc[g].open /\ \E i \in 1..proc[g].taken : Basket(g)[i].product = q
        BY <1>4, <2>2, <3>2 DEF IInv, RowsLocked
      <4>2. 1..proc[g].taken \subseteq 1..(proc[g].taken)'
        BY <1>1, <1>5, <1>6 DEF n
      <4>3. (proc[g].open)' /\ Basket(g)' = Basket(g)
        BY <1>5, <1>6, <4>1 DEF Basket
      <4>4. QED
        BY <4>1, <4>2, <4>3
    <3>3. QED
      BY <3>1, <3>2
  <2>3. QED
    BY <2>1, <2>2 DEF RowsLocked
<1>11. CommittedIsAnnounced'
  BY <1>4 DEF IInv, CommittedIsAnnounced
<1>12. OversellOwed'
  <2>1. \A q \in Products : Takers(q)' \subseteq Takers(q)
    BY <1>1, <1>5, <1>6 DEF Takers, Accepted, Basket
  <2>2. QED
    BY <1>4, <2>1, OversellKept DEF IInv
<1>13. QED
  BY <1>7, <1>8, <1>9, <1>10, <1>11, <1>12 DEF IInv

(* Rows that a transaction gives back are locked by nobody; the others     *)
(* keep their locks and, if it changed no other row, their drafts.         *)
LEMMA RowsGivenBack ==
  ASSUME IInv, NEW h \in Handlers, Unlock(h), UNCHANGED listed,
         ~(proc[h].open)', \A g \in Handlers : g # h => proc'[g] = proc[g],
         \A p \in Products : lock[p] # h => stock'[p] = stock[p]
  PROVE  RowsLocked'
<1>1. ASSUME NEW g \in Handlers, (proc[g].open)', NEW i \in 1..(proc[g].taken)'
      PROVE  LET q == (Basket(g)[i].product)' IN
               lock'[q] = g /\ listed'[q] = "listed"
                 /\ draft'[q] = stock'[q] - (Basket(g)[i].quantity)'
  <2>1. g # h /\ proc[g].open /\ Basket(g)' = Basket(g) /\ i \in 1..proc[g].taken
    BY <1>1 DEF Basket
  <2>2. Basket(g)[i].product \in Products /\ lock[Basket(g)[i].product] = g
    BY <2>1, TakenItems DEF IInv, RowsLocked
  <2>3. QED
    BY <2>1, <2>2 DEF IInv, RowsLocked, Unlock
<1>2. ASSUME NEW q \in Products, NEW g \in Handlers, lock'[q] = g
      PROVE  (proc[g].open)' /\ \E i \in 1..(proc[g].taken)' : (Basket(g)[i].product)' = q
  <2>1. g # h /\ lock[q] = g
    BY <1>2, NoneAssumption DEF Unlock
  <2>2. QED
    BY <2>1 DEF IInv, RowsLocked, Basket
<1>3. QED
  BY <1>1, <1>2 DEF RowsLocked

LEMMA FailIInv ==
  ASSUME IInv, NEW h \in Handlers, Fail(h)
  PROVE  IInv'
<1>1. Idle \in HandlerState /\ Idle.pc = "idle" /\ ~Idle.open
  BY NoOrderBasket, ItemsAssumption DEF Idle, Handler, HandlerState, HandlerPCs
<1>2. TypeOK'
  BY <1>1 DEF IInv, Fail, Unlock, TypeOK
<1>3. OrdersOwned'
  BY <1>1 DEF IInv, Fail, OrdersOwned, At
<1>4. HandlersSound'
  BY <1>1 DEF IInv, Fail, HandlersSound, Accepted, At, Basket
<1>5. RowsLocked'
  BY <1>1, RowsGivenBack DEF IInv, Fail, TypeOK
<1>6. CommittedIsAnnounced'
  BY DEF IInv, Fail, CommittedIsAnnounced
<1>7. OversellOwed'
  <2>1. \A p \in Products : Takers(p)' \subseteq Takers(p)
    BY <1>1 DEF Fail, Takers, Accepted, Basket
  <2>2. QED
    BY <2>1, OversellKept DEF Fail, IInv
<1>8. QED
  BY <1>2, <1>3, <1>4, <1>5, <1>6, <1>7 DEF IInv

LEMMA TimeoutIInv ==
  ASSUME IInv, NEW h \in Handlers, Timeout(h)
  PROVE  IInv'
<1> DEFINE state == [proc[h] EXCEPT !.open = FALSE]
<1>1. state \in HandlerState /\ state.pc = proc[h].pc /\ state.order = proc[h].order
        /\ state.basket = Basket(h) /\ ~state.open /\ state.taken = proc[h].taken
  BY DEF IInv, TypeOK, HandlerState, Basket
<1>2. proc' = [proc EXCEPT ![h] = state]
  BY DEF Timeout
<1> HIDE DEF state
<1>3. TypeOK'
  <2>1. lock' \in [Products -> Handlers \union {None}] /\ draft' \in [Products -> Int]
    BY DEF IInv, Timeout, Unlock, TypeOK
  <2>2. \A p \in Products : listed[p] # "listed" => stock[p] = 0 /\ lock'[p] = None
    BY DEF IInv, Timeout, Unlock, TypeOK
  <2>3. QED
    BY <1>1, <1>2, <2>1, <2>2 DEF IInv, Timeout, TypeOK
<1>4. OrdersOwned'
  BY <1>1, <1>2 DEF IInv, Timeout, OrdersOwned, At
<1>5. HandlersSound'
  BY <1>1, <1>2 DEF IInv, Timeout, HandlersSound, Accepted, At, Basket
<1>6. RowsLocked'
  BY <1>1, <1>2, RowsGivenBack DEF IInv, Timeout, TypeOK
<1>7. CommittedIsAnnounced'
  BY DEF IInv, Timeout, CommittedIsAnnounced
<1>8. OversellOwed'
  <2>1. \A p \in Products : Takers(p)' \subseteq Takers(p)
    BY <1>1, <1>2 DEF Takers, Accepted, Basket
  <2>2. QED
    BY <2>1, OversellKept DEF Timeout, IInv
<1>9. QED
  BY <1>3, <1>4, <1>5, <1>6, <1>7, <1>8 DEF IInv

(* A commit takes from each product what the basket asks of it.            *)
LEMMA CommitTakes ==
  ASSUME IInv, NEW h \in Handlers, Commit(h)
  PROVE  /\ stock' = [p \in Products |-> stock[p] - Quantity(Basket(h), p)]
         /\ \A p \in Products : lock[p] = h <=> Asks(Basket(h), p)
         /\ \A p \in Products : lock[p] = h => listed[p] = "listed"
<1>1. /\ proc[h].open /\ proc[h].taken = Len(Basket(h))
      /\ Basket(h) \in Baskets /\ Distinct(Basket(h))
  BY DEF Commit, At, Accepted, IInv, TypeOK, HandlersSound, HandlerState, Basket
<1>2. stock' = [p \in Products |-> IF lock[p] = h THEN draft[p] ELSE stock[p]]
  BY DEF Commit
<1>3. ASSUME NEW p \in Products
      PROVE  /\ (IF lock[p] = h THEN draft[p] ELSE stock[p]) = stock[p] - Quantity(Basket(h), p)
             /\ lock[p] = h <=> Asks(Basket(h), p)
             /\ lock[p] = h => listed[p] = "listed"
  <2>1. CASE Asks(Basket(h), p)
    <3>1. PICK i \in 1..Len(Basket(h)) : Basket(h)[i].product = p
      BY <2>1 DEF Asks
    <3>2. lock[p] = h /\ listed[p] = "listed"
            /\ draft[p] = stock[p] - Basket(h)[i].quantity
      BY <1>1, <3>1 DEF IInv, RowsLocked
    <3>3. Quantity(Basket(h), p) = Basket(h)[i].quantity
      BY <1>1, <3>1, QuantityFacts
    <3>4. QED
      BY <2>1, <3>2, <3>3
  <2>2. CASE ~Asks(Basket(h), p)
    <3>1. lock[p] # h
      BY <1>1, <2>2 DEF IInv, RowsLocked, Asks
    <3>2. Quantity(Basket(h), p) = 0 /\ stock[p] \in Int
      BY <1>1, <2>2, QuantityFacts DEF IInv, TypeOK
    <3>3. QED
      BY <2>2, <3>1, <3>2
  <2>3. QED
    BY <2>1, <2>2
<1>4. QED
  BY <1>2, <1>3

LEMMA CommitIInv ==
  ASSUME IInv, NEW h \in Handlers, Commit(h)
  PROVE  IInv'
<1>1. Idle \in HandlerState /\ Idle.pc = "idle" /\ ~Idle.open
  BY NoOrderBasket, ItemsAssumption DEF Idle, Handler, HandlerState, HandlerPCs
<1>2. /\ Basket(h) \in Baskets /\ Distinct(Basket(h)) /\ Accepted(h)
      /\ proc[h].order \in Orders /\ proc[h].order \in announced
  BY DEF Commit, Accepted, IInv, TypeOK, HandlersSound, HandlerState, Basket
<1>3. \A p \in Products : Quantity(Basket(h), p) \in Int /\ Quantity(Basket(h), p) <= MaxQuantity
  BY <1>2, QuantityFacts
<1>4. TypeOK'
  <2>1. stock' \in [Products -> Int]
    BY <1>3, CommitTakes, QuantityAssumption DEF IInv, TypeOK
  <2>2. /\ lock' \in [Products -> Handlers \union {None}]
        /\ draft' \in [Products -> Int]
        /\ orders' \in [Orders -> Baskets]
    BY <1>2 DEF IInv, Commit, Unlock, TypeOK
  <2>3. \A p \in Products : listed[p] # "listed" => stock'[p] = 0 /\ lock'[p] = None
    BY NoneAssumption DEF IInv, Commit, Unlock, TypeOK
  <2>4. QED
    BY <1>1, <2>1, <2>2, <2>3 DEF IInv, Commit, TypeOK
<1>5. OrdersOwned'
  BY <1>1 DEF IInv, Commit, TypeOK, OrdersOwned, At
<1>6. HandlersSound'
  BY <1>1 DEF IInv, Commit, HandlersSound, Accepted, At, Basket
<1>7. RowsLocked'
  BY <1>1, RowsGivenBack DEF IInv, Commit, TypeOK
<1>8. CommittedIsAnnounced'
  BY <1>2 DEF IInv, Commit, CommittedIsAnnounced
<1>9. OversellOwed'
  <2>1. SUFFICES ASSUME NEW p \in Products
                 PROVE  stock'[p] >= -(MaxQuantity * Cardinality(Others(p)'))
    BY DEF OversellOwed
  <2>2. stock[p] \in Int /\ stock[p] >= -(MaxQuantity * Cardinality(Others(p)))
    BY DEF IInv, TypeOK, OversellOwed
  <2>3. CASE Takes(Basket(h), p)
    <3>1. stock'[p] = stock[p] - Quantity(Basket(h), p)
      BY CommitTakes
    <3>2. h \notin Others(p) /\ Others(p)' = Others(p) \union {h}
      BY <1>1, <1>2, <2>3 DEF Commit, Others, Takers, Accepted, Basket, IInv,
             TypeOK
    <3>3. Others(p) \in SUBSET Handlers /\ h \in Handlers \ Others(p)
            /\ Quantity(Basket(h), p) \in Int /\ Quantity(Basket(h), p) <= MaxQuantity
      BY <1>3, <3>2 DEF Others
    <3>4. stock[p] - Quantity(Basket(h), p)
            >= -(MaxQuantity * Cardinality(Others(p) \union {h}))
      BY <2>2, <3>3, BoundPays
    <3>5. QED
      BY <3>1, <3>2, <3>4
  <2>4. CASE ~Takes(Basket(h), p)
    <3>1. stock'[p] = stock[p] - Quantity(Basket(h), p) /\ Quantity(Basket(h), p) <= 0
      BY <1>2, <2>4, CommitTakes, QuantityFacts
    <3>2. Takers(p)' \subseteq Takers(p)
      BY <1>1 DEF Commit, Takers, Accepted, Basket
    <3>3. stock'[p] \in Int /\ stock'[p] >= -(MaxQuantity * Cardinality(Others(p)))
      <4>1. MaxQuantity * Cardinality(Others(p)) \in Int
        BY HandlersFinite, QuantityAssumption DEF Others
      <4>2. QED
        BY <1>3, <2>2, <3>1, <4>1
    <3>4. QED
      BY <3>2, <3>3, BoundFalls DEF Others
  <2>5. QED
    BY <2>3, <2>4
<1>10. QED
  BY <1>4, <1>5, <1>6, <1>7, <1>8, <1>9 DEF IInv

(* The tenant writes only rows that nobody has locked.                     *)
LEMMA TenantIInv ==
  ASSUME IInv, NEW p \in Products, Tenant(p)
  PROVE  IInv'
<1>1. UNCHANGED <<orders, lock, draft, announced, proc>>
  BY DEF Tenant, DeleteProduct, CreateProduct, PatchStock
<1>2. /\ \A q \in Products : q # p => stock'[q] = stock[q] /\ listed'[q] = listed[q]
      /\ stock'[p] \in Nat
      /\ stock' \in [Products -> Int]
      /\ listed' \in [Products -> {"new", "listed", "deleted"}]
      /\ supplied' \in [Products -> Int]
  BY LevelsAssumption DEF Tenant, DeleteProduct, CreateProduct, PatchStock,
         IInv, TypeOK
<1>3. \A h \in Handlers : lock[p] # h
  BY NoneAssumption DEF Tenant, DeleteProduct, CreateProduct, PatchStock, IInv,
         RowsLocked
<1>4. TypeOK'
  <2>1. listed[p] # "deleted" /\ lock[p] = None
    BY DEF Tenant, DeleteProduct, CreateProduct, PatchStock, IInv, TypeOK
  <2>2. listed'[p] = "listed" \/ stock'[p] = 0
    BY <2>1 DEF Tenant, DeleteProduct, CreateProduct, PatchStock, IInv, TypeOK
  <2>3. QED
    BY <1>1, <1>2, <2>1, <2>2 DEF IInv, TypeOK
<1>5. OrdersOwned' /\ HandlersSound' /\ CommittedIsAnnounced'
  BY <1>1 DEF IInv, OrdersOwned, HandlersSound, CommittedIsAnnounced, Accepted,
         At, Basket
<1>6. RowsLocked'
  <2>1. ASSUME NEW h \in Handlers, proc[h].open, NEW i \in 1..proc[h].taken
        PROVE  Basket(h)[i].product \in Products /\ Basket(h)[i].product # p
    BY <1>3, <2>1, TakenItems DEF IInv, RowsLocked
  <2>2. QED
    BY <1>1, <1>2, <2>1 DEF IInv, RowsLocked, Basket
<1>7. OversellOwed'
  <2>1. ASSUME NEW q \in Products
        PROVE  Others(q)' = Others(q) /\ Others(q) \in SUBSET Handlers
    BY <1>1 DEF Others, Takers, Accepted, Basket
  <2>2. QED
    BY <1>2, <2>1, BoundBelowZero DEF IInv, OversellOwed
<1>8. QED
  BY <1>4, <1>5, <1>6, <1>7 DEF IInv

LEMMA NextIInv == IInv /\ [Next]_vars => IInv'
<1> SUFFICES ASSUME IInv, [Next]_vars PROVE IInv'
  OBVIOUS
<1>1. ASSUME NEW h \in Handlers, Request(h)
      PROVE  IInv'
  <2>1. PICK o \in Orders :
          \/ \E basket \in Baskets : PlaceOrder(h, o, basket)
          \/ \E earlier \in Orders : ReorderRead(h, o, earlier)
    BY <1>1 DEF Request
  <2>2. QED
    BY <2>1, PlaceOrderIInv, ReorderReadIInv
<1>2. ASSUME NEW h \in Handlers, HandlerStep(h)
      PROVE  IInv'
  BY <1>2, ReorderCheckIInv, ReorderPlaceIInv, InsertIInv, EmitIInv, CommitIInv, FailIInv
     DEF HandlerStep, Throw
<1>3. ASSUME NEW h \in Handlers, Decrement(h) \/ Fail(h) \/ Timeout(h)
      PROVE  IInv'
  BY <1>3, DecrementIInv, FailIInv, TimeoutIInv
<1>4. ASSUME NEW p \in Products, Tenant(p)
      PROVE  IInv'
  BY <1>4, TenantIInv
<1>5. CASE UNCHANGED vars
  <2>1. TypeOK' /\ OrdersOwned'
    BY <1>5 DEF vars, IInv, TypeOK, OrdersOwned, At
  <2>2. HandlersSound' /\ RowsLocked' /\ CommittedIsAnnounced'
    BY <1>5 DEF vars, IInv, HandlersSound, RowsLocked, CommittedIsAnnounced,
           Accepted, At, Basket
  <2>3. OversellOwed'
    BY <1>5, OversellKept DEF vars, IInv, Takers, Accepted, Basket
  <2>4. QED
    BY <2>1, <2>2, <2>3 DEF IInv
<1>6. QED
  BY <1>1, <1>2, <1>3, <1>4, <1>5 DEF Next

LEMMA IInvHolds == Spec => []IInv
BY InitIInv, NextIInv, PTL DEF Spec

(***************************************************************************)
(* The invariants.                                                         *)
(***************************************************************************)

(* Every variable keeps its type.                                          *)
THEOREM TypeCorrect == Spec => []TypeOK
<1>1. IInv => TypeOK
  BY DEF IInv
<1>2. QED
  BY <1>1, IInvHolds, PTL

(* An order in the database has its confirmation queued.                   *)
THEOREM CommittedAnnounced == Spec => []CommittedIsAnnounced
<1>1. IInv => CommittedIsAnnounced
  BY DEF IInv
<1>2. QED
  BY <1>1, IInvHolds, PTL

(* createOrder oversells by no more than the handlers can take at once,    *)
(* however many orders are placed.                                         *)
THEOREM OversellLimited == Spec => []OversellBounded
<1>1. IInv => OversellBounded
  <2> SUFFICES ASSUME IInv, NEW p \in Products
               PROVE  stock[p] >= -(MaxQuantity * Cardinality(Handlers))
    BY DEF OversellBounded
  <2>1. stock[p] \in Int /\ stock[p] >= -(MaxQuantity * Cardinality(Others(p)))
    BY DEF IInv, TypeOK, OversellOwed
  <2>2. Others(p) \subseteq Handlers
    BY DEF Others
  <2>3. QED
    BY <2>1, <2>2, BoundFalls
<1>2. QED
  BY <1>1, IInvHolds, PTL

(***************************************************************************)
(* The refinement: a commit is a sale, the tenant's writes are the         *)
(* ledger's, and the other steps leave the tables alone.                   *)
(***************************************************************************)
LEMMA CommitIsSale ==
  ASSUME IInv, NEW h \in Handlers, Commit(h)
  PROVE  Sell(proc[h].order, Basket(h))
<1>1. /\ Basket(h) \in Baskets /\ Basket(h) # NoOrder
      /\ Distinct(Basket(h)) /\ OneSeller(Basket(h))
      /\ orders[proc[h].order] = NoOrder
  BY DEF Commit, At, Accepted, IInv, TypeOK, OrdersOwned, HandlersSound,
         HandlerState, Basket
<1>2. ASSUME NEW i \in DOMAIN Basket(h)
      PROVE  listed[Basket(h)[i].product] = "listed"
  <2>1. i \in 1..Len(Basket(h)) /\ Basket(h)[i] \in Item
    BY <1>1, BasketFacts
  <2>2. Basket(h)[i].product \in Products /\ Asks(Basket(h), Basket(h)[i].product)
    BY <2>1 DEF Item, Asks
  <2>3. QED
    BY <2>2, CommitTakes
<1>3. stock' = [p \in Products |-> stock[p] - Quantity(Basket(h), p)]
  BY CommitTakes
<1>4. QED
  BY <1>1, <1>2, <1>3 DEF Sell, Commit

LEMMA LedgerStep == IInv /\ [Next]_vars => [LedgerNext]_ledgerVars
<1> SUFFICES ASSUME IInv, [Next]_vars PROVE [LedgerNext]_ledgerVars
  OBVIOUS
<1>1. ASSUME NEW h \in Handlers, Commit(h)
      PROVE  LedgerNext
  <2>1. Basket(h) \in Baskets /\ proc[h].order \in Orders
    BY <1>1 DEF Commit, At, IInv, TypeOK, OrdersOwned, HandlerState, Basket
  <2>2. QED
    BY <1>1, <2>1, CommitIsSale DEF LedgerNext
<1>2. ASSUME NEW p \in Products, Tenant(p)
      PROVE  LedgerNext
  <2>1. CASE DeleteProduct(p)
    BY <2>1 DEF DeleteProduct, Delist, LedgerNext
  <2>2. ASSUME NEW n \in Levels, CreateProduct(p, n)
        PROVE  LedgerNext
    BY <2>2 DEF CreateProduct, Stock, LedgerNext
  <2>3. ASSUME NEW n \in Levels, PatchStock(p, n)
        PROVE  LedgerNext
    <3>1. listed' = [listed EXCEPT ![p] = "listed"]
      BY <2>3 DEF PatchStock, IInv, TypeOK
    <3>2. QED
      BY <2>3, <3>1 DEF PatchStock, Stock, LedgerNext
  <2>4. QED
    BY <1>2, <2>1, <2>2, <2>3 DEF Tenant
<1>3. ASSUME NEW h \in Handlers,
             \/ Request(h) \/ ReorderCheck(h) \/ ReorderPlace(h) \/ Insert(h)
             \/ Decrement(h) \/ Emit(h) \/ Throw(h) \/ Fail(h) \/ Timeout(h)
      PROVE  UNCHANGED ledgerVars
  BY <1>3
     DEF Request, PlaceOrder, ReorderRead, ReorderCheck, ReorderPlace, Insert,
         Decrement, Emit, Throw, Fail, Timeout, ledgerVars
<1>4. CASE UNCHANGED vars
  BY <1>4 DEF vars, ledgerVars
<1>5. QED
  BY <1>1, <1>2, <1>3, <1>4 DEF Next, HandlerStep

(* Orders and the stock they take appear in one step, whatever the         *)
(* handlers, failures and timeouts do in between.                          *)
THEOREM InventoryKeepsLedger == Spec => KeepsLedger
<1>1. Init => LedgerInit
  BY DEF Init
<1>2. QED
  BY <1>1, LedgerStep, IInvHolds, PTL DEF Spec, KeepsLedger, LedgerSpec

(***************************************************************************)
(* Nothing is lost: the stock of a product and the units its orders took   *)
(* add up to what the tenant supplied.                                     *)
(***************************************************************************)
Asked(p) == [o \in Orders |-> Quantity(orders[o], p)]
Gave(p) == [o \in Orders |-> -Quantity(orders[o], p)]

(* The orders' units can be counted, and a product that was never listed   *)
(* is in none of them.                                                     *)
CInv ==
  /\ StockConserved
  /\ \A p \in Products :
       /\ IsFiniteSet(Units(Asked(p))) /\ IsFiniteSet(Units(Gave(p)))
       /\ listed[p] = "new" => \A o \in Orders : Quantity(orders[o], p) = 0

LEMMA QuantityInt ==
  ASSUME NEW b \in Baskets, NEW p
  PROVE  Quantity(b, p) \in Int
<1>1. \A i \in DOMAIN b : b[i].quantity \in Int
  BY BasketFacts, QuantityAssumption DEF Item
<1>2. QED
  BY <1>1 DEF Quantity

LEMMA SoldIs == \A p : Sold(p) = Cardinality(Units(Asked(p))) - Cardinality(Units(Gave(p)))
BY DEF Sold, Asked, Gave

LEMMA AskedPrimed ==
  \A p : /\ Asked(p)' = [o \in Orders |-> Quantity(orders'[o], p)]
         /\ Gave(p)' = [o \in Orders |-> -Quantity(orders'[o], p)]
BY DEF Asked, Gave, Quantity

LEMMA SoldPrimed ==
  \A p : Sold(p)' = Cardinality(Units(Asked(p)')) - Cardinality(Units(Gave(p)'))
BY DEF Sold, Asked, Gave, Units, Quantity

(* The units of one more order.                                            *)
Grows(f, g, o, n) == f[o] = 0 /\ g = [f EXCEPT ![o] = n]

LEMMA UnitsAdded ==
  ASSUME NEW f \in [Orders -> Int], IsFiniteSet(Units(f)), NEW o \in Orders,
         NEW n \in Int, NEW g, Grows(f, g, o, n)
  PROVE  /\ IsFiniteSet(Units(g))
         /\ Cardinality(Units(g)) = Cardinality(Units(f)) + (IF n > 0 THEN n ELSE 0)
<1> DEFINE own == {o} \X (1..n)
<1>1. Units(g) = Units(f) \union own
  <2>1. g[o] = n /\ \A q \in Orders \ {o} : g[q] = f[q]
    BY DEF Grows
  <2>2. {o} \X (1..f[o]) = {}
    BY DEF Grows
  <2>3. \A x : x \in Units(g) <=> \E q \in Orders : x \in {q} \X (1..g[q])
    BY DEF Units
  <2>4. \A x : x \in Units(f) <=> \E q \in Orders : x \in {q} \X (1..f[q])
    BY DEF Units
  <2>5. \A x : x \in Units(g) <=> x \in Units(f) \/ x \in own
    BY <2>1, <2>2, <2>3, <2>4
  <2>6. QED
    BY <2>5
<1>2. Units(f) \intersect own = {}
  <2>1. \A q \in Orders : ({q} \X (1..f[q])) \intersect own = {}
    <3>1. {o} \X (1..f[o]) = {}
      BY DEF Grows
    <3>2. \A q \in Orders \ {o} : ({q} \X (1..f[q])) \intersect own = {}
      OBVIOUS
    <3>3. QED
      BY <3>1, <3>2
  <2>2. QED
    BY <2>1 DEF Units
<1>3. IsFiniteSet(1..n) /\ Cardinality(1..n) = IF n > 0 THEN n ELSE 0
  <2>1. IsFiniteSet(1..n) /\ Cardinality(1..n) = IF 1 > n THEN 0 ELSE n - 1 + 1
    BY FS_Interval
  <2>2. (IF 1 > n THEN 0 ELSE n - 1 + 1) = IF n > 0 THEN n ELSE 0
    OBVIOUS
  <2>3. QED
    BY <2>1, <2>2
<1>4. IsFiniteSet({o}) /\ Cardinality({o}) = 1
  BY FS_Singleton
<1>5. IsFiniteSet(own) /\ Cardinality(own) = Cardinality({o}) * Cardinality(1..n)
  BY <1>3, <1>4, FS_Product
<1>6. Cardinality(own) = IF n > 0 THEN n ELSE 0
  BY <1>3, <1>4, <1>5
<1> HIDE DEF own
<1>7. /\ IsFiniteSet(Units(g))
      /\ Cardinality(Units(g))
           = Cardinality(Units(f)) + Cardinality(own) - Cardinality(Units(f) \intersect own)
  BY <1>1, <1>5, FS_Union
<1>8. Cardinality({}) = 0
  BY FS_EmptySet
<1>9. Cardinality(Units(f)) \in Nat
  BY FS_CardinalityType
<1>10. QED
  BY <1>2, <1>6, <1>7, <1>8, <1>9, SMTT(30)

(* An order takes from what is left what it adds to what was sold.         *)
LEMMA SaleConserves ==
  ASSUME IInv, CInv, NEW o \in Orders, NEW b \in Baskets, Sell(o, b), supplied' = supplied
  PROVE  CInv'
<1>1. ASSUME NEW p \in Products
      PROVE  /\ Sold(p)' = Sold(p) + Quantity(b, p) /\ Sold(p) \in Int
             /\ IsFiniteSet(Units(Asked(p)')) /\ IsFiniteSet(Units(Gave(p)'))
  <2>1. PICK n \in Int : n = Quantity(b, p)
    BY QuantityInt
  <2>2. PICK f : f = Asked(p)
    OBVIOUS
  <2>3. PICK g : g = Gave(p)
    OBVIOUS
  <2>4. \A q \in Orders : Quantity(orders[q], p) \in Int
    BY QuantityInt DEF IInv, TypeOK
  <2>5. f \in [Orders -> Int] /\ g \in [Orders -> Int] /\ -n \in Int
    BY <2>2, <2>3, <2>4 DEF Asked, Gave
  <2>6. Quantity(orders[o], p) = 0
    BY DEF Sell, NoOrder, Quantity
  <2>7. f[o] = 0 /\ g[o] = 0
    BY <2>2, <2>3, <2>6 DEF Asked, Gave
  <2>8. \A q \in Orders : orders'[q] = IF q = o THEN b ELSE orders[q]
    BY DEF Sell, IInv, TypeOK
  <2>9. Grows(f, Asked(p)', o, n) /\ Grows(g, Gave(p)', o, -n)
    BY <2>1, <2>2, <2>3, <2>7, <2>8, AskedPrimed DEF Asked, Gave, Grows
  <2>10. IsFiniteSet(Units(f)) /\ IsFiniteSet(Units(g))
    BY <2>2, <2>3 DEF CInv
  <2>11. /\ IsFiniteSet(Units(Asked(p)'))
         /\ Cardinality(Units(Asked(p)')) = Cardinality(Units(f)) + (IF n > 0 THEN n ELSE 0)
    BY <2>5, <2>9, <2>10, UnitsAdded
  <2>12. /\ IsFiniteSet(Units(Gave(p)'))
         /\ Cardinality(Units(Gave(p)')) = Cardinality(Units(g)) + (IF -n > 0 THEN -n ELSE 0)
    BY <2>5, <2>9, <2>10, UnitsAdded
  <2>13. Cardinality(Units(f)) \in Nat /\ Cardinality(Units(g)) \in Nat
    BY <2>10, FS_CardinalityType
  <2>14. Sold(p) = Cardinality(Units(f)) - Cardinality(Units(g))
    BY <2>2, <2>3, SoldIs
  <2>15. Sold(p)' = Cardinality(Units(Asked(p)')) - Cardinality(Units(Gave(p)'))
    BY SoldPrimed
  <2>16. Sold(p)' = Sold(p) + n /\ Sold(p) \in Int
    BY <2>11, <2>12, <2>13, <2>14, <2>15
  <2>17. QED
    BY <2>1, <2>11, <2>12, <2>16
<1>2. StockConserved'
  <2>1. SUFFICES ASSUME NEW p \in Products, listed'[p] = "listed"
                 PROVE  stock'[p] = supplied'[p] - Sold(p)'
    BY DEF StockConserved
  <2>2. stock'[p] = stock[p] - Quantity(b, p) /\ listed[p] = "listed"
    BY <2>1 DEF Sell
  <2>3. stock[p] = supplied[p] - Sold(p)
    BY <2>2 DEF CInv, StockConserved
  <2>4. supplied[p] \in Int /\ Quantity(b, p) \in Int
    BY QuantityInt DEF IInv, TypeOK
  <2>5. QED
    BY <1>1, <2>2, <2>3, <2>4
<1>3. ASSUME NEW p \in Products, listed'[p] = "new"
      PROVE  \A q \in Orders : Quantity(orders'[q], p) = 0
  <2>1. listed[p] = "new" /\ \A q \in Orders : Quantity(orders[q], p) = 0
    BY <1>3 DEF Sell, CInv
  <2>2. \A i \in DOMAIN b : b[i].product # p
    BY <2>1 DEF Sell
  <2>3. Quantity(b, p) = 0
    BY <2>2 DEF Quantity
  <2>4. \A q \in Orders : orders'[q] = IF q = o THEN b ELSE orders[q]
    BY DEF Sell, IInv, TypeOK
  <2>5. QED
    BY <2>1, <2>3, <2>4
<1>4. \A p \in Products : (\A q \in Orders : Quantity(orders[q], p) = 0)'
                            <=> \A q \in Orders : Quantity(orders'[q], p) = 0
  BY DEF Quantity
<1>5. \A p \in Products : IsFiniteSet(Units(Asked(p)))' /\ IsFiniteSet(Units(Gave(p)))'
  BY <1>1 DEF Units
<1>6. QED
  BY <1>2, <1>3, <1>4, <1>5 DEF CInv

(* So does a step that places no order, if it accounts for the stock it    *)
(* writes.                                                                 *)
LEMMA KeptConserves ==
  ASSUME CInv, orders' = orders,
         \A p \in Products : listed'[p] = "listed" => stock'[p] = supplied'[p] - Sold(p),
         \A p \in Products : listed'[p] = "new" => listed[p] = "new"
  PROVE  CInv'
<1>1. \A p : Asked(p)' = Asked(p) /\ Gave(p)' = Gave(p)
  BY AskedPrimed DEF Asked, Gave
<1>2. \A p : Sold(p)' = Sold(p)
  BY <1>1, SoldPrimed, SoldIs
<1>3. StockConserved'
  BY <1>2 DEF StockConserved
<1>4. \A p \in Products : IsFiniteSet(Units(Asked(p)))' /\ IsFiniteSet(Units(Gave(p)))'
  BY <1>1 DEF CInv, Units
<1>5. \A p \in Products : listed'[p] = "new" => (\A q \in Orders : Quantity(orders[q], p) = 0)'
  BY DEF CInv, Quantity
<1>6. QED
  BY <1>3, <1>4, <1>5 DEF CInv

LEMMA NoneSold ==
  ASSUME NEW p, \A o \in Orders : Quantity(orders[o], p) = 0
  PROVE  Sold(p) = 0 /\ Units(Asked(p)) = {} /\ Units(Gave(p)) = {}
<1>1. \A o \in Orders : Asked(p)[o] = 0 /\ Gave(p)[o] = 0
  BY DEF Asked, Gave
<1>2. Units(Asked(p)) = {} /\ Units(Gave(p)) = {}
  BY <1>1 DEF Units
<1>3. QED
  BY <1>2, SoldIs, FS_EmptySet

LEMMA InitCInv == Init => CInv
<1> SUFFICES ASSUME Init PROVE CInv
  OBVIOUS
<1>1. \A p : \A o \in Orders : Quantity(orders[o], p) = 0
  BY DEF Init, LedgerInit, NoOrder, Quantity
<1>2. \A p : Units(Asked(p)) = {} /\ Units(Gave(p)) = {}
  BY <1>1, NoneSold
<1>3. IsFiniteSet({})
  BY FS_EmptySet
<1>4. StockConserved
  BY DEF Init, LedgerInit, StockConserved
<1>5. QED
  BY <1>1, <1>2, <1>3, <1>4 DEF CInv

LEMMA SoldInt == ASSUME CInv, NEW p \in Products PROVE Sold(p) \in Int
<1>1. IsFiniteSet(Units(Asked(p))) /\ IsFiniteSet(Units(Gave(p)))
  BY DEF CInv
<1>2. Cardinality(Units(Asked(p))) \in Nat /\ Cardinality(Units(Gave(p))) \in Nat
  BY <1>1, FS_CardinalityType
<1>3. QED
  BY <1>2, SoldIs

LEMMA NextCInv == IInv /\ CInv /\ [Next]_vars => CInv'
<1> SUFFICES ASSUME IInv, CInv, [Next]_vars PROVE CInv'
  OBVIOUS
<1>1. ASSUME NEW h \in Handlers, Commit(h) PROVE CInv'
  <2>1. Basket(h) \in Baskets /\ proc[h].order \in Orders
    BY <1>1 DEF Commit, At, IInv, TypeOK, OrdersOwned, HandlerState, Basket
  <2>2. supplied' = supplied
    BY <1>1 DEF Commit
  <2>3. QED
    BY <1>1, <2>1, <2>2, CommitIsSale, SaleConserves
<1>2. ASSUME NEW p \in Products, NEW n \in Levels, CreateProduct(p, n) PROVE CInv'
  <2>1. Sold(p) = 0
    BY <1>2, NoneSold DEF CreateProduct, CInv
  <2>2. n \in Int
    BY LevelsAssumption
  <2>3. stock'[p] = n /\ supplied'[p] = n /\ listed'[p] = "listed" /\ orders' = orders
    BY <1>2 DEF CreateProduct, IInv, TypeOK
  <2>4. \A q \in Products \ {p} :
          stock'[q] = stock[q] /\ supplied'[q] = supplied[q] /\ listed'[q] = listed[q]
    BY <1>2 DEF CreateProduct, IInv, TypeOK
  <2>5. \A q \in Products : listed'[q] = "listed" => stock'[q] = supplied'[q] - Sold(q)
    <3>1. stock'[p] = supplied'[p] - Sold(p)
      BY <2>1, <2>2, <2>3
    <3>2. QED
      BY <2>4, <3>1 DEF CInv, StockConserved
  <2>6. QED
    BY <2>3, <2>4, <2>5, KeptConserves
<1>3. ASSUME NEW p \in Products, NEW n \in Levels, PatchStock(p, n) PROVE CInv'
  <2>1. stock[p] = supplied[p] - Sold(p)
    BY <1>3 DEF PatchStock, CInv, StockConserved
  <2>2. n \in Int /\ Sold(p) \in Int /\ supplied[p] \in Int /\ stock[p] \in Int
    BY SoldInt, LevelsAssumption DEF IInv, TypeOK
  <2>3. stock'[p] = n /\ supplied'[p] = supplied[p] + n - stock[p] /\ orders' = orders /\ listed' = listed
    BY <1>3 DEF PatchStock, IInv, TypeOK
  <2>4. \A q \in Products \ {p} : stock'[q] = stock[q] /\ supplied'[q] = supplied[q]
    BY <1>3 DEF PatchStock, IInv, TypeOK
  <2>5. stock'[p] = supplied'[p] - Sold(p)
    BY <2>1, <2>2, <2>3
  <2>6. \A q \in Products : listed'[q] = "listed" => stock'[q] = supplied'[q] - Sold(q)
    BY <2>3, <2>4, <2>5 DEF CInv, StockConserved
  <2>7. QED
    BY <2>3, <2>6, KeptConserves
<1>4. ASSUME NEW p \in Products, DeleteProduct(p) PROVE CInv'
  <2>1. /\ orders' = orders /\ listed'[p] = "deleted"
        /\ \A q \in Products \ {p} :
             stock'[q] = stock[q] /\ supplied'[q] = supplied[q] /\ listed'[q] = listed[q]
    BY <1>4 DEF DeleteProduct, IInv, TypeOK
  <2>2. \A q \in Products : listed'[q] = "listed" => stock'[q] = supplied'[q] - Sold(q)
    BY <2>1 DEF CInv, StockConserved
  <2>3. QED
    BY <2>1, <2>2, KeptConserves
<1>5. ASSUME UNCHANGED <<listed, stock, orders, supplied>> PROVE CInv'
  BY <1>5, KeptConserves DEF CInv, StockConserved
<1>6. ASSUME NEW h \in Handlers,
             \/ Request(h) \/ ReorderCheck(h) \/ ReorderPlace(h) \/ Insert(h)
             \/ Decrement(h) \/ Emit(h) \/ Throw(h) \/ Fail(h) \/ Timeout(h)
      PROVE  UNCHANGED <<listed, stock, orders, supplied>>
  BY <1>6
     DEF Request, PlaceOrder, ReorderRead, ReorderCheck, ReorderPlace, Insert,
         Decrement, Emit, Throw, Fail, Timeout
<1>7. CASE UNCHANGED vars
  BY <1>5, <1>7 DEF vars
<1>8. QED
  BY <1>1, <1>2, <1>3, <1>4, <1>5, <1>6, <1>7 DEF Next, HandlerStep, Tenant

(* No failed, timed-out or deadlocked request keeps any stock, and no      *)
(* order is placed without taking its own: what a shop supplied of a       *)
(* product is in its stock or in its orders, to the unit.                  *)
THEOREM StockIsConserved == Spec => []StockConserved
<1>1. CInv => StockConserved
  BY DEF CInv
<1>2. QED
  BY <1>1, InitCInv, NextCInv, IInvHolds, PTL DEF Spec

====
