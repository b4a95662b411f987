----------------------------- MODULE CartProofs -----------------------------
(***************************************************************************)
(* Proofs about Cart, for any users, products, carts and handlers: the     *)
(* type invariant, that no cart names a product twice, and the refinement  *)
(* of CartPromise.                                                         *)
(***************************************************************************)
EXTENDS Cart, TLAPS, SequenceTheorems

(***************************************************************************)
(* The inductive invariant.                                                *)
(***************************************************************************)
(* A request that will write has a change that can be made of what it has  *)
(* read, and one that will order has something to order.                   *)
Ready(h) ==
  /\ Distinct(proc[h].seen)
  /\ ~At(h, "idle") => proc[h].user \in Users
  /\ At(h, "write") =>
       /\ proc[h].change # NoChange
       /\ proc[h].change.kind = "set" => Has(proc[h].seen, proc[h].change.product)
       /\ Changed(proc[h].seen, proc[h].change) \in Carts

IInv == TypeOK /\ OneItemPerProduct /\ \A h \in Handlers : Ready(h)

(***************************************************************************)
(* Carts, and what a change leaves of them.                                *)
(***************************************************************************)
LEMMA BasketFacts ==
  ASSUME NEW b \in Baskets
  PROVE  /\ b \in Seq(Item) /\ Len(b) \in Nat
         /\ DOMAIN b = 1..Len(b)
         /\ \A i \in 1..Len(b) : b[i] \in Item
<1>1. PICK n \in 0..MaxItems : b \in [1..n -> Item]
  BY DEF Baskets
<1>2. b \in Seq(Item)
  BY <1>1, ItemsAssumption
<1>3. QED
  BY <1>2, LenProperties

LEMMA QuantitiesInt == \A q \in Quantities : q \in Int
BY QuantityAssumption

LEMMA NoItemsFacts == NoItems \in Baskets /\ Distinct(NoItems)
<1>1. NoItems \in [1..0 -> Item]
  BY DEF NoItems
<1>2. NoItems \in Baskets
  BY <1>1, ItemsAssumption DEF Baskets
<1>3. DOMAIN NoItems = {}
  BY DEF NoItems
<1>4. QED
  BY <1>2, <1>3 DEF Distinct

LEMMA PositionFacts ==
  ASSUME NEW cart, NEW p, Has(cart, p)
  PROVE  Position(cart, p) \in DOMAIN cart /\ cart[Position(cart, p)].product = p
BY DEF Has, Position

LEMMA RequantifiedDistinct ==
  ASSUME NEW cart \in Seq(Item), Distinct(cart), NEW k \in DOMAIN cart, NEW q
  PROVE  Distinct([cart EXCEPT ![k].quantity = q])
<1> DEFINE new == [cart EXCEPT ![k].quantity = q]
<1>1. DOMAIN new = DOMAIN cart
  OBVIOUS
<1>2. \A i \in DOMAIN cart : new[i].product = cart[i].product
  <2>1. \A i \in DOMAIN cart : cart[i] \in Item
    BY ElementOfSeq, LenProperties
  <2>2. QED
    BY <2>1 DEF Item
<1>3. QED
  BY <1>1, <1>2 DEF Distinct

LEMMA AppendedDistinct ==
  ASSUME NEW cart \in Seq(Item), Distinct(cart), NEW item \in Item,
         ~Has(cart, item.product)
  PROVE  Distinct(Append(cart, item))
<1> DEFINE new == Append(cart, item)
<1>1. /\ Len(cart) \in Nat /\ DOMAIN cart = 1..Len(cart)
      /\ DOMAIN new = 1..(Len(cart) + 1)
      /\ \A i \in 1..Len(cart) : new[i] = cart[i]
      /\ new[Len(cart) + 1] = item
  BY AppendProperties, LenProperties
<1>2. \A i \in DOMAIN new : i \in DOMAIN cart \/ i = Len(cart) + 1
  BY <1>1
<1>3. QED
  BY <1>1, <1>2 DEF Distinct, Has

LEMMA RemovedFacts ==
  ASSUME NEW cart \in Seq(Item), NEW p, Has(cart, p), NEW k, k = Position(cart, p)
  PROVE  /\ DOMAIN RemoveItem(cart, p) = 1..(Len(cart) - 1)
         /\ \A i \in 1..(Len(cart) - 1) :
              RemoveItem(cart, p)[i] = IF i < k THEN cart[i] ELSE cart[i + 1]
<1> DEFINE low == SubSeq(cart, 1, k - 1)
           high == SubSeq(cart, k + 1, Len(cart))
           new == low \o high
<1>1. Len(cart) \in Nat /\ DOMAIN cart = 1..Len(cart) /\ k \in 1..Len(cart)
  BY PositionFacts, LenProperties
<1>2. /\ low \in Seq(Item) /\ Len(low) = k - 1
      /\ \A i \in 1..(k - 1) : low[i] = cart[i]
  BY <1>1, SubSeqProperties
<1>3. /\ high \in Seq(Item) /\ Len(high) = Len(cart) - k
      /\ \A i \in 1..(Len(cart) - k) : high[i] = cart[k + i]
  BY <1>1, SubSeqProperties
<1>4. /\ DOMAIN new = 1..(Len(cart) - 1)
      /\ \A i \in 1..(Len(cart) - 1) : new[i] = IF i < k THEN cart[i] ELSE cart[i + 1]
  <2>1. /\ new \in Seq(Item) /\ Len(new) = Len(cart) - 1
        /\ \A i \in 1..(Len(cart) - 1) :
             new[i] = IF i <= k - 1 THEN low[i] ELSE high[i - (k - 1)]
    <3>1. /\ new \in Seq(Item) /\ Len(new) = Len(low) + Len(high)
          /\ \A i \in 1..(Len(low) + Len(high)) :
               new[i] = IF i <= Len(low) THEN low[i] ELSE high[i - Len(low)]
      BY <1>2, <1>3, ConcatProperties
    <3>2. Len(low) = k - 1 /\ Len(high) = Len(cart) - k
      BY <1>2, <1>3, Zenon
    <3>3. k \in Nat /\ Len(cart) \in Nat
      BY <1>1
    <3>4. (k - 1) + (Len(cart) - k) = Len(cart) - 1
      BY <3>3
    <3>5. QED
      BY <3>1, <3>2, <3>4, Zenon
  <2>2. DOMAIN new = 1..(Len(cart) - 1)
    BY <2>1, LenProperties
  <2>3. ASSUME NEW i \in 1..(Len(cart) - 1)
        PROVE  new[i] = IF i < k THEN cart[i] ELSE cart[i + 1]
    <3>1. CASE i < k
      BY <1>1, <1>2, <2>1, <3>1
    <3>2. CASE ~(i < k)
      <4>1. i - (k - 1) \in 1..(Len(cart) - k) /\ k + (i - (k - 1)) = i + 1 /\ ~(i <= k - 1)
        BY <1>1, <3>2
      <4>2. high[i - (k - 1)] = cart[i + 1]
        BY <1>3, <4>1
      <4>3. QED
        BY <2>1, <3>2, <4>1, <4>2
    <3>3. QED
      BY <3>1, <3>2
  <2>4. QED
    BY <2>2, <2>3
<1>5. new = RemoveItem(cart, p)
  BY DEF RemoveItem
<1> HIDE DEF new
<1>6. QED
  BY <1>4, <1>5

LEMMA RemovedDistinct ==
  ASSUME NEW cart \in Seq(Item), Distinct(cart), NEW p, Has(cart, p)
  PROVE  Distinct(RemoveItem(cart, p))
<1>1. PICK k : k = Position(cart, p)
  OBVIOUS
<1>2. PICK new : new = RemoveItem(cart, p)
  OBVIOUS
<1>3. Len(cart) \in Nat /\ DOMAIN cart = 1..Len(cart) /\ k \in 1..Len(cart)
  BY <1>1, PositionFacts, LenProperties
<1>4. /\ DOMAIN new = 1..(Len(cart) - 1)
      /\ \A i \in 1..(Len(cart) - 1) : new[i] = IF i < k THEN cart[i] ELSE cart[i + 1]
  BY <1>1, <1>2, RemovedFacts
<1> DEFINE old(i) == IF i < k THEN i ELSE i + 1
<1>5. /\ \A i \in DOMAIN new : old(i) \in DOMAIN cart /\ new[i] = cart[old(i)]
      /\ \A i, j \in DOMAIN new : old(i) = old(j) => i = j
  <2>1. \A i \in 1..(Len(cart) - 1) : old(i) \in 1..Len(cart)
    BY <1>3
  <2>2. \A i, j \in 1..(Len(cart) - 1) : old(i) = old(j) => i = j
    BY <1>3
  <2>3. \A i \in 1..(Len(cart) - 1) : new[i] = cart[old(i)]
    BY <1>4
  <2>4. QED
    BY <1>3, <1>4, <2>1, <2>2, <2>3
<1> HIDE DEF old
<1>6. Distinct(new)
  BY <1>5 DEF Distinct
<1>7. QED
  BY <1>2, <1>6

LEMMA ChangedDistinct ==
  ASSUME NEW cart \in Baskets, Distinct(cart), NEW change \in Changes \ {NoChange},
         change.kind = "set" => Has(cart, change.product)
  PROVE  Distinct(Changed(cart, change))
<1> DEFINE p == change.product
           q == change.quantity
<1>1. /\ change.kind \in {"add", "set"} /\ p \in Products
      /\ change.kind = "add" => q \in Quantities
  BY DEF Changes
<1>2. cart \in Seq(Item)
  BY BasketFacts
<1>3. CASE change.kind = "add" /\ Has(cart, p)
  <2>1. PICK n : n = cart[Position(cart, p)].quantity + q
    OBVIOUS
  <2>2. Distinct([cart EXCEPT ![Position(cart, p)].quantity = n])
    BY <1>2, <1>3, PositionFacts, RequantifiedDistinct
  <2>3. QED
    BY <1>3, <2>1, <2>2 DEF Changed, AddItem
<1>4. CASE change.kind = "add" /\ ~Has(cart, p)
  BY <1>1, <1>2, <1>4, AppendedDistinct DEF Changed, AddItem, Item
<1>5. CASE change.kind = "set" /\ q <= 0
  BY <1>2, <1>5, RemovedDistinct DEF Changed, SetItem
<1>6. CASE change.kind = "set" /\ ~(q <= 0)
  BY <1>2, <1>6, PositionFacts, RequantifiedDistinct DEF Changed, SetItem
<1>7. QED
  BY <1>1, <1>3, <1>4, <1>5, <1>6

(***************************************************************************)
(* The steps.                                                              *)
(***************************************************************************)
LEMMA IdleFacts == Idle \in HandlerState
<1>1. NoItems \in Baskets
  BY NoItemsFacts
<1>2. QED
  BY <1>1 DEF Idle, HandlerState, Changes

LEMMA InitIInv == Init => IInv
<1> SUFFICES ASSUME Init PROVE IInv
  OBVIOUS
<1>1. NoItems = NoOrder /\ NoItems \in Baskets /\ Distinct(NoItems)
  BY NoItemsFacts DEF NoItems, NoOrder
<1>2. TypeOK
  BY <1>1, IdleFacts DEF Init, TypeOK
<1>3. OneItemPerProduct
  BY <1>1 DEF Init, OneItemPerProduct, Distinct
<1>4. \A h \in Handlers : Ready(h)
  BY <1>1 DEF Init, Idle, Ready, At
<1>5. QED
  BY <1>2, <1>3, <1>4 DEF IInv

(* What a handler reads names no product twice, nor what it writes.        *)
LEMMA FetchedFacts ==
  ASSUME IInv, NEW u \in Users, NEW up \in BOOLEAN
  PROVE  Fetched(u, up) \in Baskets /\ Distinct(Fetched(u, up))
BY NoItemsFacts DEF IInv, TypeOK, OneItemPerProduct, Distinct, Fetched, Key

LEMMA StoredFacts ==
  ASSUME IInv, NEW u \in Users, NEW up \in BOOLEAN, NEW cart \in Baskets, Distinct(cart),
         Stored(u, cart, up)
  PROVE  carts' \in [Users -> Baskets] /\ OneItemPerProduct'
BY DEF IInv, TypeOK, OneItemPerProduct, Distinct, Stored, Key

(* A handler that ends, or that takes up a request, leaves the others be.  *)
LEMMA OneHandler ==
  ASSUME IInv, NEW h \in Handlers, NEW state \in HandlerState,
         proc' = [proc EXCEPT ![h] = state], Ready(h)'
  PROVE  proc' \in [Handlers -> HandlerState] /\ \A g \in Handlers : Ready(g)'
BY DEF IInv, TypeOK, Ready, At

LEMMA IdleReady == ASSUME NEW h \in Handlers, proc'[h] = Idle PROVE Ready(h)'
BY NoItemsFacts DEF Ready, At, Idle

LEMMA ChangeReadStep ==
  ASSUME IInv, NEW h \in Handlers, NEW u \in Users, NEW change \in Changes \ {NoChange},
         NEW up \in BOOLEAN, ChangeRead(h, u, change, up)
  PROVE  IInv'
<1> DEFINE state == [pc |-> "write", user |-> u, change |-> change, seen |-> Fetched(u, up)]
<1>1. Fetched(u, up) \in Baskets /\ Distinct(Fetched(u, up))
  BY FetchedFacts
<1>2. state \in HandlerState
  BY <1>1 DEF HandlerState
<1>3. proc' = [proc EXCEPT ![h] = state] /\ proc'[h] = state
  BY DEF ChangeRead, IInv, TypeOK
<1>4. Ready(h)'
  BY <1>1, <1>3 DEF Ready, At, ChangeRead
<1>5. proc' \in [Handlers -> HandlerState] /\ \A g \in Handlers : Ready(g)'
  BY <1>2, <1>3, <1>4, OneHandler
<1>6. QED
  BY <1>5 DEF IInv, TypeOK, OneItemPerProduct, ChangeRead, ledgerVars

LEMMA ChangeWriteStep ==
  ASSUME IInv, NEW h \in Handlers, NEW up \in BOOLEAN, ChangeWrite(h, up)
  PROVE  IInv'
<1>1. proc[h] \in HandlerState /\ Ready(h) /\ At(h, "write")
  BY DEF ChangeWrite, IInv, TypeOK
<1>2. proc[h].seen \in Baskets /\ proc[h].change \in Changes \ {NoChange} /\ proc[h].user \in Users
  BY <1>1 DEF HandlerState, Ready, At
<1> DEFINE cart == Changed(proc[h].seen, proc[h].change)
<1>3. cart \in Baskets /\ Distinct(cart)
  BY <1>1, <1>2, ChangedDistinct, CartsAssumption DEF Ready
<1>4. carts' \in [Users -> Baskets] /\ OneItemPerProduct'
  BY <1>2, <1>3, StoredFacts DEF ChangeWrite
<1>5. proc' = [proc EXCEPT ![h] = Idle] /\ proc'[h] = Idle
  BY DEF ChangeWrite, IInv, TypeOK
<1>6. proc' \in [Handlers -> HandlerState] /\ \A g \in Handlers : Ready(g)'
  BY <1>5, IdleFacts, IdleReady, OneHandler
<1>7. QED
  BY <1>4, <1>6 DEF IInv, TypeOK, ChangeWrite, ledgerVars

LEMMA ClearCartStep ==
  ASSUME IInv, NEW u \in Users, NEW up \in BOOLEAN, ClearCart(u, up)
  PROVE  IInv'
<1>1. carts' \in [Users -> Baskets] /\ OneItemPerProduct'
  BY NoItemsFacts, StoredFacts DEF ClearCart
<1>2. QED
  BY <1>1 DEF IInv, TypeOK, Ready, At, ClearCart, ledgerVars

LEMMA ExpireStep ==
  ASSUME IInv, NEW u \in Users, Expire(u)
  PROVE  IInv'
<1>1. carts' \in [Users -> Baskets] /\ OneItemPerProduct'
  BY NoItemsFacts DEF Expire, IInv, TypeOK, OneItemPerProduct, Distinct
<1>2. QED
  BY <1>1 DEF IInv, TypeOK, Ready, At, Expire, ledgerVars

LEMMA CheckoutReadStep ==
  ASSUME IInv, NEW h \in Handlers, NEW u \in Users, NEW up \in BOOLEAN, CheckoutRead(h, u, up)
  PROVE  IInv'
<1> DEFINE state == [pc |-> "order", user |-> u, change |-> NoChange, seen |-> Fetched(u, up)]
<1>1. Fetched(u, up) \in Baskets /\ Distinct(Fetched(u, up))
  BY FetchedFacts
<1>2. state \in HandlerState
  BY <1>1 DEF HandlerState, Changes
<1>3. proc' = [proc EXCEPT ![h] = state] /\ proc'[h] = state
  BY DEF CheckoutRead, IInv, TypeOK
<1>4. Ready(h)'
  BY <1>1, <1>3 DEF Ready, At
<1>5. proc' \in [Handlers -> HandlerState] /\ \A g \in Handlers : Ready(g)'
  BY <1>2, <1>3, <1>4, OneHandler
<1>6. QED
  BY <1>5 DEF IInv, TypeOK, OneItemPerProduct, CheckoutRead, ledgerVars

LEMMA QuantityInt ==
  ASSUME NEW b \in Baskets, NEW p \in Products
  PROVE  Quantity(b, p) \in Int
<1>1. \A i \in DOMAIN b : b[i].quantity \in Int
  BY BasketFacts, QuantitiesInt DEF Item
<1>2. QED
  BY <1>1 DEF Quantity

LEMMA CheckoutOrderStep ==
  ASSUME IInv, NEW h \in Handlers, NEW o \in Orders, CheckoutOrder(h, o)
  PROVE  IInv'
<1> DEFINE state == [proc[h] EXCEPT !.pc = "clear"]
<1>1. proc[h] \in HandlerState /\ Ready(h) /\ At(h, "order")
  BY DEF CheckoutOrder, IInv, TypeOK
<1>2. proc[h].seen \in Baskets /\ proc[h].user \in Users
  BY <1>1 DEF HandlerState, Ready, At
<1>3. stock' \in [Products -> Int]
  BY <1>2, QuantityInt DEF CheckoutOrder, Sell, IInv, TypeOK
<1>4. /\ orders' \in [Orders -> Baskets] /\ owner' \in [Orders -> Users \union {None}]
      /\ \A q \in Orders : orders'[q] = NoOrder <=> owner'[q] = None
  BY <1>2, NoneAssumption DEF CheckoutOrder, Sell, IInv, TypeOK
<1>5. state \in HandlerState
  BY <1>1 DEF HandlerState
<1>6. proc' = [proc EXCEPT ![h] = state] /\ proc'[h] = state
  BY DEF CheckoutOrder, IInv, TypeOK
<1>7. Ready(h)'
  BY <1>1, <1>2, <1>6 DEF Ready, At, HandlerState
<1>8. proc' \in [Handlers -> HandlerState] /\ \A g \in Handlers : Ready(g)'
  BY <1>5, <1>6, <1>7, OneHandler
<1>9. QED
  BY <1>3, <1>4, <1>8 DEF IInv, TypeOK, OneItemPerProduct, CheckoutOrder, Sell

LEMMA CheckoutClearStep ==
  ASSUME IInv, NEW h \in Handlers, NEW up \in BOOLEAN, CheckoutClear(h, up)
  PROVE  IInv'
<1>1. proc[h].user \in Users
  BY DEF CheckoutClear, IInv, Ready, At
<1>2. carts' \in [Users -> Baskets] /\ OneItemPerProduct'
  BY <1>1, NoItemsFacts, StoredFacts DEF CheckoutClear
<1>3. proc' = [proc EXCEPT ![h] = Idle] /\ proc'[h] = Idle
  BY DEF CheckoutClear, IInv, TypeOK
<1>4. proc' \in [Handlers -> HandlerState] /\ \A g \in Handlers : Ready(g)'
  BY <1>3, IdleFacts, IdleReady, OneHandler
<1>5. QED
  BY <1>2, <1>4 DEF IInv, TypeOK, CheckoutClear, ledgerVars

LEMMA FailStep ==
  ASSUME IInv, NEW h \in Handlers, Fail(h)
  PROVE  IInv'
<1>1. proc' = [proc EXCEPT ![h] = Idle] /\ proc'[h] = Idle
  BY DEF Fail, IInv, TypeOK
<1>2. proc' \in [Handlers -> HandlerState] /\ \A g \in Handlers : Ready(g)'
  BY <1>1, IdleFacts, IdleReady, OneHandler
<1>3. QED
  BY <1>2 DEF IInv, TypeOK, OneItemPerProduct, Fail, ledgerVars

LEMMA StepIInv == IInv /\ [Next]_vars => IInv'
<1> SUFFICES ASSUME IInv, [Next]_vars PROVE IInv'
  OBVIOUS
<1>1. CASE UNCHANGED vars
  BY <1>1 DEF vars, IInv, TypeOK, OneItemPerProduct, Ready, At
<1>2. ASSUME NEW h \in Handlers, Serve(h) PROVE IInv'
  BY <1>2, ChangeReadStep, ChangeWriteStep, CheckoutReadStep, CheckoutOrderStep, CheckoutClearStep,
     FailStep DEF Serve
<1>3. ASSUME NEW u \in Users, Expire(u) \/ \E up \in BOOLEAN : ClearCart(u, up) PROVE IInv'
  BY <1>3, ExpireStep, ClearCartStep
<1>4. QED
  BY <1>1, <1>2, <1>3 DEF Next

(***************************************************************************)
(* The theorems.                                                           *)
(***************************************************************************)
THEOREM Invariance == Spec => []IInv
BY InitIInv, StepIInv, PTL DEF Spec

(* Carts, orders and requests keep their types, and every order has the    *)
(* customer who checked it out.                                            *)
THEOREM TypeCorrect == Spec => []TypeOK
<1>1. IInv => TypeOK
  BY DEF IInv
<1>2. QED
  BY <1>1, Invariance, PTL

(* However the changes of a cart interleave, with Redis coming and going   *)
(* and quantities of any sign, no cart names a product twice: createOrder's *)
(* comparison of counts refuses no cart for that.                          *)
THEOREM NoProductTwice == Spec => []OneItemPerProduct
<1>1. IInv => OneItemPerProduct
  BY DEF IInv
<1>2. QED
  BY <1>1, Invariance, PTL

(***************************************************************************)
(* Amounts: what a change leaves of the other products.                    *)
(***************************************************************************)
(* Two carts that have the same items of a product.                        *)
Keeps(b, c, r) ==
  \A i \in DOMAIN b : b[i].product = r =>
    \E j \in DOMAIN c : c[j].product = r /\ c[j].quantity = b[i].quantity

LEMMA SameAmount ==
  ASSUME NEW b, NEW c, NEW r, Keeps(b, c, r), Keeps(c, b, r)
  PROVE  Amount(b, r) = Amount(c, r)
BY DEF Keeps, Amount

LEMMA ChangedKeeps ==
  ASSUME NEW cart \in Baskets, NEW change \in Changes \ {NoChange},
         change.kind = "set" => Has(cart, change.product),
         NEW r, r # change.product
  PROVE  Keeps(cart, Changed(cart, change), r) /\ Keeps(Changed(cart, change), cart, r)
<1>1. PICK p : p = change.product
  OBVIOUS
<1>2. PICK q : q = change.quantity
  OBVIOUS
<1>3. change.kind \in {"add", "set"} /\ p \in Products
  BY <1>1 DEF Changes
<1>4. cart \in Seq(Item) /\ Len(cart) \in Nat /\ DOMAIN cart = 1..Len(cart) /\ \A i \in DOMAIN cart : cart[i] \in Item
  BY BasketFacts
<1>5. ASSUME NEW k \in DOMAIN cart, cart[k].product = p, NEW n
      PROVE  LET new == [cart EXCEPT ![k].quantity = n] IN Keeps(cart, new, r) /\ Keeps(new, cart, r)
  <2>1. PICK new : new = [cart EXCEPT ![k].quantity = n]
    OBVIOUS
  <2>2. /\ DOMAIN new = DOMAIN cart
        /\ \A i \in DOMAIN cart : /\ new[i].product = cart[i].product
                                  /\ i # k => new[i] = cart[i]
    BY <1>4, <2>1 DEF Item
  <2>3. \A i \in DOMAIN cart : cart[i].product = r => i # k
    BY <1>1, <1>5
  <2>4. Keeps(cart, new, r) /\ Keeps(new, cart, r)
    BY <2>2, <2>3 DEF Keeps
  <2>5. QED
    BY <2>1, <2>4
<1>6. CASE change.kind = "add" /\ Has(cart, p)
  <2>1. Position(cart, p) \in DOMAIN cart /\ cart[Position(cart, p)].product = p
    BY <1>6, PositionFacts
  <2>2. Changed(cart, change)
          = [cart EXCEPT ![Position(cart, p)].quantity = cart[Position(cart, p)].quantity + q]
    BY <1>1, <1>2, <1>6 DEF Changed, AddItem
  <2>3. QED
    BY <1>5, <2>1, <2>2, ZenonT(40)
<1>7. CASE change.kind = "set" /\ ~(q <= 0)
  <2>1. Position(cart, p) \in DOMAIN cart /\ cart[Position(cart, p)].product = p
    BY <1>1, <1>7, PositionFacts
  <2>2. Changed(cart, change) = [cart EXCEPT ![Position(cart, p)].quantity = q]
    BY <1>1, <1>2, <1>7 DEF Changed, SetItem
  <2>3. QED
    BY <1>5, <2>1, <2>2, ZenonT(40)
<1>8. CASE change.kind = "add" /\ ~Has(cart, p)
  <2>1. PICK item : item = [product |-> p, quantity |-> q]
    OBVIOUS
  <2>2. PICK new : new = Append(cart, item)
    OBVIOUS
  <2>3. Changed(cart, change) = new
    BY <1>1, <1>2, <1>8, <2>1, <2>2 DEF Changed, AddItem
  <2>4. q \in Quantities
    BY <1>2, <1>8 DEF Changes
  <2>5. item \in Item /\ item.product # r
    BY <1>1, <1>3, <2>1, <2>4 DEF Item
  <2>6. /\ DOMAIN new = 1..(Len(cart) + 1)
        /\ \A i \in 1..Len(cart) : new[i] = cart[i]
        /\ new[Len(cart) + 1] = item
    BY <1>4, <2>2, <2>5, AppendProperties, LenProperties
  <2>7. DOMAIN cart \subseteq DOMAIN new /\ \A i \in DOMAIN new : i \in DOMAIN cart \/ i = Len(cart) + 1
    BY <1>4, <2>6
  <2>8. Keeps(cart, new, r) /\ Keeps(new, cart, r)
    BY <1>4, <2>5, <2>6, <2>7 DEF Keeps
  <2>9. QED
    BY <2>3, <2>8
<1>9. CASE change.kind = "set" /\ q <= 0
  <2>1. PICK k : k = Position(cart, p)
    OBVIOUS
  <2>2. k \in DOMAIN cart /\ cart[k].product = p
    BY <1>1, <1>9, <2>1, PositionFacts
  <2>3. PICK new : new = RemoveItem(cart, p)
    OBVIOUS
  <2>4. Changed(cart, change) = new
    BY <1>1, <1>2, <1>9, <2>3 DEF Changed, SetItem
  <2>5. /\ DOMAIN new = 1..(Len(cart) - 1)
        /\ \A i \in 1..(Len(cart) - 1) : new[i] = IF i < k THEN cart[i] ELSE cart[i + 1]
    BY <1>1, <1>4, <1>9, <2>1, <2>3, RemovedFacts
  <2>6. \A i \in DOMAIN new : \E j \in DOMAIN cart : new[i] = cart[j]
    <3>1. \A i \in 1..(Len(cart) - 1) : i \in 1..Len(cart) /\ i + 1 \in 1..Len(cart)
      BY <1>4
    <3>2. QED
      BY <1>4, <2>5, <3>1
  <2>7. \A j \in DOMAIN cart \ {k} : \E i \in DOMAIN new : cart[j] = new[i]
    <3>1. ASSUME NEW j \in DOMAIN cart \ {k} PROVE \E i \in DOMAIN new : cart[j] = new[i]
      <4>1. CASE j < k
        <5>1. j \in 1..(Len(cart) - 1)
          BY <1>4, <2>2, <4>1
        <5>2. QED
          BY <2>5, <4>1, <5>1
      <4>2. CASE ~(j < k)
        <5>1. j - 1 \in 1..(Len(cart) - 1) /\ ~(j - 1 < k) /\ (j - 1) + 1 = j
          BY <1>4, <2>2, <4>2
        <5>2. new[j - 1] = cart[j]
          BY <2>5, <5>1
        <5>3. QED
          BY <2>5, <5>1, <5>2
      <4>3. QED
        BY <4>1, <4>2
    <3>2. QED
      BY <3>1
  <2>8. \A j \in DOMAIN cart : cart[j].product = r => j # k
    BY <1>1, <2>2
  <2>9. Keeps(cart, new, r) /\ Keeps(new, cart, r)
    BY <2>6, <2>7, <2>8 DEF Keeps
  <2>10. QED
    BY <2>4, <2>9
<1>10. QED
  BY <1>1, <1>3, <1>6, <1>7, <1>8, <1>9

(* A change concerns its own product alone.                                *)
LEMMA ChangedAmount ==
  ASSUME NEW cart \in Baskets, NEW change \in Changes \ {NoChange},
         change.kind = "set" => Has(cart, change.product),
         NEW r, r # change.product
  PROVE  Amount(Changed(cart, change), r) = Amount(cart, r)
BY ChangedKeeps, SameAmount

LEMMA AmountsInt ==
  ASSUME NEW b \in Baskets
  PROVE  Amounts(b) \in [Products -> SUBSET Int]
<1>1. \A i \in DOMAIN b : b[i].quantity \in Int
  BY BasketFacts, QuantitiesInt DEF Item
<1>2. \A p \in Products : Amount(b, p) \in SUBSET Int
  BY <1>1 DEF Amount
<1>3. QED
  BY <1>2 DEF Amounts

LEMMA AmountOne ==
  ASSUME NEW b, Distinct(b), NEW p
  PROVE  \A q, n \in Amount(b, p) : q = n
BY DEF Distinct, Amount

(* A cart with an item in it is not empty to the promise either.           *)
LEMMA AmountsSome ==
  ASSUME NEW b \in Baskets, b # NoItems
  PROVE  Amounts(b) # Amounts(NoItems)
<1>1. b \in Seq(Item) /\ Len(b) \in Nat /\ DOMAIN b = 1..Len(b) /\ \A i \in 1..Len(b) : b[i] \in Item
  BY BasketFacts
<1>2. Len(b) # 0
  BY <1>1, EmptySeq DEF NoItems
<1>3. 1 \in DOMAIN b
  BY <1>1, <1>2
<1>4. PICK p : p = b[1].product
  OBVIOUS
<1>5. p \in Products
  BY <1>1, <1>3, <1>4 DEF Item
<1>6. b[1].quantity \in Amount(b, p)
  BY <1>3, <1>4 DEF Amount
<1>7. Amount(NoItems, p) = {}
  BY DEF NoItems, Amount
<1>8. Amounts(b)[p] # Amounts(NoItems)[p]
  BY <1>5, <1>6, <1>7 DEF Amounts
<1>9. QED
  BY <1>8

(***************************************************************************)
(* The promise to a user who does one thing at a time.                     *)
(***************************************************************************)

(* Such a user has one request at most.  The cart is what the request has  *)
(* read, unless it read nothing or the document has expired since; a       *)
(* checkout has read something, and its order holds what it has read.      *)
Solo(u) ==
  /\ \A h, g \in Serving(u) : h = g
  /\ \A h \in Serving(u) :
       /\ ~At(h, "idle")
       /\ proc[h].seen # NoItems => carts[u] \in {proc[h].seen, NoItems}
       /\ ~At(h, "write") => proc[h].seen # NoItems
       /\ At(h, "clear") => \E o \in Orders : owner[o] = u /\ orders[o] = proc[h].seen

(* A handler that serves no request holds nothing of the last one.         *)
Resting == \A h \in Handlers : At(h, "idle") => proc[h] = Idle

(* The invariant the refinement rests on.                                  *)
PInv == IInv /\ Resting /\ \A u \in Alone : Solo(u)

(* The two sides of the mapping, and what they are after a step.           *)
Shown == [u \in Alone |-> Amounts(Items(u))]

Bought ==
  [o \in Orders |->
     IF owner[o] \in Alone
     THEN [by |-> owner[o], quantities |-> Amounts(orders[o])]
     ELSE Unplaced]

LEMMA ShownPrimed == Shown' = [u \in Alone |-> Amounts(Items(u)')]
BY DEF Shown, Amounts, Amount

LEMMA BoughtPrimed ==
  Bought' = [o \in Orders |->
               IF owner'[o] \in Alone
               THEN [by |-> owner'[o], quantities |-> Amounts(orders'[o])]
               ELSE Unplaced]
BY DEF Bought, Amounts, Amount

LEMMA EmptyFacts == Amounts(NoItems) = Promise!Empty
BY DEF Amounts, Amount, NoItems, Promise!Empty

LEMMA SamePromise ==
  ASSUME Shown' = Shown, Bought' = Bought
  PROVE  [Promise!PromiseNext]_(Promise!promiseVars)
BY DEF Shown, Bought, Promise!promiseVars

LEMMA ForgetPromise ==
  ASSUME NEW u \in Alone, Shown' = [Shown EXCEPT ![u] = Promise!Empty], Bought' = Bought
  PROVE  [Promise!PromiseNext]_(Promise!promiseVars)
<1>1. Promise!Forget(u)
  BY DEF Shown, Bought, Promise!Forget
<1>2. QED
  BY <1>1 DEF Promise!PromiseNext

LEMMA ChangePromise ==
  ASSUME NEW u \in Alone, NEW p \in Products, Bought' = Bought,
         Shown' \in [Alone -> [Products -> SUBSET Int]], \A q, n \in Shown'[u][p] : q = n,
         \/ Promise!SameBut(p, Shown[u], Shown'[u])
         \/ Promise!SameBut(p, Promise!Empty, Shown'[u]),
         \A v \in Alone \ {u} : Shown'[v] = Shown[v]
  PROVE  [Promise!PromiseNext]_(Promise!promiseVars)
<1>1. Promise!Change(u, p)
  BY DEF Shown, Bought, Promise!Change
<1>2. QED
  BY <1>1 DEF Promise!PromiseNext

LEMMA BuyPromise ==
  ASSUME NEW u \in Alone, NEW o \in Orders, Shown[u] # Promise!Empty, Bought[o] = Unplaced,
         Bought' = [Bought EXCEPT ![o] = [by |-> u, quantities |-> Shown[u]]],
         Shown' = [Shown EXCEPT ![u] = Promise!Empty]
  PROVE  [Promise!PromiseNext]_(Promise!promiseVars)
<1>1. Promise!Buy(u, o)
  BY DEF Shown, Bought, Promise!Buy
<1>2. QED
  BY <1>1 DEF Promise!PromiseNext

LEMMA ReturnPromise ==
  ASSUME NEW u \in Alone, NEW o \in Orders, Shown[u] = Promise!Empty,
         Bought[o] # Unplaced, Bought[o].by = u, Bought' = Bought,
         Shown' = [Shown EXCEPT ![u] = Bought[o].quantities]
  PROVE  [Promise!PromiseNext]_(Promise!promiseVars)
<1>1. Promise!Return(u, o)
  BY DEF Shown, Bought, Promise!Return
<1>2. QED
  BY <1>1 DEF Promise!PromiseNext

(***************************************************************************)
(* What a step does to one user, and leaves of the others.                 *)
(***************************************************************************)
Untouched(v) ==
  /\ Serving(v)' = Serving(v)
  /\ \A h \in Serving(v) : proc'[h] = proc[h]
  /\ carts'[v] = carts[v]

(* An order is not changed once it is placed.                              *)
OrdersKept ==
  \A o \in Orders : orders[o] # NoOrder => orders'[o] = orders[o] /\ owner'[o] = owner[o]

(* The handler h takes the state of a request of u, or ends one.           *)
Turns(h, u, state) ==
  /\ proc' = [proc EXCEPT ![h] = state]
  /\ proc[h].user \in {u, None} /\ state.user \in {u, None}

OnlyCart(u) == \A v \in Users \ {u} : carts'[v] = carts[v]

LEMMA ItemsFree == ASSUME NEW u, Serving(u) = {} PROVE Items(u) = carts[u]
BY DEF Items

LEMMA ItemsServed ==
  ASSUME NEW u, NEW h, Serving(u) = {h}
  PROVE  Items(u) = IF At(h, "clear") THEN NoItems
                    ELSE IF proc[h].seen # NoItems THEN proc[h].seen ELSE carts[u]
BY DEF Items

LEMMA ItemsFreePrimed == ASSUME NEW u, Serving(u)' = {} PROVE Items(u)' = carts'[u]
BY DEF Items

LEMMA ItemsServedPrimed ==
  ASSUME NEW u, NEW h, Serving(u)' = {h}
  PROVE  Items(u)' = IF proc'[h].pc = "clear" THEN NoItems
                     ELSE IF proc'[h].seen # NoItems THEN proc'[h].seen ELSE carts'[u]
BY DEF Items, At

LEMMA UntouchedItems ==
  ASSUME NEW v, Untouched(v)
  PROVE  Items(v)' = Items(v)
BY DEF Untouched, Items, At

LEMMA UntouchedSolo ==
  ASSUME IInv, OrdersKept, NEW v \in Users, Untouched(v), Solo(v)
  PROVE  Solo(v)'
<1>1. \A o \in Orders : owner[o] = v => orders'[o] = orders[o] /\ owner'[o] = owner[o]
  BY NoneAssumption DEF OrdersKept, IInv, TypeOK
<1>2. QED
  BY <1>1 DEF Untouched, Solo, At

LEMMA OthersUntouched ==
  ASSUME IInv, NEW h \in Handlers, NEW u \in Users, NEW state, Turns(h, u, state), OnlyCart(u)
  PROVE  \A v \in Users \ {u} : Untouched(v)
<1> SUFFICES ASSUME NEW v \in Users \ {u} PROVE Untouched(v)
  OBVIOUS
<1>1. proc'[h] = state /\ \A g \in Handlers \ {h} : proc'[g] = proc[g]
  BY DEF Turns, IInv, TypeOK
<1>2. h \notin Serving(v) /\ h \notin Serving(v)'
  BY <1>1, NoneAssumption DEF Turns, Serving
<1>3. Serving(v)' = Serving(v) /\ \A g \in Serving(v) : proc'[g] = proc[g]
  BY <1>1, <1>2 DEF Serving
<1>4. QED
  BY <1>3 DEF Untouched, OnlyCart

LEMMA OthersShown ==
  ASSUME NEW u \in Users, \A v \in Users \ {u} : Untouched(v)
  PROVE  \A v \in Alone \ {u} : Shown'[v] = Shown[v]
<1>1. \A v \in Alone \ {u} : Items(v)' = Items(v)
  BY UntouchedItems DEF Alone
<1>2. QED
  BY <1>1, ShownPrimed DEF Shown

(* What u is shown after a step that leaves the others be.                 *)
LEMMA UserShown ==
  ASSUME NEW u \in Alone, \A v \in Alone \ {u} : Shown'[v] = Shown[v], NEW b, Items(u)' = b
  PROVE  Shown' = [Shown EXCEPT ![u] = Amounts(b)]
<1>1. Shown' = [v \in Alone |-> Shown'[v]] /\ Shown'[u] = Amounts(b)
  BY ShownPrimed
<1>2. QED
  BY <1>1 DEF Shown

LEMMA SameOrders ==
  ASSUME owner' = owner, orders' = orders
  PROVE  OrdersKept /\ Bought' = Bought
<1>1. Bought' = Bought
  BY BoughtPrimed DEF Bought
<1>2. QED
  BY <1>1 DEF OrdersKept

(* A step that changes the request and the cart of one user preserves the  *)
(* invariant if it does for that user.                                     *)
LEMMA OneUser ==
  ASSUME PInv, IInv', OrdersKept, NEW h \in Handlers, NEW u \in Users, NEW state,
         Turns(h, u, state), OnlyCart(u), u \in Alone => Solo(u)',
         state = Idle \/ state.pc # "idle"
  PROVE  PInv' /\ \A v \in Alone \ {u} : Shown'[v] = Shown[v]
<1>1. \A v \in Users \ {u} : Untouched(v)
  BY OthersUntouched DEF PInv
<1>2. \A v \in Alone : Solo(v)'
  BY <1>1, UntouchedSolo DEF PInv, Alone
<1>3. Resting'
  BY DEF PInv, Resting, Turns, At, IInv, TypeOK
<1>4. QED
  BY <1>1, <1>2, <1>3, OthersShown DEF PInv

LEMMA MayAskFacts ==
  ASSUME NEW u \in Alone, MayAsk(u)
  PROVE  Serving(u) = {}
BY DEF MayAsk, Serving, Alone

(* A request ends.                                                         *)
Ends(h, u) == proc[h].user = u /\ proc' = [proc EXCEPT ![h] = Idle]

LEMMA EndsStep ==
  ASSUME PInv, IInv', NEW h \in Handlers, NEW u \in Users, Ends(h, u), OnlyCart(u),
         owner' = owner, orders' = orders
  PROVE  /\ PInv'
         /\ \A v \in Alone \ {u} : Shown'[v] = Shown[v]
         /\ u \in Alone => Serving(u) = {h} /\ Items(u)' = carts'[u]
<1>1. Turns(h, u, Idle)
  BY DEF Ends, Turns, Idle
<1>2. ASSUME u \in Alone PROVE Serving(u) = {h} /\ Serving(u)' = {}
  <2>1. Serving(u) = {h}
    BY <1>2 DEF Ends, PInv, Solo, Serving
  <2>2. \A g \in Handlers : proc'[g].user # u
    BY <2>1, NoneAssumption DEF Ends, Serving, Idle, PInv, IInv, TypeOK
  <2>3. QED
    BY <2>1, <2>2 DEF Serving
<1>3. u \in Alone => Solo(u)'
  BY <1>2 DEF Solo
<1>4. PInv' /\ \A v \in Alone \ {u} : Shown'[v] = Shown[v]
  BY <1>1, <1>3, SameOrders, OneUser
<1>5. QED
  BY <1>2, <1>4, ItemsFreePrimed

(* A request is taken up.                                                  *)
Begins(h, u, state) ==
  /\ At(h, "idle") /\ MayAsk(u)
  /\ proc' = [proc EXCEPT ![h] = state]
  /\ state.user = u /\ state.pc \in {"write", "order"}
  /\ state.seen \in {carts[u], NoItems}
  /\ state.pc = "order" => state.seen # NoItems

LEMMA BeginsStep ==
  ASSUME PInv, IInv', NEW h \in Handlers, NEW u \in Users, NEW state, Begins(h, u, state),
         UNCHANGED <<carts, owner, ledgerVars>>
  PROVE  PInv' /\ [Promise!PromiseNext]_(Promise!promiseVars)
<1>1. proc[h].user = None /\ OnlyCart(u) /\ owner' = owner /\ orders' = orders /\ carts' = carts
  BY DEF Begins, PInv, Resting, Idle, OnlyCart, ledgerVars
<1>2. Turns(h, u, state)
  BY <1>1 DEF Begins, Turns
<1>3. proc'[h] = state /\ \A g \in Handlers \ {h} : proc'[g] = proc[g]
  BY DEF Begins, PInv, IInv, TypeOK
<1>4. ASSUME u \in Alone PROVE Serving(u) = {} /\ Serving(u)' = {h}
  <2>1. Serving(u) = {}
    BY <1>4, MayAskFacts DEF Begins
  <2>2. \A g \in Handlers : proc'[g].user = u <=> g = h
    BY <1>3, <2>1 DEF Begins, Serving
  <2>3. QED
    BY <2>1, <2>2 DEF Serving
<1>5. u \in Alone => Solo(u)'
  BY <1>1, <1>3, <1>4 DEF Begins, Solo, At
<1>6. PInv' /\ \A v \in Alone \ {u} : Shown'[v] = Shown[v]
  BY <1>1, <1>2, <1>5, SameOrders, OneUser DEF Begins
<1>7. u \in Alone => Items(u)' = Items(u)
  <2>1. SUFFICES ASSUME u \in Alone PROVE Items(u)' = Items(u)
    OBVIOUS
  <2>2. Items(u) = carts[u]
    BY <1>4, <2>1, ItemsFree
  <2>3. Items(u)' = IF proc'[h].pc = "clear" THEN NoItems
                    ELSE IF proc'[h].seen # NoItems THEN proc'[h].seen ELSE carts'[u]
    BY <1>4, <2>1, ItemsServedPrimed
  <2>4. QED
    BY <1>1, <1>3, <2>2, <2>3 DEF Begins
<1>8. Shown' = Shown
  BY <1>6, <1>7, ShownPrimed DEF Shown
<1>9. QED
  BY <1>1, <1>6, <1>8, SameOrders, SamePromise

LEMMA ReadSteps ==
  ASSUME PInv, IInv', NEW h \in Handlers, NEW u \in Users, NEW up \in BOOLEAN,
         \/ CheckoutRead(h, u, up)
         \/ \E change \in Changes \ {NoChange} : ChangeRead(h, u, change, up)
  PROVE  PInv' /\ [Promise!PromiseNext]_(Promise!promiseVars)
<1>1. Fetched(u, up) \in {carts[u], NoItems}
  BY DEF Fetched, Key
<1>2. ASSUME CheckoutRead(h, u, up) PROVE PInv' /\ [Promise!PromiseNext]_(Promise!promiseVars)
  <2>1. PICK state : state = [pc |-> "order", user |-> u, change |-> NoChange, seen |-> Fetched(u, up)]
    OBVIOUS
  <2>2. Begins(h, u, state)
    BY <1>1, <1>2, <2>1 DEF CheckoutRead, Begins
  <2>3. QED
    BY <1>2, <2>2, BeginsStep DEF CheckoutRead
<1>3. ASSUME NEW change \in Changes \ {NoChange}, ChangeRead(h, u, change, up)
      PROVE  PInv' /\ [Promise!PromiseNext]_(Promise!promiseVars)
  <2>1. PICK state : state = [pc |-> "write", user |-> u, change |-> change, seen |-> Fetched(u, up)]
    OBVIOUS
  <2>2. Begins(h, u, state)
    BY <1>1, <1>3, <2>1 DEF ChangeRead, Begins
  <2>3. QED
    BY <1>3, <2>2, BeginsStep DEF ChangeRead
<1>4. QED
  BY <1>2, <1>3

(* A cart that stays, that empties, or that another user has.              *)
LEMMA StaysOrEmpties ==
  ASSUME NEW u \in Users, \A v \in Alone \ {u} : Shown'[v] = Shown[v], Bought' = Bought,
         u \in Alone => Items(u)' \in {Items(u), NoItems}
  PROVE  [Promise!PromiseNext]_(Promise!promiseVars)
<1>1. CASE u \in Alone /\ Items(u)' = NoItems
  BY <1>1, UserShown, EmptyFacts, ForgetPromise
<1>2. CASE u \in Alone => Items(u)' = Items(u)
  <2>1. Shown' = Shown
    BY <1>2, ShownPrimed DEF Shown
  <2>2. QED
    BY <2>1, SamePromise
<1>3. QED
  BY <1>1, <1>2

(* What was ordered is back in a cart that was shown empty.                *)
LEMMA ReturnsStep ==
  ASSUME PInv, NEW u \in Alone, NEW h, Serving(u) = {h}, At(h, "clear"),
         \A v \in Alone \ {u} : Shown'[v] = Shown[v], Bought' = Bought,
         Items(u)' = proc[h].seen
  PROVE  [Promise!PromiseNext]_(Promise!promiseVars)
<1>1. PICK o \in Orders : owner[o] = u /\ orders[o] = proc[h].seen
  BY DEF PInv, Solo
<1>2. Shown[u] = Promise!Empty
  BY ItemsServed, EmptyFacts DEF Shown
<1>3. Bought[o] = [by |-> u, quantities |-> Amounts(proc[h].seen)]
  BY <1>1 DEF Bought
<1>4. Bought[o] # Unplaced /\ Bought[o].by = u
  BY <1>3, NoneAssumption DEF Unplaced, Alone
<1>5. Shown' = [Shown EXCEPT ![u] = Bought[o].quantities]
  BY <1>3, UserShown
<1>6. QED
  BY <1>2, <1>4, <1>5, ReturnPromise

(* A request that ends and leaves the cart, or empties it.                 *)
LEMMA EndsPromise ==
  ASSUME PInv, IInv', NEW h \in Handlers, NEW u \in Users, Ends(h, u), OnlyCart(u),
         owner' = owner, orders' = orders, carts'[u] \in {carts[u], NoItems}
  PROVE  PInv' /\ [Promise!PromiseNext]_(Promise!promiseVars)
<1>1. /\ PInv'
      /\ \A v \in Alone \ {u} : Shown'[v] = Shown[v]
      /\ u \in Alone => Serving(u) = {h} /\ Items(u)' = carts'[u]
  BY EndsStep
<1>2. Bought' = Bought
  BY SameOrders
<1>3. CASE u \in Alone /\ At(h, "clear") /\ Items(u)' = proc[h].seen
  BY <1>1, <1>2, <1>3, ReturnsStep
<1>4. CASE u \in Alone => Items(u)' \in {Items(u), NoItems}
  BY <1>1, <1>2, <1>4, StaysOrEmpties
<1>5. ASSUME u \in Alone
      PROVE  \/ At(h, "clear") /\ Items(u)' = proc[h].seen
             \/ Items(u)' \in {Items(u), NoItems}
  <2>1. Serving(u) = {h} /\ Items(u)' \in {carts[u], NoItems}
    BY <1>1, <1>5
  <2>2. proc[h].seen # NoItems => carts[u] \in {proc[h].seen, NoItems}
    BY <1>5, <2>1 DEF PInv, Solo
  <2>3. Items(u) = IF At(h, "clear") THEN NoItems
                   ELSE IF proc[h].seen # NoItems THEN proc[h].seen ELSE carts[u]
    BY <2>1, ItemsServed
  <2>4. At(h, "clear") => proc[h].seen # NoItems
    BY <1>5, <2>1 DEF PInv, Solo, At
  <2>5. QED
    BY <2>1, <2>2, <2>3, <2>4
<1>6. QED
  BY <1>1, <1>3, <1>4, <1>5

LEMMA OfUser ==
  ASSUME IInv, NEW h \in Handlers, ~At(h, "idle")
  PROVE  proc[h].user \in Users
BY DEF IInv, Ready

LEMMA FailPromise ==
  ASSUME PInv, IInv', NEW h \in Handlers, Fail(h)
  PROVE  PInv' /\ [Promise!PromiseNext]_(Promise!promiseVars)
<1>1. PICK u \in Users : u = proc[h].user
  BY OfUser DEF PInv, Fail
<1>2. Ends(h, u) /\ OnlyCart(u) /\ owner' = owner /\ orders' = orders /\ carts' = carts
  BY <1>1 DEF Fail, Ends, OnlyCart, ledgerVars
<1>3. QED
  BY <1>2, EndsPromise

LEMMA StoredCart ==
  ASSUME IInv, NEW u \in Users, NEW cart, NEW up \in BOOLEAN, Stored(u, cart, up)
  PROVE  OnlyCart(u) /\ carts'[u] = IF up THEN cart ELSE carts[u]
BY DEF Stored, Key, OnlyCart, IInv, TypeOK

LEMMA CheckoutClearPromise ==
  ASSUME PInv, IInv', NEW h \in Handlers, NEW up \in BOOLEAN, CheckoutClear(h, up)
  PROVE  PInv' /\ [Promise!PromiseNext]_(Promise!promiseVars)
<1>1. PICK u \in Users : u = proc[h].user
  BY OfUser DEF PInv, CheckoutClear, At
<1>2. OnlyCart(u) /\ carts'[u] \in {carts[u], NoItems}
  BY <1>1, StoredCart DEF CheckoutClear, PInv
<1>3. Ends(h, u) /\ owner' = owner /\ orders' = orders
  BY <1>1 DEF CheckoutClear, Ends, ledgerVars
<1>4. QED
  BY <1>2, <1>3, EndsPromise

LEMMA ChangeWritePromise ==
  ASSUME PInv, IInv', NEW h \in Handlers, NEW up \in BOOLEAN, ChangeWrite(h, up)
  PROVE  PInv' /\ [Promise!PromiseNext]_(Promise!promiseVars)
<1>1. PICK u \in Users : u = proc[h].user
  BY OfUser DEF PInv, ChangeWrite, At
<1>2. PICK seen : seen = proc[h].seen
  OBVIOUS
<1>3. PICK change : change = proc[h].change
  OBVIOUS
<1>4. PICK cart : cart = Changed(seen, change)
  OBVIOUS
<1>5. OnlyCart(u) /\ carts'[u] = IF up THEN cart ELSE carts[u]
  BY <1>1, <1>2, <1>3, <1>4, StoredCart DEF ChangeWrite, PInv
<1>6. Ends(h, u) /\ owner' = owner /\ orders' = orders
  BY <1>1 DEF ChangeWrite, Ends, ledgerVars
<1>7. CASE u \notin Alone \/ ~up
  <2>1. CASE u \notin Alone
    BY <1>5, <1>6, <2>1, EndsStep, SameOrders, StaysOrEmpties
  <2>2. CASE ~up
    BY <1>5, <1>6, <2>2, EndsPromise
  <2>3. QED
    BY <1>7, <2>1, <2>2
<1>8. CASE u \in Alone /\ up
  <2>1. /\ PInv'
        /\ \A v \in Alone \ {u} : Shown'[v] = Shown[v]
        /\ Serving(u) = {h} /\ Items(u)' = cart
    BY <1>5, <1>6, <1>8, EndsStep
  <2>2. Bought' = Bought
    BY <1>6, SameOrders
  <2>3. /\ seen \in Baskets /\ Distinct(seen) /\ change \in Changes \ {NoChange}
        /\ change.kind = "set" => Has(seen, change.product)
        /\ cart \in Baskets
    BY <1>2, <1>3, <1>4, CartsAssumption DEF ChangeWrite, PInv, IInv, TypeOK, HandlerState, Ready, At
  <2>4. PICK p \in Products : p = change.product
    BY <2>3 DEF Changes
  <2>5. \A r \in Products \ {p} : Amount(cart, r) = Amount(seen, r)
    BY <1>4, <2>3, <2>4, ChangedAmount
  <2>6. Shown' = [Shown EXCEPT ![u] = Amounts(cart)]
    BY <1>8, <2>1, UserShown
  <2>7. Items(u) = IF seen # NoItems THEN seen ELSE carts[u]
    BY <1>2, <2>1, ItemsServed DEF ChangeWrite, At
  <2>8. Shown[u] = Amounts(seen) \/ Amounts(seen) = Promise!Empty
    BY <1>8, <2>7, EmptyFacts DEF Shown
  <2>9. Promise!SameBut(p, Amounts(seen), Amounts(cart))
    BY <2>5 DEF Amounts, Promise!SameBut
  <2>10. Shown'[u] = Amounts(cart) /\ Shown' \in [Alone -> [Products -> SUBSET Int]]
    <3>1. \A v \in Alone : Items(v) \in Baskets
      BY NoItemsFacts DEF Items, Serving, Alone, PInv, IInv, TypeOK, HandlerState
    <3>2. \A v \in Alone : Shown[v] \in [Products -> SUBSET Int]
      BY <3>1, AmountsInt DEF Shown
    <3>3. Amounts(cart) \in [Products -> SUBSET Int]
      BY <2>3, AmountsInt
    <3>4. Shown = [v \in Alone |-> Shown[v]]
      BY DEF Shown
    <3>5. QED
      BY <1>8, <2>6, <3>2, <3>3, <3>4
  <2>11. \A q, n \in Shown'[u][p] : q = n
    <3>1. Distinct(cart)
      BY <1>4, <2>3, ChangedDistinct
    <3>2. Shown'[u][p] = Amount(cart, p)
      BY <2>10 DEF Amounts
    <3>3. QED
      BY <3>1, <3>2, AmountOne
  <2>12. QED
    BY <1>8, <2>1, <2>2, <2>8, <2>9, <2>10, <2>11, ChangePromise
<1>9. QED
  BY <1>7, <1>8

LEMMA CheckoutOrderPromise ==
  ASSUME PInv, IInv', NEW h \in Handlers, NEW o \in Orders, CheckoutOrder(h, o)
  PROVE  PInv' /\ [Promise!PromiseNext]_(Promise!promiseVars)
<1>1. PICK u \in Users : u = proc[h].user
  BY OfUser DEF PInv, CheckoutOrder, At
<1>2. PICK seen : seen = proc[h].seen
  OBVIOUS
<1>3. PICK state : state = [proc[h] EXCEPT !.pc = "clear"]
  OBVIOUS
<1>4. proc[h] \in HandlerState /\ seen \in Baskets /\ Distinct(seen) /\ seen # NoItems
  BY <1>2 DEF CheckoutOrder, Sell, NoOrder, NoItems, PInv, IInv, TypeOK, HandlerState, Ready
<1>5. state.pc = "clear" /\ state.user = u /\ state.seen = seen
  BY <1>1, <1>2, <1>3, <1>4 DEF HandlerState
<1>6. Turns(h, u, state) /\ OnlyCart(u) /\ carts' = carts
  BY <1>1, <1>3, <1>5 DEF CheckoutOrder, Turns, OnlyCart
<1>7. proc'[h] = state /\ \A g \in Handlers \ {h} : proc'[g] = proc[g]
  BY <1>6 DEF Turns, PInv, IInv, TypeOK
<1>8. /\ orders[o] = NoOrder /\ owner[o] = None
      /\ orders' = [orders EXCEPT ![o] = seen] /\ owner' = [owner EXCEPT ![o] = u]
      /\ orders'[o] = seen /\ owner'[o] = u
  BY <1>1, <1>2 DEF CheckoutOrder, Sell, PInv, IInv, TypeOK
<1>9. OrdersKept
  BY <1>8 DEF OrdersKept, PInv, IInv, TypeOK
<1>10. ASSUME u \in Alone PROVE Serving(u) = {h} /\ Serving(u)' = {h}
  <2>1. Serving(u) = {h}
    BY <1>1, <1>10 DEF PInv, Solo, Serving
  <2>2. \A g \in Handlers : proc'[g].user = u <=> g = h
    BY <1>5, <1>7, <2>1 DEF Serving
  <2>3. QED
    BY <2>1, <2>2 DEF Serving
<1>11. ASSUME u \in Alone PROVE Solo(u)'
  <2>1. carts[u] \in {seen, NoItems}
    BY <1>2, <1>4, <1>10, <1>11 DEF PInv, Solo
  <2>2. QED
    BY <1>4, <1>5, <1>6, <1>7, <1>8, <1>10, <1>11, <2>1 DEF Solo, At
<1>12. PInv' /\ \A v \in Alone \ {u} : Shown'[v] = Shown[v]
  BY <1>5, <1>6, <1>9, <1>11, OneUser
<1>13. CASE u \in Alone
  <2>1. Items(u) = seen
    BY <1>2, <1>4, <1>10, <1>13, ItemsServed DEF CheckoutOrder, At
  <2>2. Items(u)' = NoItems
    BY <1>5, <1>7, <1>10, <1>13, ItemsServedPrimed
  <2>3. Shown[u] = Amounts(seen)
    BY <1>13, <2>1 DEF Shown
  <2>4. Shown[u] # Promise!Empty
    BY <1>4, <2>3, AmountsSome, EmptyFacts
  <2>5. Shown' = [Shown EXCEPT ![u] = Promise!Empty]
    BY <1>12, <1>13, <2>2, UserShown, EmptyFacts
  <2>6. Bought[o] = Unplaced
    BY <1>8, NoneAssumption DEF Bought, Alone
  <2>7. Bought' = [Bought EXCEPT ![o] = [by |-> u, quantities |-> Shown[u]]]
    <3>1. /\ Bought'[o] = [by |-> u, quantities |-> Amounts(seen)]
          /\ Bought' = [q \in Orders |-> Bought'[q]]
      BY <1>8, <1>13, BoughtPrimed
    <3>2. \A q \in Orders \ {o} : owner'[q] = owner[q] /\ orders'[q] = orders[q]
      BY <1>8 DEF PInv, IInv, TypeOK
    <3>3. \A q \in Orders \ {o} : Bought'[q] = Bought[q]
      BY <3>2, BoughtPrimed DEF Bought
    <3>4. QED
      BY <2>3, <3>1, <3>3 DEF Bought
  <2>8. QED
    BY <1>12, <1>13, <2>4, <2>5, <2>6, <2>7, BuyPromise
<1>14. CASE u \notin Alone
  <2>1. Shown' = Shown
    BY <1>12, <1>14, ShownPrimed DEF Shown
  <2>2. Bought' = Bought
    <3>1. \A q \in Orders \ {o} : owner'[q] = owner[q] /\ orders'[q] = orders[q]
      BY <1>8 DEF PInv, IInv, TypeOK
    <3>2. owner[o] \notin Alone /\ owner'[o] \notin Alone
      BY <1>8, <1>14, NoneAssumption DEF Alone
    <3>3. QED
      BY <3>1, <3>2, BoughtPrimed DEF Bought
  <2>3. QED
    BY <1>12, <2>1, <2>2, SamePromise
<1>15. QED
  BY <1>13, <1>14

(* A document goes, whether or not its user has a request under way.       *)
LEMMA GoesPromise ==
  ASSUME PInv, IInv', NEW u \in Users, proc' = proc, OnlyCart(u), owner' = owner,
         orders' = orders, carts'[u] \in {carts[u], NoItems}
  PROVE  PInv' /\ [Promise!PromiseNext]_(Promise!promiseVars)
<1>1. \A v \in Users : Serving(v)' = Serving(v)
  BY DEF Serving
<1>2. \A v \in Users \ {u} : Untouched(v)
  BY <1>1 DEF Untouched, OnlyCart
<1>3. OrdersKept /\ Bought' = Bought
  BY SameOrders
<1>4. \A v \in Alone \ {u} : Solo(v)'
  BY <1>2, <1>3, UntouchedSolo DEF PInv, Alone
<1>5. ASSUME u \in Alone PROVE Solo(u)'
  <2>1. Solo(u)
    BY <1>5 DEF PInv
  <2>2. QED
    BY <1>1, <2>1 DEF Solo, At
<1>6. PInv'
  BY <1>4, <1>5 DEF PInv, Resting, At
<1>7. ASSUME u \in Alone PROVE Items(u)' \in {Items(u), NoItems}
  <2>1. CASE Serving(u) = {}
    BY <1>1, <2>1, ItemsFree, ItemsFreePrimed
  <2>2. ASSUME NEW h \in Serving(u) PROVE Items(u)' \in {Items(u), NoItems}
    <3>1. Serving(u) = {h} /\ Serving(u)' = {h}
      BY <1>1, <1>7, <2>2 DEF PInv, Solo
    <3>2. Items(u) = IF At(h, "clear") THEN NoItems
                     ELSE IF proc[h].seen # NoItems THEN proc[h].seen ELSE carts[u]
      BY <3>1, ItemsServed
    <3>3. Items(u)' = IF proc'[h].pc = "clear" THEN NoItems
                      ELSE IF proc'[h].seen # NoItems THEN proc'[h].seen ELSE carts'[u]
      BY <3>1, ItemsServedPrimed
    <3>4. QED
      BY <3>2, <3>3 DEF At
  <2>3. QED
    BY <2>1, <2>2
<1>8. \A v \in Alone \ {u} : Shown'[v] = Shown[v]
  BY <1>2, OthersShown
<1>9. QED
  BY <1>3, <1>6, <1>7, <1>8, StaysOrEmpties

LEMMA InitPInv == Init => PInv
<1> SUFFICES ASSUME Init PROVE PInv
  OBVIOUS
<1>1. \A h \in Handlers : proc[h] = Idle
  BY DEF Init
<1>2. \A u \in Alone : Serving(u) = {}
  BY <1>1, NoneAssumption DEF Serving, Alone, Idle
<1>3. QED
  BY <1>1, <1>2, InitIInv DEF PInv, Resting, Solo

LEMMA StepPromise ==
  PInv /\ [Next]_vars => PInv' /\ [Promise!PromiseNext]_(Promise!promiseVars)
<1> SUFFICES ASSUME PInv, [Next]_vars
             PROVE  PInv' /\ [Promise!PromiseNext]_(Promise!promiseVars)
  OBVIOUS
<1>1. IInv'
  BY StepIInv DEF PInv
<1>2. CASE UNCHANGED vars
  <2>1. UNCHANGED <<carts, owner, proc, orders>>
    BY <1>2 DEF vars
  <2>2. \A v \in Users : Untouched(v)
    BY <2>1 DEF Untouched, Serving
  <2>3. OrdersKept /\ Bought' = Bought
    BY <2>1, SameOrders
  <2>4. PInv'
    BY <1>1, <2>1, <2>2, <2>3, UntouchedSolo DEF PInv, Resting, At, Alone
  <2>5. Shown' = Shown
    BY <2>2, UntouchedItems, ShownPrimed DEF Shown, Alone
  <2>6. QED
    BY <2>3, <2>4, <2>5, SamePromise
<1>3. ASSUME NEW h \in Handlers, Serve(h)
      PROVE  PInv' /\ [Promise!PromiseNext]_(Promise!promiseVars)
  BY <1>1, <1>3, ReadSteps, ChangeWritePromise, CheckoutClearPromise, CheckoutOrderPromise,
     FailPromise DEF Serve
<1>4. ASSUME NEW u \in Users, NEW up \in BOOLEAN, ClearCart(u, up)
      PROVE  PInv' /\ [Promise!PromiseNext]_(Promise!promiseVars)
  <2>1. OnlyCart(u) /\ carts'[u] \in {carts[u], NoItems}
    BY <1>4, StoredCart DEF ClearCart, PInv
  <2>2. QED
    BY <1>1, <1>4, <2>1, GoesPromise DEF ClearCart, ledgerVars
<1>5. ASSUME NEW u \in Users, Expire(u)
      PROVE  PInv' /\ [Promise!PromiseNext]_(Promise!promiseVars)
  <2>1. OnlyCart(u) /\ carts'[u] \in {carts[u], NoItems}
    BY <1>5 DEF Expire, OnlyCart, PInv, IInv, TypeOK
  <2>2. QED
    BY <1>1, <1>5, <2>1, GoesPromise DEF Expire, ledgerVars
<1>6. QED
  BY <1>2, <1>3, <1>4, <1>5 DEF Next

(* To a user who sends one request at a time, the reads, writes, losses    *)
(* and expiries of the document add up to the steps of CartPromise: a      *)
(* change moves one product, an order takes the whole cart, and what is    *)
(* lost is lost whole, whatever the other users do.                        *)
THEOREM CartKeepsPromise == Spec => KeepsCart
<1>1. Init => Promise!PromiseInit
  <2>1. SUFFICES ASSUME Init PROVE Promise!PromiseInit
    OBVIOUS
  <2>2. \A u \in Alone : Items(u) = NoItems
    BY <2>1, InitPInv, ItemsFree, NoneAssumption DEF Init, Idle, Serving, Alone
  <2>3. \A o \in Orders : owner[o] \notin Alone
    BY <2>1, NoneAssumption DEF Init, Alone
  <2>4. QED
    BY <2>2, <2>3, EmptyFacts DEF Promise!PromiseInit
<1>2. QED
  BY <1>1, InitPInv, StepPromise, PTL DEF Spec, KeepsCart, Promise!PromiseSpec

=============================================================================
