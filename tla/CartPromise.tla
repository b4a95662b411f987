---------------------------- MODULE CartPromise ----------------------------
(***************************************************************************)
(* What a cart promises a user who does one thing at a time, with no       *)
(* document in Redis and no request in sight: a change concerns one        *)
(* product, an order holds what the cart holds and empties it in the same  *)
(* step, and a cart may be forgotten whole.                                *)
(*                                                                         *)
(* It does not promise that a cart is ordered once: what was ordered may   *)
(* return to the cart, again whole, when the cart could not be deleted.    *)
(* Cart.tla shows that CartService implements this module.                 *)
(***************************************************************************)
EXTENDS Integers

CONSTANTS Users, Products, Orders, Unplaced

VARIABLES
  cart,     \* the quantities of each product in each user's cart, one at most
  placed    \* who placed each order, and the quantities ordered; or Unplaced

promiseVars == <<cart, placed>>

Empty == [p \in Products |-> {}]

PromiseInit ==
  /\ cart = [u \in Users |-> Empty]
  /\ placed = [o \in Orders |-> Unplaced]

SameBut(p, before, after) == \A r \in Products \ {p} : after[r] = before[r]

(* A cart that cannot be read is started anew.                             *)
Change(u, p) ==
  /\ cart' \in [Users -> [Products -> SUBSET Int]]
  /\ \A q, n \in cart'[u][p] : q = n
  /\ SameBut(p, cart[u], cart'[u]) \/ SameBut(p, Empty, cart'[u])
  /\ \A v \in Users \ {u} : cart'[v] = cart[v]
  /\ UNCHANGED placed

Forget(u) ==
  /\ cart' = [cart EXCEPT ![u] = Empty]
  /\ UNCHANGED placed

Buy(u, o) ==
  /\ cart[u] # Empty /\ placed[o] = Unplaced
  /\ placed' = [placed EXCEPT ![o] = [by |-> u, quantities |-> cart[u]]]
  /\ cart' = [cart EXCEPT ![u] = Empty]

Return(u, o) ==
  /\ cart[u] = Empty
  /\ placed[o] # Unplaced /\ placed[o].by = u
  /\ cart' = [cart EXCEPT ![u] = placed[o].quantities]
  /\ UNCHANGED placed

PromiseNext ==
  \E u \in Users :
    \/ \E p \in Products : Change(u, p)
    \/ Forget(u)
    \/ \E o \in Orders : Buy(u, o) \/ Return(u, o)

PromiseSpec == PromiseInit /\ [][PromiseNext]_promiseVars

=============================================================================
