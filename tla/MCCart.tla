------------------------------- MODULE MCCart -------------------------------
(***************************************************************************)
(* Small instances of Cart for TLC.                                        *)
(***************************************************************************)
EXTENDS Cart, TLC

CONSTANTS p1, p2, t1
OneShop == [p \in {p1, p2} |-> t1]

SomeQuantities == {-1, 0, 1}

(* None, or one of p1 in any quantity, or one each of p2 or of p1 and      *)
(* another item.                                                           *)
SmallCarts ==
  {cart \in Baskets :
     \/ Len(cart) = 1 /\ cart[1].product = p1
     \/ /\ \A i \in DOMAIN cart : cart[i].quantity = 1
        /\ Len(cart) = 2 => cart[1].product = p1}

(* Requests are interchangeable. *)
Sym == Permutations(Handlers)

=============================================================================
