---------------------------- MODULE MCInventory ----------------------------
(***************************************************************************)
(* Small instances of Inventory for TLC.  Handlers and order ids are       *)
(* model values no action tells apart; products are told apart by their    *)
(* seller.                                                                 *)
(***************************************************************************)
EXTENDS Inventory, TLC

CONSTANTS p1, p2, p3, s1, s2

OneShop == [p \in {p1, p2} |-> s1]
TwoShops == (p1 :> s1) @@ (p2 :> s1) @@ (p3 :> s2)

(* An item that takes, and one that gives: no DTO's rule is applied.       *)
Signed == {-1, 1}

Symmetry == Permutations(Handlers) \union Permutations(Orders)

(* In one shop the products are alike too.                                 *)
OneShopSymmetry == Symmetry \union Permutations({p1, p2})

=============================================================================
