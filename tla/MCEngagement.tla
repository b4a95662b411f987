---------------------------- MODULE MCEngagement ----------------------------
(***************************************************************************)
(* A small instance of Engagement for TLC.                                 *)
(***************************************************************************)
EXTENDS Engagement, TLC

Symmetry == Permutations(Users) \union Permutations(Tenants) \union Permutations(Handlers)
=============================================================================
