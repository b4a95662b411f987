------------------------------ MODULE MCEscrow ------------------------------
(***************************************************************************)
(* Small instances of Escrow for TLC.  Orders, references, tokens and      *)
(* handlers are model values that no action tells apart, so that the       *)
(* safety runs may take the states up to their permutations.               *)
(***************************************************************************)
EXTENDS Escrow, TLC

Symmetry ==
  Permutations(Orders) \union Permutations(Refs)
    \union Permutations(Tokens) \union Permutations(Handlers)

=============================================================================
