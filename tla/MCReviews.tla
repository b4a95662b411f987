----------------------------- MODULE MCReviews -----------------------------
(***************************************************************************)
(* Small instances of Reviews for TLC.                                     *)
(***************************************************************************)
EXTENDS Reviews

=============================================================================
