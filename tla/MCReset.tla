------------------------------ MODULE MCReset -------------------------------
(***************************************************************************)
(* Reset for TLC: the cards differ in nothing but their name.              *)
(***************************************************************************)
EXTENDS Reset, TLC

CardSymmetry == Permutations(Cards)

=============================================================================
