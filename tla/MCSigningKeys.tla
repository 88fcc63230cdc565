--------------------------- MODULE MCSigningKeys ---------------------------
(***************************************************************************)
(* SigningKeys for TLC.                                                    *)
(***************************************************************************)
EXTENDS SigningKeys, TLC

Symmetry == Permutations(Workers) \union Permutations(Kids) \union Permutations(Operators)
=============================================================================
