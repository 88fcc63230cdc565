----------------------------- MODULE MCLockout -----------------------------
(***************************************************************************)
(* Lockout for TLC.                                                        *)
(***************************************************************************)
EXTENDS Lockout, TLC

Symmetry == Permutations(Workers) \union Permutations(Addresses)
=============================================================================
