------------------------- MODULE MCTenantCatalogue -------------------------
(***************************************************************************)
(* Small instances of TenantCatalogue for TLC.                              *)
(***************************************************************************)
EXTENDS TenantCatalogue, TLC

Symmetry == Permutations(Schemas) \union Permutations(Hosts) \union Permutations(Pks)
            \union Permutations(Operators) \union Permutations(Requests)
=============================================================================
