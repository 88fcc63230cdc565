--------------------------- MODULE MCTokenLineage ---------------------------
(***************************************************************************)
(* Small instances of TokenLineage for TLC.                                 *)
(***************************************************************************)
EXTENDS TokenLineage, TLC

CONSTANTS w1, w2, w3, u1, u2, t1, t2, t3

\* Who owns the lineages, in the order they are opened.
OneUser == [l \in Lineages |-> u1]
TwoUsers == [l \in Lineages |-> IF l = 1 THEN u1 ELSE u2]

\* Requests and crashes only: no token expires or is pruned, no account is
\* deactivated.  Leaves room for a third concurrent request.
QuietSpec == Init /\ [][\E w \in Workers : Begin(w) \/ Work(w) \/ Fail(w)]_vars
FairQuietSpec == QuietSpec /\ Fairness

Symmetry == Permutations(Workers) \union Permutations(Tokens)
=============================================================================
