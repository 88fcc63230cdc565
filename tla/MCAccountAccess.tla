-------------------------- MODULE MCAccountAccess --------------------------
(***************************************************************************)
(* Small instances of AccountAccess for TLC.                                *)
(***************************************************************************)
EXTENDS AccountAccess, TLC

\* Calls, refreshes, logins and password changes, in the order they happen to run:
\* nothing revokes the account, no worker dies and no invalidation is lost.
ChangesSpec ==
    Init /\ [][\/ /\ \E w \in Workers : Begin(w) \/ Continue(w)
                  /\ \A w \in Workers :
                        /\ req'[w].op \in {"none", "call", "change", "login"}
                        /\ Stage(w) = "invalidate" /\ req'[w] # req[w] => cached' = NoEntry
               \/ CacheExpire]_vars

Symmetry == Permutations(Workers) \union Permutations(Tokens)
=============================================================================
