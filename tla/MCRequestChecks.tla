---------------------------- MODULE MCRequestChecks ----------------------------
EXTENDS RequestChecks, TLC

CONSTANTS acme, public, dean

MCHome == [sid \in Sessions |-> acme]
MCRoleScopes == dean :> {<<"courses", "admin">>}
MCBaseScopes == {<<"profile", "read">>}
MCViews ==
    {[check |-> "authenticated"], [check |-> "member"],
     [check |-> "scopes", need |-> {<<"courses", "read">>, <<"profile", "read">>}],
     [check |-> "roles", need |-> {dean}],
     [check |-> "method", resource |-> "courses", method |-> "DELETE"]}

Symmetry == Permutations(Sessions) \union Permutations(Workers)
=============================================================================
