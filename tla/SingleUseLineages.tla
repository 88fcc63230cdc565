------------------------- MODULE SingleUseLineages -------------------------
(***************************************************************************)
(* What the refresh service promises ("Redeems a refresh token for a new     *)
(* pair, exactly once"): a lineage has at most one token that can be         *)
(* exchanged, its head; an exchange spends the head and puts a token never   *)
(* seen before in its place; a closed lineage has no head and never opens    *)
(* again; a spent token is spent for good.                                   *)
(***************************************************************************)
CONSTANTS Lineages, Tokens, NoToken

VARIABLES
    stage,  \* "unopened", "open" or "closed"
    head,   \* the token of each lineage that can be exchanged, if any
    spent   \* tokens that cannot be exchanged any more

vars == <<stage, head, spent>>

Fresh(n) == n \in Tokens \ spent /\ \A l \in Lineages : head[l] # n
Heads(C) == {head[l] : l \in C} \ {NoToken}

Init ==
    /\ stage = [l \in Lineages |-> "unopened"]
    /\ head = [l \in Lineages |-> NoToken]
    /\ spent = {}

\* A login (or the session a password change keeps), closing others with it.
Open(l, n, C) ==
    /\ stage[l] = "unopened" /\ Fresh(n)
    /\ stage' = [k \in Lineages |-> IF k = l THEN "open"
                                    ELSE IF k \in C THEN "closed" ELSE stage[k]]
    /\ head' = [k \in Lineages |-> IF k = l THEN n
                                   ELSE IF k \in C THEN NoToken ELSE head[k]]
    /\ spent' = spent \union Heads(C)

\* An exchange of the head for a fresh token.
Rotate(l, n) ==
    /\ stage[l] = "open" /\ head[l] # NoToken /\ Fresh(n)
    /\ head' = [head EXCEPT ![l] = n]
    /\ spent' = spent \union {head[l]}
    /\ UNCHANGED stage

\* Logout, the session cap, reuse detection.
Close(C) ==
    /\ stage' = [k \in Lineages |-> IF k \in C THEN "closed" ELSE stage[k]]
    /\ head' = [k \in Lineages |-> IF k \in C THEN NoToken ELSE head[k]]
    /\ spent' = spent \union Heads(C)

\* The head expires.
Lapse(l) ==
    /\ head[l] # NoToken
    /\ head' = [head EXCEPT ![l] = NoToken]
    /\ spent' = spent \union {head[l]}
    /\ UNCHANGED stage

Opened == {l \in Lineages : stage[l] # "unopened"}

Next ==
    \/ \E C \in SUBSET Opened : Close(C)
    \/ \E C \in SUBSET Opened, l \in Lineages, n \in Tokens : Open(l, n, C)
    \/ \E l \in Lineages : Lapse(l) \/ \E n \in Tokens : Rotate(l, n)

Spec == Init /\ [][Next]_vars
=============================================================================
