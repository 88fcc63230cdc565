---------------------------- MODULE TokenLineage ----------------------------
(***************************************************************************)
(* The refresh-token lineages of one tenant schema, and the requests that   *)
(* read and write them: login (with the session cap), refresh rotation,     *)
(* reuse detection and its teardown, single-session logout, logout           *)
(* everywhere and password change.                                          *)
(*                                                                         *)
(* A lineage is one login: a DeviceSession row and its TokenFamily row       *)
(* (services always create the two together), plus the RefreshToken rows    *)
(* minted along it.  A worker runs one request at a time; a request runs    *)
(* its transaction one SQL statement at a time under READ COMMITTED, so     *)
(* every statement has a snapshot of its own, every UPDATE and every        *)
(* SELECT ... FOR UPDATE waits for the row locks it needs, and locks are     *)
(* kept until the transaction ends.  Because a written row stays locked      *)
(* until commit, a transaction's writes are applied together, at commit.    *)
(***************************************************************************)
EXTENDS Naturals, FiniteSets

CONSTANTS
    Workers,        \* request handlers: gunicorn workers, management commands
    NoWorker,       \* "this row is not locked"
    Users,          \* accounts of the schema
    NoUser,         \* a request that has not resolved its account
    NumLineages,    \* bound on the logins that can happen
    Owner,          \* the account each lineage belongs to
    Tokens,         \* bound on the refresh tokens that can be minted
    NoToken,        \* a null replaced_by, or no token presented
    Cap             \* JWT_AUTH["MAX_ACTIVE_SESSIONS_PER_USER"]

\* Lineages are numbered in the order of their creation (created_at).
Lineages == 1 .. NumLineages
NoLineage == 0

ASSUME ConstantsAssumption ==
    /\ NumLineages \in Nat
    /\ Owner \in [Lineages -> Users]
    /\ Cap \in Nat \ {0}
    /\ IsFiniteSet(Workers)
    /\ NoWorker \notin Workers
    /\ NoToken \notin Tokens
    /\ NoUser \notin Users

VARIABLES
    enabled,    \* accounts that are is_active and not soft-deleted
    opened,     \* lineages whose DeviceSession and TokenFamily rows exist
    ended,      \* lineages whose session has ended_at set
    revoked,    \* lineages whose family has revoked_at set
    status,     \* RefreshToken.status, or "unminted" / "pruned" without a row
    family,     \* RefreshToken.family
    successor,  \* RefreshToken.replaced_by
    overdue,    \* tokens whose expires_at has passed
    denied,     \* refresh jtis the Redis denylist answers for
    holder,     \* the worker that has each row locked
    tx          \* what each worker is doing

rows == <<opened, ended, revoked, status, family, successor>>
clock == <<enabled, overdue>>
vars == <<enabled, opened, ended, revoked, status, family, successor,
          overdue, denied, holder, tx>>

Status == {"active", "rotated", "revoked", "expired", "compromised"}

Rows == ({"token"} \X Tokens) \union ({"user"} \X Users)
            \union ({"family", "session"} \X Lineages)
TokenRow(t) == <<"token", t>>
UserRow(u) == <<"user", u>>
FamilyRow(l) == <<"family", l>>
SessionRow(l) == <<"session", l>>

Ops == {"none", "refresh", "reuse", "end", "revoke_all", "change", "login"}
Stages == {"idle", "redeem", "mint", "stamp", "detected", "teardown", "count",
           "surplus", "sessions", "tokens", "families", "user", "denylist",
           "commit"}

\* A worker's request: what it does, where it is, the account and the token it
\* works for, the lineages and tokens its UPDATEs cover, the tokens it will
\* denylist, and how many sessions the cap says must go.
Request ==
    [op: Ops, stage: Stages, user: Users \union {NoUser}, token: Tokens \union {NoToken},
     targets: SUBSET Lineages, scope: SUBSET Tokens, live: SUBSET Tokens,
     room: Nat]

NewRequest(op, stage, u, t, targets) ==
    [op |-> op, stage |-> stage, user |-> u, token |-> t, targets |-> targets,
     scope |-> {}, live |-> {}, room |-> 0]
Idle == NewRequest("none", "idle", NoUser, NoToken, {})

Stage(w) == tx[w].stage
Busy(w) == Stage(w) # "idle"

Exists(t) == status[t] \notin {"unminted", "pruned"}

\* RefreshTokenQuerySet.active: redeemable by status and by expiry.
Active(t) == status[t] = "active" /\ t \notin overdue

\* DeviceSession.objects.live().for_user(u)
LiveSessions(u) == {l \in opened \ ended : Owner[l] = u}
LineagesOf(u) == {l \in opened : Owner[l] = u}
ActiveTokensOf(L) == {t \in Tokens : family[t] \in L /\ Active(t)}

\* A token a client could exchange for a new pair: _redeem would accept it.
Redeemable(t) == Active(t) /\ family[t] \notin revoked

(***************************************************************************)
(* Row locks.                                                              *)
(***************************************************************************)
Free(r) == holder[r] = NoWorker
Held(w) == {r \in Rows : holder[r] = w}
Released(w) == [r \in Rows |-> IF holder[r] = w THEN NoWorker ELSE holder[r]]

\* select_for_update().select_related("user", "family", "session") locks the
\* joined rows too, in the order of the join.
RedeemRows(t) ==
    {TokenRow(t), UserRow(Owner[family[t]]),
     FamilyRow(family[t]), SessionRow(family[t])}
\* Mutants: no row lock at all; select_for_update(of=("self",)).
RedeemUnlocked(w, t) == {}
RedeemLockingSelf(w, t) == {TokenRow(t)} \ Held(w)

NextRedeemRow(w, t) ==
    IF TokenRow(t) \notin Held(w) THEN {TokenRow(t)}
    ELSE IF UserRow(Owner[family[t]]) \notin Held(w)
         THEN {UserRow(Owner[family[t]])}
    ELSE IF FamilyRow(family[t]) \notin Held(w) THEN {FamilyRow(family[t])}
    ELSE {SessionRow(family[t])} \ Held(w)

\* Mutant: a session is ended by its id alone.
SessionsMatchedById(w) == tx[w].targets \ ended

\* DeviceSession rows the session UPDATE of a request matches.  end() filters
\* by owner and by ended_at; enforce_cap by primary key alone.
SessionsMatched(w) ==
    IF tx[w].op = "login" THEN tx[w].targets
    ELSE {l \in tx[w].targets \ ended : Owner[l] = tx[w].user}

\* The rows the current statement of w still waits for.
Wanted(w) ==
    CASE Stage(w) = "redeem" ->
            IF Exists(tx[w].token) THEN NextRedeemRow(w, tx[w].token) ELSE {}
      [] Stage(w) = "user" -> {UserRow(tx[w].user)} \ Held(w)
      [] Stage(w) = "sessions" ->
            {SessionRow(l) : l \in SessionsMatched(w)} \ Held(w)
      [] Stage(w) = "tokens" ->
            {TokenRow(t) : t \in {s \in tx[w].scope : Exists(s)}} \ Held(w)
      [] Stage(w) = "families" ->
            {FamilyRow(l) : l \in tx[w].targets \ revoked} \ Held(w)
      [] OTHER -> {}

Acquire(w, r) ==
    /\ r \in Wanted(w)
    /\ Free(r)
    /\ holder' = [holder EXCEPT ![r] = w]
    /\ UNCHANGED <<rows, clock, denied, tx>>

Goto(w, stage) == tx' = [tx EXCEPT ![w].stage = stage]

\* Mutant: the connection is left idle in its transaction.
FinishHoldingLocks(w) ==
    /\ tx' = [tx EXCEPT ![w] = Idle]
    /\ UNCHANGED holder

\* COMMIT or ROLLBACK followed by the end of the request.
Finish(w) ==
    /\ holder' = Released(w)
    /\ tx' = [tx EXCEPT ![w] = Idle]

(***************************************************************************)
(* Bounds: a request that may mint starts only while rows are left for it   *)
(* and for every request already running.                                   *)
(***************************************************************************)
Minting == {w \in Workers : tx[w].op \in {"refresh", "login", "change"}}
Opening(u) == {w \in Workers : tx[w].op \in {"login", "change"} /\ tx[w].user = u}
Unopened(u) == {l \in Lineages \ opened : Owner[l] = u}
Unminted == {t \in Tokens : status[t] = "unminted"}
TokensLeft == Cardinality(Unminted) > Cardinality(Minting)
LineagesLeft(u) == Cardinality(Unopened(u)) > Cardinality(Opening(u))

\* The next session of u in creation order.
IsNextLineage(l, u) == l \in Unopened(u) /\ \A k \in Unopened(u) : l <= k

-----------------------------------------------------------------------------
(***************************************************************************)
(* Refresh rotation: RefreshService.rotate.                                *)
(***************************************************************************)

\* rotate() up to the transaction: the denylist is consulted first, on its own.
BeginRefresh(w, t) ==
    /\ ~Busy(w)
    /\ status[t] # "unminted"
    /\ t \notin denied
    /\ Redeemable(t) => TokensLeft
    /\ tx' = [tx EXCEPT ![w] = NewRequest("refresh", "redeem", NoUser, t, {})]
    /\ UNCHANGED <<rows, clock, denied, holder>>

\* Mutant: the family is not looked at.
RefusedForAccount(t) == Owner[family[t]] \notin enabled

\* An active token is still refused in a revoked family (REVOKED) or for an
\* account that is inactive or deleted (INACTIVE).
Refused(t) == family[t] \in revoked \/ Owner[family[t]] \notin enabled

\* The locking SELECT of _redeem has returned: decide, in the code's order.
Redeem(w) ==
    LET t == tx[w].token
        l == family[t]
    IN  /\ Stage(w) = "redeem"
        /\ Wanted(w) = {}
        /\ \/ /\ ~Exists(t)                                  \* UNKNOWN
              /\ Finish(w)
           \/ /\ status[t] = "rotated"                       \* REUSE
              /\ holder' = Released(w)
              /\ tx' = [tx EXCEPT ![w] =
                          NewRequest("reuse", "detected", NoUser, t, {l})]
           \/ /\ status[t] \in Status \ {"active", "rotated"} \* REVOKED
              /\ Finish(w)
           \/ /\ status[t] = "active" /\ t \in overdue       \* EXPIRED
              /\ Goto(w, "stamp")
              /\ UNCHANGED holder
           \/ /\ Active(t) /\ Refused(t)                     \* REVOKED, INACTIVE
              /\ Finish(w)
           \/ /\ Active(t) /\ ~Refused(t)
              /\ Goto(w, "mint")
              /\ UNCHANGED holder
        /\ UNCHANGED <<rows, clock, denied>>

\* An overdue token is stamped on a failure path that commits all the same.
StampExpired(w) ==
    /\ Stage(w) = "stamp"
    /\ status' = [status EXCEPT ![tx[w].token] = "expired"]
    /\ Finish(w)
    /\ UNCHANGED <<opened, ended, revoked, family, successor, clock, denied>>

\* Mutant: the redeemed row is not saved as ROTATED.
CommitRedeemUnmarked(w) ==
    LET t == tx[w].token
    IN  /\ Stage(w) = "mint"
        /\ \E n \in Unminted :
              /\ status' = [status EXCEPT ![n] = "active"]
              /\ family' = [family EXCEPT ![n] = family[t]]
              /\ successor' = [successor EXCEPT ![t] = n]
        /\ Finish(w)
        /\ UNCHANGED <<opened, ended, revoked, clock, denied>>

\* issue_and_store for the next generation, then ROTATED and replaced_by.
CommitRedeem(w) ==
    LET t == tx[w].token
    IN  /\ Stage(w) = "mint"
        /\ \E n \in Unminted :
              /\ status' = [status EXCEPT ![t] = "rotated", ![n] = "active"]
              /\ family' = [family EXCEPT ![n] = family[t]]
              /\ successor' = [successor EXCEPT ![t] = n]
        /\ Finish(w)
        /\ UNCHANGED <<opened, ended, revoked, clock, denied>>

-----------------------------------------------------------------------------
(***************************************************************************)
(* Reuse teardown: _handle_reuse and revoke_family, a transaction of their  *)
(* own after the redemption's has ended.                                    *)
(***************************************************************************)

\* First statement of revoke_family: what will be denylisted.
HandleReuse(w) ==
    /\ Stage(w) = "detected"
    /\ tx' = [tx EXCEPT
                ![w].stage = "teardown",
                ![w].live = {t \in Tokens : /\ family[t] \in tx[w].targets
                                            /\ status[t] \notin {"expired", "revoked"}}]
    /\ UNCHANGED <<rows, clock, denied, holder>>

\* Second statement: the UPDATE sees the tokens committed when it starts.
RevokeFamily(w) ==
    /\ Stage(w) = "teardown"
    /\ tx' = [tx EXCEPT
                ![w].stage = "tokens",
                ![w].scope = {t \in Tokens : /\ family[t] \in tx[w].targets
                                             /\ status[t] # "expired"}]
    /\ UNCHANGED <<rows, clock, denied, holder>>

-----------------------------------------------------------------------------
(***************************************************************************)
(* Logout of one session: DeviceSessionService.end.                         *)
(***************************************************************************)
BeginEnd(w, u, l) ==
    /\ ~Busy(w)
    /\ l \in opened
    /\ tx' = [tx EXCEPT ![w] = NewRequest("end", "sessions", u, NoToken, {l})]
    /\ UNCHANGED <<rows, clock, denied, holder>>

\* The session UPDATE: nothing matched is "already ended", not an error.
EndSession(w) ==
    /\ tx[w].op = "end" /\ Stage(w) = "sessions"
    /\ Wanted(w) = {}
    /\ \/ /\ SessionsMatched(w) = {}
          /\ Finish(w)
       \/ /\ SessionsMatched(w) # {}
          /\ tx' = [tx EXCEPT ![w].stage = "tokens",
                              ![w].scope = ActiveTokensOf(tx[w].targets)]
          /\ UNCHANGED holder
    /\ UNCHANGED <<rows, clock, denied>>

-----------------------------------------------------------------------------
(***************************************************************************)
(* Login: AuthenticationService.login and DeviceSessionService.enforce_cap. *)
(***************************************************************************)

\* The account was resolved and found active before the transaction opens.
BeginLogin(w, u) ==
    /\ ~Busy(w)
    /\ u \in enabled
    /\ TokensLeft /\ LineagesLeft(u)
    /\ tx' = [tx EXCEPT ![w] = NewRequest("login", "count", u, NoToken, {})]
    /\ UNCHANGED <<rows, clock, denied, holder>>

\* live.count(): below the cap, nothing to retire.
CountSessions(w) ==
    LET current == Cardinality(LiveSessions(tx[w].user))
    IN  /\ Stage(w) = "count"
        /\ tx' = IF current < Cap
                 THEN [tx EXCEPT ![w].stage = "user"]
                 ELSE [tx EXCEPT ![w].stage = "surplus",
                                 ![w].room = (current - Cap) + 1]
        /\ UNCHANGED <<rows, clock, denied, holder>>

\* live.order_by("created_at")[:room], in a snapshot of its own.
Oldest(S, k) == {l \in S : Cardinality({m \in S : m < l}) < k}
ListSurplus(w) ==
    LET surplus == Oldest(LiveSessions(tx[w].user), tx[w].room)
    IN  /\ Stage(w) = "surplus"
        /\ tx' = IF surplus = {}
                 THEN [tx EXCEPT ![w].stage = "user"]
                 ELSE [tx EXCEPT ![w].stage = "sessions",
                                 ![w].targets = surplus]
        /\ UNCHANGED <<rows, clock, denied, holder>>

RetireSurplus(w) ==
    /\ tx[w].op = "login" /\ Stage(w) = "sessions"
    /\ Wanted(w) = {}
    /\ tx' = [tx EXCEPT ![w].stage = "tokens",
                        ![w].scope = ActiveTokensOf(tx[w].targets)]
    /\ UNCHANGED <<rows, clock, denied, holder>>

\* Mutant: last_login is written elsewhere, so login locks no user row.
UpdateLastLoginLater(w) ==
    /\ tx[w].op = "login" /\ Stage(w) = "user"
    /\ Goto(w, "commit")
    /\ UNCHANGED <<rows, clock, denied, holder>>

\* UPDATE ... last_login: the user row, last lock of a login.
UpdateLastLogin(w) ==
    /\ tx[w].op = "login" /\ Stage(w) = "user"
    /\ Wanted(w) = {}
    /\ Goto(w, "commit")
    /\ UNCHANGED <<rows, clock, denied, holder>>

-----------------------------------------------------------------------------
(***************************************************************************)
(* Logout everywhere (RevocationService.revoke_all_for_user) and password    *)
(* change (PasswordService.change), which nests it and then opens a session *)
(* for the calling device in the same transaction.                           *)
(***************************************************************************)
BeginRevokeAll(w, u) ==
    /\ ~Busy(w)
    /\ tx' = [tx EXCEPT ![w] = NewRequest("revoke_all", "user", u, NoToken, {})]
    /\ UNCHANGED <<rows, clock, denied, holder>>

BeginChange(w, u) ==
    /\ ~Busy(w)
    /\ TokensLeft /\ LineagesLeft(u)
    /\ tx' = [tx EXCEPT ![w] = NewRequest("change", "user", u, NoToken, {})]
    /\ UNCHANGED <<rows, clock, denied, holder>>

\* The version bump has locked the user row; the token UPDATE starts.
BumpVersion(w) ==
    LET u == tx[w].user
    IN  /\ tx[w].op \in {"revoke_all", "change"} /\ Stage(w) = "user"
        /\ Wanted(w) = {}
        /\ tx' = [tx EXCEPT ![w].stage = "tokens",
                            ![w].targets = LineagesOf(u),
                            ![w].scope = ActiveTokensOf(LineagesOf(u)),
                            ![w].live = ActiveTokensOf(LineagesOf(u))]
        /\ UNCHANGED <<rows, clock, denied, holder>>

EndSessions(w) ==
    /\ tx[w].op \in {"revoke_all", "change"} /\ Stage(w) = "sessions"
    /\ Wanted(w) = {}
    /\ Goto(w, IF tx[w].op = "change" THEN "denylist" ELSE "commit")
    /\ UNCHANGED <<rows, clock, denied, holder>>

-----------------------------------------------------------------------------
(***************************************************************************)
(* Statements the revoking requests share, and their commits.               *)
(***************************************************************************)
RevokeTokens(w) ==
    /\ Stage(w) = "tokens"
    /\ Wanted(w) = {}
    /\ Goto(w, "families")
    /\ UNCHANGED <<rows, clock, denied, holder>>

RevokeFamilies(w) ==
    /\ Stage(w) = "families"
    /\ Wanted(w) = {}
    /\ Goto(w, CASE tx[w].op = "reuse" -> "denylist"
                 [] tx[w].op = "end" -> "commit"
                 [] tx[w].op = "login" -> "user"
                 [] OTHER -> "sessions")
    /\ UNCHANGED <<rows, clock, denied, holder>>

\* The jtis gathered by the SELECT, skipping those with no lifetime left.  Reuse
\* and password change get here with their transaction open, logout everywhere
\* after its commit.
Denylist(w) ==
    /\ Stage(w) = "denylist"
    /\ denied' = denied \union (tx[w].live \ overdue)
    /\ IF tx[w].op = "revoke_all"
       THEN Finish(w)
       ELSE Goto(w, "commit") /\ UNCHANGED holder
    /\ UNCHANGED <<rows, clock>>

\* Each UPDATE re-evaluates its WHERE on the row it has locked.
RevokedStatus(w) ==
    [t \in Tokens |->
        IF t \notin tx[w].scope THEN status[t]
        ELSE IF tx[w].op = "reuse" /\ Exists(t) /\ status[t] # "expired"
             THEN "compromised"
        ELSE IF tx[w].op # "reuse" /\ status[t] = "active" THEN "revoked"
        ELSE status[t]]
EndedSessions(w) == IF tx[w].op = "reuse" THEN ended ELSE ended \union tx[w].targets

\* Mutant: the family row is not updated.
CommitTokensOnly(w) ==
    /\ Stage(w) = "commit" /\ tx[w].op \in {"end", "reuse", "revoke_all"}
    /\ status' = RevokedStatus(w)
    /\ ended' = EndedSessions(w)
    /\ IF tx[w].op = "revoke_all"
       THEN Goto(w, "denylist") /\ holder' = Released(w)
       ELSE Finish(w)
    /\ UNCHANGED <<opened, revoked, family, successor, clock, denied>>

CommitRevocation(w) ==
    /\ Stage(w) = "commit" /\ tx[w].op \in {"end", "reuse", "revoke_all"}
    /\ status' = RevokedStatus(w)
    /\ revoked' = revoked \union tx[w].targets
    /\ ended' = EndedSessions(w)
    /\ IF tx[w].op = "revoke_all"
       THEN Goto(w, "denylist") /\ holder' = Released(w)
       ELSE Finish(w)
    /\ UNCHANGED <<opened, family, successor, clock, denied>>

\* Login and password change also create a session, a family and its first token.
CommitSession(w) ==
    /\ Stage(w) = "commit" /\ tx[w].op \in {"login", "change"}
    /\ \E l \in Lineages, n \in Unminted :
          /\ IsNextLineage(l, tx[w].user)
          /\ opened' = opened \union {l}
          /\ status' = [RevokedStatus(w) EXCEPT ![n] = "active"]
          /\ family' = [family EXCEPT ![n] = l]
    /\ revoked' = revoked \union tx[w].targets
    /\ ended' = EndedSessions(w)
    /\ Finish(w)
    /\ UNCHANGED <<successor, clock, denied>>

-----------------------------------------------------------------------------
(***************************************************************************)
(* Failures and the environment.                                           *)
(***************************************************************************)

\* The request stops where it is: a killed worker, a lost connection, an
\* unreachable denylist, a deadlock victim.  What was committed stays, an open
\* transaction rolls back.
Fail(w) ==
    /\ Busy(w)
    /\ Finish(w)
    /\ UNCHANGED <<rows, clock, denied>>

\* PostgreSQL aborts one transaction of a cycle of waiting transactions.
Blocked(w) == Wanted(w) # {} /\ \A r \in Wanted(w) : ~Free(r)
Deadlocked(w) ==
    \E D \in SUBSET Workers :
        /\ w \in D
        /\ \A v \in D : Blocked(v) /\ \A r \in Wanted(v) : holder[r] \in D
DeadlockVictim(w) == Deadlocked(w) /\ Fail(w)

\* A token expires no earlier than the one it replaced; its denylist entry
\* lives as long as it does.
Expire(t) ==
    /\ status[t] # "unminted" /\ t \notin overdue
    /\ \A s \in Tokens : successor[s] = t => s \in overdue
    /\ overdue' = overdue \union {t}
    /\ denied' = denied \ {t}
    /\ UNCHANGED <<rows, enabled, holder, tx>>

\* prune_expired_tokens deletes by expiry alone; replaced_by is SET_NULL.
Prune(t) ==
    LET predecessors == {s \in Tokens : successor[s] = t}
    IN  /\ Exists(t) /\ t \in overdue
        /\ \A s \in predecessors \union {t} : Free(TokenRow(s))
        /\ status' = [status EXCEPT ![t] = "pruned"]
        /\ family' = [family EXCEPT ![t] = NoLineage]
        /\ successor' = [s \in Tokens |->
                            IF s \in predecessors \union {t} THEN NoToken
                            ELSE successor[s]]
        /\ UNCHANGED <<opened, ended, revoked, clock, denied, holder, tx>>

\* An administrator deactivates, soft-deletes or restores the account.
SetEnabled(u) ==
    /\ Free(UserRow(u))
    /\ enabled' = IF u \in enabled THEN enabled \ {u} ELSE enabled \union {u}
    /\ UNCHANGED <<rows, overdue, denied, holder, tx>>

Init ==
    /\ enabled = Users
    /\ opened = {} /\ ended = {} /\ revoked = {}
    /\ status = [t \in Tokens |-> "unminted"]
    /\ family = [t \in Tokens |-> NoLineage]
    /\ successor = [t \in Tokens |-> NoToken]
    /\ overdue = {} /\ denied = {}
    /\ holder = [r \in Rows |-> NoWorker]
    /\ tx = [w \in Workers |-> Idle]

\* A step of a request that has begun.
Lock(w) == \E r \in Rows : Acquire(w, r)
Work(w) ==
    \/ Lock(w)
    \/ Redeem(w) \/ StampExpired(w) \/ CommitRedeem(w)
    \/ HandleReuse(w) \/ RevokeFamily(w)
    \/ EndSession(w)
    \/ CountSessions(w) \/ ListSurplus(w) \/ RetireSurplus(w) \/ UpdateLastLogin(w)
    \/ BumpVersion(w) \/ EndSessions(w)
    \/ RevokeTokens(w) \/ RevokeFamilies(w) \/ Denylist(w)
    \/ CommitRevocation(w) \/ CommitSession(w)

Begin(w) ==
    \/ \E t \in Tokens : BeginRefresh(w, t)
    \/ \E u \in Users : \/ BeginLogin(w, u)
                        \/ BeginRevokeAll(w, u)
                        \/ BeginChange(w, u)
                        \/ \E l \in Lineages : BeginEnd(w, u, l)

Environment ==
    \/ \E t \in Tokens : Expire(t) \/ Prune(t)
    \/ \E u \in Users : SetEnabled(u)

Next == (\E w \in Workers : Begin(w) \/ Work(w) \/ Fail(w)) \/ Environment

\* Requests arrive, fail and expire as they please; one that has begun keeps
\* running, PostgreSQL queues the waiters of a row and breaks every deadlock.
Fairness == \A w \in Workers : SF_vars(Work(w)) /\ WF_vars(DeadlockVictim(w))

Spec == Init /\ [][Next]_vars
FairSpec == Spec /\ Fairness

-----------------------------------------------------------------------------

\* Every variable has the values its rows and requests can have, sessions and
\* families are only closed once they exist.
TypeOK ==
    /\ enabled \subseteq Users
    /\ opened \subseteq Lineages /\ ended \subseteq opened /\ revoked \subseteq opened
    /\ status \in [Tokens -> Status \union {"unminted", "pruned"}]
    /\ family \in [Tokens -> Lineages \union {NoLineage}]
    /\ successor \in [Tokens -> Tokens \union {NoToken}]
    /\ overdue \subseteq Tokens /\ denied \subseteq Tokens
    /\ holder \in [Rows -> Workers \union {NoWorker}]
    /\ tx \in [Workers -> Request]

\* A login has one refresh token that can still be exchanged, however many
\* refreshes of it run at once (refresh.py: "one login yields two live lineages"
\* is what the row lock of _redeem is there to prevent).
OneLiveHead ==
    \A s, t \in Tokens :
        status[s] = "active" /\ status[t] = "active" /\ family[s] = family[t] => s = t

\* What _redeem decided on is still true when it writes: the row is ACTIVE, its
\* family not revoked, its session not ended and its account enabled.
DecisionHolds(w) ==
    LET t == tx[w].token
    IN  Stage(w) = "mint" => /\ status[t] = "active"
                             /\ family[t] \notin revoked \union ended
                             /\ Owner[family[t]] \in enabled
DecisionStillHolds == \A w \in Workers : DecisionHolds(w)

\* Logging a session out, retiring it for the cap or logging out everywhere
\* leaves none of its tokens active, not even one a refresh was minting.
EndedSessionIsDead ==
    \A l \in ended : l \in revoked /\ ActiveTokensOf({l}) = {}

\* No refresh succeeds in a family that is revoked, whatever began first.
NoMintAfterRevocation ==
    [][\A t \in Tokens :
          status[t] = "unminted" /\ status'[t] # "unminted"
              => family'[t] \notin revoked]_vars

\* A token that was redeemed, revoked or expired is never active or redeemed
\* again and gets no other successor; revocation and logout are final.
SpentStaysSpent ==
    [][/\ revoked \subseteq revoked' /\ ended \subseteq ended'
       /\ \A t \in Tokens : status[t] \notin {"unminted", "active"} =>
             /\ status'[t] # "active"
             /\ status'[t] = "rotated" => status[t] = "rotated"
             /\ successor'[t] \in {successor[t], NoToken}]_vars

\* A replay of a redeemed token that nothing has denied is detected as reuse.
Alarming(t) == status[t] = "rotated" /\ t \notin denied

\* The alarm of a replay survives crashes: it falls silent only with its family
\* revoked or its row pruned, or when the teardown of its family has written the
\* denylist, which it does before it commits.
AlarmSurvives ==
    [][\A t \in Tokens : Alarming(t) =>
          \/ Alarming(t)'
          \/ family[t] \in revoked'
          \/ status'[t] = "pruned"
          \/ \E w \in Workers : /\ tx[w].op = "reuse" /\ Stage(w) = "denylist"
                                /\ family[t] \in tx[w].targets]_vars

\* Logging out everywhere and changing the password close every session there
\* is at their commit: no login or refresh of that account slips past them.
Revoking(w) ==
    /\ Stage(w) = "commit"
    /\ \/ tx[w].op = "revoke_all" /\ tx'[w].stage = "denylist"
       \/ tx[w].op = "change" /\ tx'[w] # tx[w] /\ opened' # opened
LogoutAllIsTotal ==
    [][\A w \in Workers : Revoking(w) =>
          /\ LineagesOf(tx[w].user) \subseteq revoked' \intersect ended'
          /\ \A t \in ActiveTokensOf(LineagesOf(tx[w].user)) :
                status'[t] = "revoked"]_vars

\* A request ends a session only for the account that owns it.
OnlyOwnersEnd ==
    [][\A l \in ended' \ ended :
          \E w \in Workers : tx'[w] # tx[w] /\ tx[w].user = Owner[l]]_vars

\* Every request is answered: no wait for a row lasts forever.
EveryRequestEnds == \A w \in Workers : Busy(w) ~> ~Busy(w)

-----------------------------------------------------------------------------
(***************************************************************************)
(* The inductive invariant: what each request knows at each stage.          *)
(***************************************************************************)
Revoker == {"revoke_all", "change"}
Ender == {"end", "login"} \union Revoker

\* The stages at which the token, family and session UPDATEs of w are behind it.
PastTokens(w) ==
    \/ Stage(w) \in {"families", "commit"}
    \/ Stage(w) = "sessions" /\ tx[w].op \in Revoker
    \/ Stage(w) = "user" /\ tx[w].op = "login"
    \/ Stage(w) = "denylist" /\ tx[w].op # "revoke_all"
PastFamilies(w) == PastTokens(w) /\ Stage(w) # "families"
PastSessions(w) ==
    \/ /\ tx[w].op \in {"end", "login"}
       /\ Stage(w) \in {"tokens", "families", "user", "commit"}
    \/ tx[w].op \in Revoker /\ Stage(w) = "commit"
    \/ tx[w].op = "change" /\ Stage(w) = "denylist"
\* The stages of an account-wide request, and of a login, behind the user row.
HoldsUser(w) ==
    \/ tx[w].op \in Revoker /\ (Stage(w) = "tokens" \/ PastTokens(w))
    \/ tx[w].op = "login" /\ Stage(w) = "commit"

\* Every kind of request has stages of its own, and works for rows that exist.
AtOwnStage(w) ==
    \/ tx[w].op = "none" /\ Stage(w) = "idle"
    \/ tx[w].op = "refresh" /\ Stage(w) \in {"redeem", "mint", "stamp"}
    \/ /\ tx[w].op = "reuse"
       /\ Stage(w) \in {"detected", "teardown", "tokens", "families", "denylist", "commit"}
    \/ tx[w].op = "end" /\ Stage(w) \in {"sessions", "tokens", "families", "commit"}
    \/ /\ tx[w].op = "login"
       /\ Stage(w) \in {"count", "surplus", "sessions", "tokens", "families", "user", "commit"}
    \/ /\ tx[w].op \in Revoker
       /\ Stage(w) \in {"user", "tokens", "families", "sessions", "denylist", "commit"}

WellFormed(w) ==
    /\ AtOwnStage(w)
    /\ tx[w].op = "refresh" => tx[w].token \in Tokens
    /\ tx[w].op \in Ender => tx[w].user \in Users
    /\ tx[w].op \in Ender /\ (tx[w].op = "end" => Stage(w) # "sessions") =>
          \A l \in tx[w].targets : Owner[l] = tx[w].user
    /\ tx[w].op = "end" => \A k, l \in tx[w].targets : k = l
    /\ tx[w].op = "login" /\ Stage(w) \in {"count", "surplus"} =>
          tx[w].targets = {} /\ tx[w].scope = {}
    /\ tx[w].targets \subseteq opened
    /\ \A t \in tx[w].scope : /\ status[t] # "unminted"
                              /\ Exists(t) => family[t] \in tx[w].targets

\* A transaction holds every row it has read for its decision or will write.
LockDiscipline(w) ==
    /\ Stage(w) = "mint" => \A r \in RedeemRows(tx[w].token) : holder[r] = w
    /\ Stage(w) = "stamp" => /\ holder[TokenRow(tx[w].token)] = w
                             /\ status[tx[w].token] = "active"
    /\ PastTokens(w) =>
          \A t \in tx[w].scope : Exists(t) => holder[TokenRow(t)] = w
    /\ PastFamilies(w) =>
          \A l \in tx[w].targets \ revoked : holder[FamilyRow(l)] = w
    /\ PastSessions(w) =>
          \A l \in tx[w].targets \ ended : holder[SessionRow(l)] = w
    /\ HoldsUser(w) => holder[UserRow(tx[w].user)] = w

\* The token UPDATE of a request that ends sessions covers every token those
\* sessions have, and of one for a whole account every session, until it commits:
\* the rows it holds keep refreshes and logins of those sessions out.
Covers(w) ==
    tx[w].op \in Ender /\ (Stage(w) = "tokens" \/ PastTokens(w)) =>
        /\ ActiveTokensOf(tx[w].targets) \subseteq tx[w].scope
        /\ tx[w].op \in Revoker => LineagesOf(tx[w].user) \subseteq tx[w].targets

\* A token has a lineage exactly while it has a row.
RowsLinked ==
    \A t \in Tokens : /\ Exists(t) => family[t] \in opened
                      /\ ~Exists(t) => family[t] = NoLineage

Sound(w) == WellFormed(w) /\ LockDiscipline(w) /\ Covers(w) /\ DecisionHolds(w)

\* The rows are consistent and every request knows what it has locked.
IInv == /\ TypeOK /\ RowsLinked /\ OneLiveHead /\ EndedSessionIsDead
        /\ \A w \in Workers : Sound(w)

\* What a request will denylist belongs to the lineages it revokes, and is picked
\* behind the user row, so that a password change denies no token redeemed since; a
\* logout everywhere denies after its commit.
Gathers(w) ==
    /\ \A t \in tx[w].live : /\ status[t] # "unminted"
                             /\ Exists(t) => family[t] \in tx[w].targets
    /\ tx[w].live # {} => tx[w].op \in Revoker \union {"reuse"} /\ Stage(w) # "user"
    /\ tx[w].op = "change" => \A t \in tx[w].live : status[t] # "rotated"
    /\ tx[w].op = "revoke_all" /\ Stage(w) = "denylist" => tx[w].targets \subseteq revoked
Gathered == \A w \in Workers : Gathers(w)

\* The logins of u that have counted its sessions, and the sessions each will end.
Counted(u) == {w \in Workers : tx[w].op = "login" /\ tx[w].user = u /\ Stage(w) # "count"}
Retiring(w) == IF Stage(w) = "surplus" THEN Oldest(LiveSessions(tx[w].user), tx[w].room)
               ELSE tx[w].targets
Left(u, S) == LiveSessions(u) \ UNION {Retiring(w) : w \in S}

\* Whichever of those logins commit, they do not get further over the cap than there
\* are workers to log in at once; and sessions are opened in the order of their numbers.
WithinReach(u) ==
    \A S \in SUBSET Counted(u) :
        Cardinality(Left(u, S)) + Cardinality(S) < Cap + Cardinality(Workers)
Numbered(u) == \A l \in LineagesOf(u), k \in Unopened(u) : l < k
CapInv == \A u \in Users : WithinReach(u) /\ Numbered(u)

\* The most live sessions an account can have: the cap, and one for every login but one
\* that counts before the others commit (enforce_cap).
SessionsBounded ==
    \A u \in Users : Cardinality(LiveSessions(u)) < Cap + Cardinality(Workers)

-----------------------------------------------------------------------------
(***************************************************************************)
(* What the lineages promise, see SingleUseLineages.                        *)
(***************************************************************************)
LineageStage ==
    [l \in Lineages |-> IF l \notin opened THEN "unopened"
                        ELSE IF l \in revoked THEN "closed" ELSE "open"]
\* The token of a lineage that can be exchanged, and those that no longer can.
HeadsOf(l) == {t \in Tokens : status[t] = "active" /\ family[t] = l /\ l \notin revoked}
TheOnly(H) == IF H = {} THEN NoToken ELSE CHOOSE t \in H : TRUE
LineageHead == [l \in Lineages |-> TheOnly(HeadsOf(l))]
SpentTokens ==
    {t \in Tokens : status[t] # "unminted" /\ \A l \in Lineages : t \notin HeadsOf(l)}

Promise == INSTANCE SingleUseLineages
             WITH stage <- LineageStage, head <- LineageHead, spent <- SpentTokens

\* The transactions above, crashes and deadlocks included, implement lineages
\* whose one head is exchanged at most once and which never reopen.
ImplementsSingleUse == Promise!Spec
=============================================================================
