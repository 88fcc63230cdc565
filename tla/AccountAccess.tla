--------------------------- MODULE AccountAccess ---------------------------
(***************************************************************************)
(* What one account's access tokens are worth: the checks of                *)
(* TenantJWTAuthentication, the Redis copy of the account they read, the     *)
(* denylist, and the requests that change the account under them (logout,    *)
(* logout everywhere, the revoke_user_tokens command, password change, the   *)
(* admin form, soft deletion).  Accounts share none of this, so the module   *)
(* has one.                                                                *)
(***************************************************************************)
EXTENDS Integers

CONSTANTS
    Workers,     \* request handlers and management commands
    NoWorker,    \* the account's row is not locked
    Tokens,      \* bound on the access tokens that are minted
    NoToken,     \* a request that presents none
    MaxVersion,  \* bound on token_version
    NoEntry      \* a cache miss

ASSUME AccessAssumption ==
    /\ MaxVersion \in Nat
    /\ NoWorker \notin Workers /\ NoToken \notin Tokens

VARIABLES
    version,   \* User.token_version
    standing,  \* "active", "inactive" (is_active is off) or "deleted"
    lock,      \* who has the row locked across statements
    cached,    \* the user_key entry: the row as it was read
    denied,    \* access jtis the denylist answers for
    minted,    \* the jtv claim of each token, -1 before it is minted
    age,       \* before exp, within the leeway after it, or past both
    req        \* what each worker is doing

vars == <<version, standing, lock, cached, denied, minted, age, req>>
account == <<version, standing>>
tokens == <<minted, age>>

Standings == {"active", "inactive", "deleted"}
Versions == 0 .. MaxVersion
RowStates == [version : Versions, standing : Standings]
Row == [version |-> version, standing |-> standing]

Ages == {"live", "leeway", "expired"}

Stages == {"idle", "decoded", "clear", "missed", "fill", "resolved", "view",
           "bump", "invalidate", "deny", "mint", "open", "form"}
Ops == {"none", "call", "logout", "logout_all", "command", "change", "login", "edit"}

\* A request: the token it presents, the account as it has read it and, as a
\* history for the properties, whether its token was denied when it arrived.
Request == [op : Ops, stage : Stages, token : Tokens \union {NoToken},
            seen : RowStates, barred : BOOLEAN]
Idle == [op |-> "none", stage |-> "idle", token |-> NoToken,
         seen |-> [version |-> 0, standing |-> "active"], barred |-> FALSE]

Stage(w) == req[w].stage
Seen(w) == req[w].seen
Unlocked == lock = NoWorker
Become(w, op, stage) == req' = [req EXCEPT ![w].op = op, ![w].stage = stage]
Goto(w, stage) == req' = [req EXCEPT ![w].stage = stage]
Finish(w) == req' = [req EXCEPT ![w] = Idle]

\* A token is minted with the version its issuer has in hand.
Minted(t) == minted[t] # -1
Mint(jtv) == \E n \in Tokens : ~Minted(n) /\ minted' = [minted EXCEPT ![n] = jtv]

-----------------------------------------------------------------------------
(***************************************************************************)
(* Authentication of a request: TenantJWTAuthentication._authenticate.      *)
(***************************************************************************)

\* The signature and the claims hold, exp is at most the leeway ago.
BeginCall(w, t) ==
    /\ Stage(w) = "idle"
    /\ Minted(t) /\ age[t] # "expired"
    /\ req' = [req EXCEPT ![w] = [Idle EXCEPT !.op = "call", !.stage = "decoded",
                                              !.token = t, !.barred = t \in denied]]
    /\ UNCHANGED <<account, lock, cached, denied, tokens>>

\* Mutant: the denylist is not asked.
CheckDenylistNever(w) ==
    /\ Stage(w) = "decoded"
    /\ Goto(w, "clear")
    /\ UNCHANGED <<account, lock, cached, denied, tokens>>

CheckDenylist(w) ==
    /\ Stage(w) = "decoded"
    /\ IF req[w].token \in denied THEN Finish(w) ELSE Goto(w, "clear")
    /\ UNCHANGED <<account, lock, cached, denied, tokens>>

\* cache.get(user_key)
LookUp(w) ==
    /\ Stage(w) = "clear"
    /\ IF cached = NoEntry THEN Goto(w, "missed")
       ELSE req' = [req EXCEPT ![w].stage = "resolved", ![w].seen = cached]
    /\ UNCHANGED <<account, lock, cached, denied, tokens>>

\* UserModel.objects.get: committed rows only, and no soft-deleted ones.
ReadRow(w) ==
    /\ Stage(w) = "missed"
    /\ IF standing = "deleted" THEN Finish(w)
       ELSE req' = [req EXCEPT ![w].stage = "fill", ![w].seen = Row]
    /\ UNCHANGED <<account, lock, cached, denied, tokens>>

\* cache.set, with whatever was read: the entry of a later reader is replaced.
Fill(w) ==
    /\ Stage(w) = "fill"
    /\ cached' = Seen(w)
    /\ Goto(w, "resolved")
    /\ UNCHANGED <<account, lock, denied, tokens>>

\* tenant_user_authentication_rule, then _assert_token_version.
Accepts(w) == /\ Seen(w).standing = "active"
              /\ Seen(w).version = minted[req[w].token]
Decide(w) ==
    /\ Stage(w) = "resolved"
    /\ IF Accepts(w)
       THEN req' = [req EXCEPT ![w].stage = "view", ![w].seen = Idle.seen]
       ELSE Finish(w)
    /\ UNCHANGED <<account, lock, cached, denied, tokens>>

-----------------------------------------------------------------------------
(***************************************************************************)
(* What an authenticated request does to the account.                      *)
(***************************************************************************)
Dispatch(w) ==
    /\ Stage(w) = "view"
    /\ \/ Finish(w)                              \* an endpoint that changes nothing
       \/ Become(w, "logout", "deny")            \* LogoutView, its session ended
       \/ Become(w, "logout_all", "bump")        \* LogoutAllView
       \/ Become(w, "change", "bump")            \* PasswordChangeView
    /\ UNCHANGED <<account, lock, cached, denied, tokens>>

\* revoke_user_tokens, which needs no token.
BeginCommand(w) ==
    /\ Stage(w) = "idle"
    /\ Become(w, "command", "bump")
    /\ UNCHANGED <<account, lock, cached, denied, tokens>>

\* Mutant: token_version is counted up in memory, and only saved at the end.
BumpInMemory(w) ==
    /\ Stage(w) = "bump" /\ Unlocked
    /\ version < MaxVersion
    /\ req' = [req EXCEPT ![w].stage = "invalidate",
                          ![w].seen = [Row EXCEPT !.version = version + 1]]
    /\ IF req[w].op = "change" THEN UNCHANGED <<version, lock>>
       ELSE version' = version + 1 /\ UNCHANGED lock
    /\ UNCHANGED <<standing, cached, denied, tokens>>

\* revoke_all_for_user commits its version; nested in a password change it only
\* has the row locked.
Bump(w) ==
    /\ Stage(w) = "bump" /\ Unlocked
    /\ version < MaxVersion
    /\ req' = [req EXCEPT ![w].stage = "invalidate",
                          ![w].seen = [Row EXCEPT !.version = version + 1]]
    /\ IF req[w].op = "change"
       THEN lock' = w /\ UNCHANGED version
       ELSE version' = version + 1 /\ UNCHANGED lock
    /\ UNCHANGED <<standing, cached, denied, tokens>>

\* invalidate_user_cache, which a Redis outage turns into nothing at all.
Invalidate(w) ==
    /\ Stage(w) = "invalidate"
    /\ cached' \in {NoEntry, cached}
    /\ CASE req[w].op = "command" -> Finish(w)
         [] req[w].op = "logout_all" -> Goto(w, "deny")
         [] req[w].op = "change" -> Goto(w, "mint")
    /\ UNCHANGED <<account, lock, denied, tokens>>

\* _denylist_presented_access_token: an entry until exp, none once exp is past.
DenyPresented(w) ==
    LET t == req[w].token
    IN  /\ Stage(w) = "deny"
        /\ denied' = IF age[t] = "live" THEN denied \union {t} ELSE denied
        /\ Finish(w)
        /\ UNCHANGED <<account, lock, cached, tokens>>

\* Mutant: no refresh_from_db between the bump and the mint.
CommitChangeUnread(w) ==
    /\ Stage(w) = "mint"
    /\ version' = Seen(w).version
    /\ Mint(version)
    /\ lock' = NoWorker
    /\ Finish(w)
    /\ UNCHANGED <<standing, cached, denied, age>>

\* The password change commits the bump with the token it keeps signed in.
CommitChange(w) ==
    /\ Stage(w) = "mint"
    /\ version' = Seen(w).version
    /\ Mint(Seen(w).version)
    /\ lock' = NoWorker
    /\ Finish(w)
    /\ UNCHANGED <<standing, cached, denied, age>>

-----------------------------------------------------------------------------
(***************************************************************************)
(* The other issuers, and the admin site.                                  *)
(***************************************************************************)

\* login reads the account before its transaction, and mints from that copy.
BeginLogin(w) ==
    /\ Stage(w) = "idle" /\ standing = "active"
    /\ req' = [req EXCEPT ![w] = [Idle EXCEPT !.op = "login", !.stage = "open",
                                              !.seen = Row]]
    /\ UNCHANGED <<account, lock, cached, denied, tokens>>

\* Mutant: last_login is stored by saving every column of the copy.
CommitLoginSavingAll(w) ==
    /\ Stage(w) = "open" /\ Unlocked
    /\ Mint(Seen(w).version)
    /\ Finish(w)
    /\ version' = Seen(w).version
    /\ UNCHANGED <<standing, lock, cached, denied, age>>

CommitLogin(w) ==
    /\ Stage(w) = "open" /\ Unlocked
    /\ Mint(Seen(w).version)
    /\ Finish(w)
    /\ UNCHANGED <<account, lock, cached, denied, age>>

\* A rotation reads the account with its row locked, see TokenLineage.
Refresh(w) ==
    /\ Stage(w) = "idle" /\ Unlocked /\ standing = "active"
    /\ Mint(version)
    /\ UNCHANGED <<account, lock, cached, denied, age, req>>

\* The change form loads the row and saves every column of it.
BeginEdit(w) ==
    /\ Stage(w) = "idle"
    /\ req' = [req EXCEPT ![w] = [Idle EXCEPT !.op = "edit", !.stage = "form",
                                              !.seen = Row]]
    /\ UNCHANGED <<account, lock, cached, denied, tokens>>
SaveEdit(w) ==
    /\ Stage(w) = "form" /\ Unlocked
    /\ version' = Seen(w).version
    /\ standing' \in IF Seen(w).standing = "deleted" THEN {"deleted"}
                     ELSE {"active", "inactive"}
    /\ Finish(w)
    /\ UNCHANGED <<lock, cached, denied, tokens>>

\* Soft deletion and restoration write their own columns only.
SoftDelete ==
    /\ Unlocked
    /\ standing' = IF standing = "deleted" THEN "active" ELSE "deleted"
    /\ UNCHANGED <<version, lock, cached, denied, tokens, req>>

-----------------------------------------------------------------------------
(***************************************************************************)
(* Failures and time.                                                      *)
(***************************************************************************)

\* The worker dies or its request raises: an open transaction rolls back.
Fail(w) ==
    /\ Stage(w) # "idle"
    /\ Finish(w)
    /\ lock' = IF lock = w THEN NoWorker ELSE lock
    /\ UNCHANGED <<account, cached, denied, tokens>>

\* Mutant: the entry is set without a timeout.
CacheKept == FALSE /\ UNCHANGED vars

\* USER_CACHE_TIMEOUT is over, or the entry is evicted.
CacheExpire ==
    /\ cached # NoEntry
    /\ cached' = NoEntry
    /\ UNCHANGED <<account, lock, denied, tokens, req>>

\* A denylist entry goes at exp, the decoder accepts the token a little longer.
Age(t) ==
    /\ Minted(t) /\ age[t] # "expired"
    /\ age' = [age EXCEPT ![t] = IF age[t] = "live" THEN "leeway" ELSE "expired"]
    /\ denied' = denied \ {t}
    /\ UNCHANGED <<account, lock, cached, minted, req>>

Init ==
    /\ version = 0 /\ standing = "active" /\ lock = NoWorker
    /\ cached = NoEntry /\ denied = {}
    /\ minted = [t \in Tokens |-> -1]
    /\ age = [t \in Tokens |-> "live"]
    /\ req = [w \in Workers |-> Idle]

\* The steps of a request that has begun.
Continue(w) ==
    \/ CheckDenylist(w) \/ LookUp(w) \/ ReadRow(w) \/ Fill(w) \/ Decide(w)
    \/ Dispatch(w) \/ Bump(w) \/ Invalidate(w) \/ DenyPresented(w)
    \/ CommitChange(w) \/ CommitLogin(w) \/ SaveEdit(w)

Begin(w) ==
    \/ \E t \in Tokens : BeginCall(w, t)
    \/ BeginCommand(w) \/ BeginLogin(w) \/ Refresh(w) \/ BeginEdit(w)

Next ==
    \/ \E w \in Workers : Begin(w) \/ Continue(w) \/ Fail(w)
    \/ \E t \in Tokens : Age(t)
    \/ SoftDelete \/ CacheExpire

\* A request that has begun keeps running, a cache entry has a timeout.
Fairness == WF_vars(CacheExpire) /\ \A w \in Workers : WF_vars(Continue(w))

Spec == Init /\ [][Next]_vars
FairSpec == Spec /\ Fairness

-----------------------------------------------------------------------------

\* The account, its cached copy and the requests have the values they can have.
TypeOK ==
    /\ version \in Versions /\ standing \in Standings
    /\ lock \in Workers \union {NoWorker}
    /\ cached \in RowStates \union {NoEntry}
    /\ denied \subseteq Tokens
    /\ minted \in [Tokens -> Versions \union {-1}]
    /\ age \in [Tokens -> Ages]
    /\ req \in [Workers -> Request]

\* A token that was on the denylist when the request arrived is never accepted
\* before its exp, however the cache and the account change meanwhile.
DeniedIsRefused ==
    \A w \in Workers :
        Stage(w) = "view" /\ req[w].barred => age[req[w].token] # "live"

\* A refresh and a password change mint tokens of the version the row has once
\* they have committed, whoever bumps it around them; a login may lag behind.
MintsCurrent ==
    [][\A t \in Tokens : minted'[t] # minted[t] =>
          \/ minted'[t] = version'
          \/ \E w \in Workers : req[w].op = "login" /\ req'[w] # req[w]]_vars

\* Revocations are not lost to each other: no logout, command or password change
\* takes token_version back, however their statements interleave.
RevocationsOnlyRaise ==
    [][version' < version => \E w \in Workers : req[w].op = "edit" /\ req'[w] # req[w]]_vars

\* A version bump, a deactivation or a deletion that lasts reaches every request
\* at last: no stale entry outlives its timeout for good (no fill in flight, no
\* lost invalidation, no crash before it makes it stay).
CacheConverges ==
    \A r \in RowStates : <>[](Row = r) => <>[](cached \in {r, NoEntry})

\* "Returns a fresh pair so the device that made the change stays signed in": a
\* token of the account's own version is not refused as superseded.
DeviceStaysSignedIn ==
    [][\A w \in Workers :
          Stage(w) = "resolved" /\ req'[w] # req[w] /\ Seen(w).standing = "active"
          /\ minted[req[w].token] = version => Accepts(w)]_vars

\* "Incremented to invalidate every outstanding token for this account."
InvalidatedForGood ==
    [][\A t \in Tokens : Minted(t) /\ minted[t] < version => minted[t] < version']_vars

-----------------------------------------------------------------------------
(***************************************************************************)
(* The inductive invariant.                                                *)
(***************************************************************************)

\* Every stage belongs to its kinds of request.
AtOwnStage(w) ==
    /\ Stage(w) \in {"decoded", "clear", "missed", "fill", "resolved", "view", "deny"}
          => req[w].token \in Tokens
    /\ Stage(w) \in {"bump", "invalidate"} => req[w].op \in {"logout_all", "command", "change"}
    /\ Stage(w) = "mint" => req[w].op = "change"
    /\ Stage(w) = "open" => req[w].op = "login"
    /\ Stage(w) = "form" => req[w].op = "edit"
    /\ req[w].op = "logout_all" => req[w].token \in Tokens

\* A password change holds the row from its bump to its commit.
HoldsBump(w) ==
    req[w].op = "change" /\ Stage(w) \in {"invalidate", "mint"}
        => lock = w /\ Seen(w).version = version + 1

\* A token that was denied on arrival is refused at the denylist unless its entry,
\* and with it its exp, has gone by.
StillBarred(w) ==
    req[w].barred =>
        /\ Stage(w) = "decoded" => req[w].token \in denied \/ age[req[w].token] # "live"
        /\ Stage(w) \in {"clear", "missed", "fill", "resolved", "view"}
              => age[req[w].token] # "live"

AInv == TypeOK /\ \A w \in Workers : AtOwnStage(w) /\ HoldsBump(w) /\ StillBarred(w)
=============================================================================
