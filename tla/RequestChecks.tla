----------------------------- MODULE RequestChecks -----------------------------
(***************************************************************************)
(* What a token is worth when it is presented: the checks a request makes,   *)
(* in their order, and the errors they answer with, against tokens that      *)
(* logins and rotations minted earlier on workers whose clocks differ, while *)
(* roles are taken away, accounts disabled and sessions ended.              *)
(*                                                                         *)
(* A schema has one account.  A pair is an access token and the refresh      *)
(* token minted with it.  Inside a rotation, see TokenLineage; the cached    *)
(* account is in AccountAccess and the trust in keys in SigningKeys.        *)
(***************************************************************************)
EXTENDS Integers, FiniteSets

CONSTANTS
    Schemas, Public,    \* schemas, which hosts select, and the platform's own
    Sessions, Home,     \* device sessions that may be opened, each in a schema
    Workers, NoSession, \* requests that mint
    Roles, RoleScopes,  \* ROLE_SCOPES: the <<resource, action>> pairs of each role
    BaseScopes,
    Views,              \* what views ask of a token
    AccessLifetime, RefreshLifetime, AbsoluteLifetime, Leeway,
    Skew,               \* how far a worker's clock may run ahead
    RequestTime,        \* how long a transaction that mints may take
    MaxTime, MaxEdits, MaxPairs  \* bounds of the model

ASSUME RequestAssumption ==
    /\ Public \in Schemas
    /\ {AccessLifetime, RefreshLifetime, AbsoluteLifetime} \subseteq Nat \ {0}
    /\ Home \in [Sessions -> Schemas] /\ NoSession \notin Sessions
    /\ {Leeway, Skew, RequestTime, MaxTime, MaxEdits, MaxPairs} \subseteq Nat
    /\ Skew <= Leeway

VARIABLES
    now,
    account,  \* of each schema: its groups, whether it is active, token_version
    edits,    \* changes of accounts so far
    session,  \* a DeviceSession with its TokenFamily and its newest RefreshToken
    pairs,    \* tokens minted so far
    denied,   \* denylisted access tokens
    worker,   \* what each minting request is doing
    lost      \* history: when each account last lost each role

vars == <<now, account, edits, session, pairs, denied, worker, lost>>

\* The longest a role or a session that is gone can still count.
Fade == AccessLifetime + Leeway + Skew + RequestTime

Times == 0 .. MaxTime
Clocks == 0 .. MaxTime + Skew
Versions == 0 .. MaxEdits
Account == [roles : SUBSET Roles, live : BOOLEAN, version : Versions]
Session == [stage : {"unused", "open", "lapsed", "ended", "compromised"},
            created : Clocks, gen : Nat, endedAt : Times]
Pair == [sid : Sessions, gen : Nat, roles : SUBSET Roles,
         version : Versions, iat : Clocks, refreshExp : Nat,
         raced : BOOLEAN]  \* history: minted with a version already superseded

\* A minting request: the account it loaded and, from the start of its
\* transaction, the roles it read and when the family was created.
Work == [stage : {"idle", "account", "minting"}, kind : {"login", "rotation", "change"},
         sid : Sessions \union {NoSession}, version : Versions, roles : SUBSET Roles,
         created : Clocks, since : Times, skew : 0 .. Skew]

Idle == [stage |-> "idle", kind |-> "login", sid |-> NoSession, version |-> 0,
         roles |-> {}, created |-> 0, since |-> 0, skew |-> 0]

Minting(w) == worker[w].stage = "minting"
Clock(w) == now + worker[w].skew
Give(w, work) == worker' = [worker EXCEPT ![w] = work]
Release(w) == worker' = [worker EXCEPT ![w] = Idle]
Spare(sid) == /\ session[sid].stage = "unused"
              /\ \A w \in Workers : worker[w].sid # sid

Room == Cardinality(pairs) < MaxPairs

Standing(sid) == session[sid].stage \in {"open", "lapsed"}
SessionsOf(s) == {sid \in Sessions : Home[sid] = s}
Id(p) == <<p.sid, p.gen>>
Newest(p) == p.gen = session[p.sid].gen
Lesser(a, b) == IF a < b THEN a ELSE b

\* Mutant: a redemption locks the token's row alone, of=("self",).
AccountLockedByWrites(s) == \E w \in Workers :
    Minting(w) /\ worker[w].kind # "rotation" /\ Home[worker[w].sid] = s

\* Rows a transaction that mints keeps locked: the account, and the session it
\* rotates or, for a password change, every session of the account.
AccountLocked(s) == \E w \in Workers : Minting(w) /\ Home[worker[w].sid] = s
SessionLocked(sid) == \E w \in Workers :
    /\ Minting(w)
    /\ \/ worker[w].sid = sid
       \/ worker[w].kind = "change" /\ Home[worker[w].sid] = Home[sid]

-----------------------------------------------------------------------------
(***************************************************************************)
(* The checks.  A request presents one token of a pair, as it was minted or  *)
(* with a defect, to a host, on a worker with its clock, while the denylist  *)
(* answers or does not.                                                      *)
(***************************************************************************)
Forgeries == {"header", "kid", "algorithm", "signature"}
Defects == Forgeries \union {"claims", "issuer", "version", "own claims"}

AsMinted(p, type, host) ==
    [pair : {p}, type : {type}, defect : {"none"}, host : {host},
     clock : now .. now + Skew, reachable : {TRUE}]

Forged(p, host) ==
    [pair : {p}, type : {"access"}, defect : Forgeries, host : {host},
     clock : {now}, reachable : {FALSE}]

AccessExp(p) == p.iat + AccessLifetime
Exp(q) == IF q.type = "access" THEN AccessExp(q.pair) ELSE q.pair.refreshExp

\* Mutant: the claims of a type are required with the common ones.
OrderUpFront ==
    <<"header", "kid", "algorithm", "signature", "claims", "own claims", "iat", "exp", "issuer",
      "audience", "version", "type", "schema", "tenant", "outage", "denied", "revoked", "rotated",
      "status", "overdue", "account", "superseded">>

\* The checks in the order they are made, PyJWT's first.
Order ==
    <<"header", "kid", "algorithm", "signature", "claims", "iat", "exp", "issuer", "audience",
      "version", "type", "own claims", "schema", "tenant", "outage", "denied", "revoked", "rotated",
      "status", "overdue", "account", "superseded">>

Dates == {"iat", "exp"}
Accounts == {"outage", "denied", "account", "superseded"}
Rows == {"revoked", "rotated", "status", "overdue"}

\* Those of decode, of a request that authenticates, of introspection and of a
\* rotation.
Decoded == Defects \union Dates \union {"audience", "type", "schema"}
Authenticated == Decoded \union Accounts \union {"tenant"}
Introspected == Decoded \union {"outage", "denied"}
Redeemed == Decoded \union Rows \union {"tenant", "outage", "account"}

\* Those that compare the token with the use it is put to.
Mismatch(check, q, expected) ==
    CASE check \in {"audience", "type"} -> q.type # expected
      [] check = "own claims" -> q.type # expected \/ q.defect = check
      [] check \in {"schema", "tenant"} -> Home[q.pair.sid] # q.host
      [] OTHER -> q.defect = check

\* Mutant: no leeway for a token minted where the clock is ahead.
UntimelyAtOnce(check, q) ==
    \/ check = "iat" /\ q.pair.iat > q.clock
    \/ check = "exp" /\ Exp(q) <= q.clock - Leeway

\* The leeway works both ways.
Untimely(check, q) ==
    \/ check = "iat" /\ q.pair.iat > q.clock + Leeway
    \/ check = "exp" /\ Exp(q) <= q.clock - Leeway

\* Mutant: only a version the account has yet to reach is refused.
WithdrawnAhead(check, q) ==
    CASE check = "outage" -> ~q.reachable
      [] check = "denied" -> Id(q.pair) \in denied
      [] check = "account" -> ~account[q.host].live
      [] check = "superseded" -> q.pair.version > account[q.host].version

\* The account and the denylist.
Withdrawn(check, q) ==
    CASE check = "outage" -> ~q.reachable
      [] check = "denied" -> Id(q.pair) \in denied
      [] check = "account" -> ~account[q.host].live
      [] check = "superseded" -> q.pair.version # account[q.host].version

\* The row of a refresh token and its family.
Spent(check, q) ==
    CASE check = "revoked" -> session[q.pair.sid].stage = "compromised"
      [] check = "rotated" -> ~Newest(q.pair)
      [] check = "status" -> session[q.pair.sid].stage # "open"
      [] check = "overdue" -> q.pair.refreshExp <= q.clock

Fails(check, q, expected) ==
    CASE check \in Dates -> Untimely(check, q)
      [] check \in Accounts -> Withdrawn(check, q)
      [] check \in Rows -> Spent(check, q)
      [] OTHER -> Mismatch(check, q, expected)
Passes(checks, q, expected) == \A check \in checks : ~Fails(check, q, expected)

\* The error codes of the checks, which the exception handler answers with.
Error(check) ==
    CASE check = "header" -> "token_malformed"
      [] check = "kid" -> "token_unknown_key"
      [] check = "algorithm" -> "token_invalid_algorithm"
      [] check \in {"signature", "claims", "iat", "own claims"} -> "token_invalid"
      [] check \in {"exp", "overdue"} -> "token_expired"
      [] check = "issuer" -> "token_invalid_issuer"
      [] check = "audience" -> "token_invalid_audience"
      [] check = "version" -> "token_version_unsupported"
      [] check = "type" -> "token_wrong_type"
      [] check \in {"schema", "tenant"} -> "token_wrong_tenant"
      [] check = "outage" -> "service_unavailable"
      [] check \in {"denied", "revoked", "status"} -> "token_revoked"
      [] check = "rotated" -> "token_reuse_detected"
      [] check = "account" -> "user_inactive"
      [] check = "superseded" -> "token_superseded"

\* The first check that fails decides.
Answer(checks, q, expected) ==
    LET Stops(i) == Order[i] \in checks /\ Fails(Order[i], q, expected)
        first == CHOOSE i \in DOMAIN Order : Stops(i) /\ \A j \in 1 .. i - 1 : ~Stops(j)
    IN IF Passes(checks, q, expected) THEN "passed" ELSE Error(Order[first])

Authenticates(q) == Passes(Authenticated, q, "access")
Redeems(q) == Passes(Redeemed, q, "refresh")

-----------------------------------------------------------------------------
(***************************************************************************)
(* What an authenticated request may do: by where it is, or by the scopes    *)
(* or roles in its token.                                                    *)
(***************************************************************************)
ScopesFor(roles) == BaseScopes \union UNION {RoleScopes[r] : r \in roles}

Action(method) ==
    CASE method \in {"GET", "HEAD", "OPTIONS"} -> "read"
      [] method = "DELETE" -> "delete"
      [] OTHER -> "write"

Covered(scope, granted) == {scope, <<scope[1], "admin">>} \intersect granted # {}

Permits(view, roles, host) ==
    \/ view.check = "authenticated"
    \/ view.check = "member" /\ host # Public
    \/ view.check = "scopes" /\ \A scope \in view.need : Covered(scope, ScopesFor(roles))
    \/ view.check = "roles" /\ (view.need = {} \/ view.need \intersect roles # {})
    \/ view.check = "method" /\ Covered(<<view.resource, Action(view.method)>>, ScopesFor(roles))

-----------------------------------------------------------------------------
(***************************************************************************)
(* Logins, rotations and password changes.                                 *)
(***************************************************************************)
\* login loads the account before its transaction.
BeginLogin(w, sid) ==
    /\ worker[w].stage = "idle" /\ Spare(sid) /\ Room /\ account[Home[sid]].live
    /\ Give(w, [stage |-> "account", kind |-> "login", sid |-> sid,
                version |-> account[Home[sid]].version, roles |-> {}, created |-> 0,
                since |-> 0, skew |-> 0])
    /\ UNCHANGED <<now, account, edits, session, pairs, denied, lost>>

\* The family is created, last_login updated, the roles read.
EstablishSession(w, skew) ==
    /\ worker[w].stage = "account" /\ ~AccountLocked(Home[worker[w].sid])
    /\ Give(w, [worker[w] EXCEPT !.stage = "minting", !.created = now + skew, !.since = now,
                                 !.skew = skew, !.roles = account[Home[worker[w].sid]].roles])
    /\ UNCHANGED <<now, account, edits, session, pairs, denied, lost>>

\* Mutant: the successor keeps the roles of its predecessor.
RedeemWithClaims(w, q) ==
    /\ worker[w].stage = "idle" /\ Redeems(q) /\ ~AccountLocked(q.host) /\ Room
    /\ Give(w, [stage |-> "minting", kind |-> "rotation", sid |-> q.pair.sid,
                version |-> account[q.host].version, roles |-> q.pair.roles,
                created |-> session[q.pair.sid].created, since |-> now, skew |-> q.clock - now])
    /\ UNCHANGED <<now, account, edits, session, pairs, denied, lost>>

\* A rotation that will be granted, with the rows it locks.
Redeem(w, q) ==
    /\ worker[w].stage = "idle" /\ Redeems(q) /\ ~AccountLocked(q.host) /\ Room
    /\ Give(w, [stage |-> "minting", kind |-> "rotation", sid |-> q.pair.sid,
                version |-> account[q.host].version, roles |-> account[q.host].roles,
                created |-> session[q.pair.sid].created, since |-> now, skew |-> q.clock - now])
    /\ UNCHANGED <<now, account, edits, session, pairs, denied, lost>>

\* These sessions are over, with their families and their live tokens.
Ended(sids) ==
    [sid \in Sessions |->
        IF sid \in sids /\ Standing(sid)
        THEN [session[sid] EXCEPT !.stage = "ended", !.endedAt = now]
        ELSE session[sid]]

\* A rotation that is refused may still write: an overdue token is stamped, and
\* a rotated one takes its family down.
RefuseRedeem(q) ==
    /\ ~AccountLocked(q.host)
    /\ \/ /\ Passes(Redeemed \ {"overdue", "account"}, q, "refresh") /\ Spent("overdue", q)
          /\ session' = [session EXCEPT ![q.pair.sid].stage = "lapsed"]
       \/ /\ Passes(Redeemed \ {"rotated", "status", "overdue", "account"}, q, "refresh")
          /\ Spent("rotated", q)
          /\ session' = [Ended({q.pair.sid}) EXCEPT ![q.pair.sid].stage = "compromised"]
    /\ UNCHANGED <<now, account, edits, pairs, denied, worker, lost>>

\* Mutant: the password change and the revocation both supersede.
BeginChangeTwice(w, q, sid) ==
    /\ worker[w].stage = "idle" /\ Spare(sid) /\ Room /\ Home[sid] = q.host
    /\ ~AccountLocked(q.host) /\ edits < MaxEdits
    /\ Give(w, [stage |-> "minting", kind |-> "change", sid |-> sid,
                version |-> account[q.host].version + 2, roles |-> account[q.host].roles,
                created |-> q.clock, since |-> now, skew |-> q.clock - now])
    /\ edits' = edits + 1
    /\ UNCHANGED <<now, account, session, pairs, denied, lost>>

\* The current password is right: the transaction that will revoke everything
\* and open a session for this device.
BeginChange(w, q, sid) ==
    /\ worker[w].stage = "idle" /\ Spare(sid) /\ Room /\ Home[sid] = q.host
    /\ ~AccountLocked(q.host) /\ edits < MaxEdits
    /\ Give(w, [stage |-> "minting", kind |-> "change", sid |-> sid,
                version |-> account[q.host].version + 1, roles |-> account[q.host].roles,
                created |-> q.clock, since |-> now, skew |-> q.clock - now])
    /\ edits' = edits + 1
    /\ UNCHANGED <<now, account, session, pairs, denied, lost>>

\* Mutant: every rotation slides the deadline.
RefreshDeadlineSliding(w) == Clock(w) + RefreshLifetime

\* The absolute deadline of the family wins over the sliding one.
RefreshDeadline(w) ==
    Lesser(Clock(w) + RefreshLifetime, worker[w].created + AbsoluteLifetime)

\* The pair is signed and recorded, and the transaction commits; that of a
\* password change has revoked everything else.
Mint(w) ==
    LET work == worker[w]
        home == Home[work.sid]
        pair == [sid |-> work.sid, gen |-> session[work.sid].gen + 1,
                 roles |-> work.roles, version |-> work.version, iat |-> Clock(w),
                 refreshExp |-> RefreshDeadline(w),
                 raced |-> work.kind = "login" /\ work.version # account[home].version]
        sessions == IF work.kind = "change" THEN Ended(SessionsOf(home)) ELSE session
    IN
    /\ Minting(w)
    /\ pairs' = pairs \union {pair}
    /\ session' = [sessions EXCEPT ![work.sid] =
                      [stage |-> "open", created |-> work.created,
                       gen |-> pair.gen, endedAt |-> @.endedAt]]
    /\ account' = IF work.kind = "change"
                  THEN [account EXCEPT ![home].version = work.version] ELSE account
    /\ Release(w)
    /\ UNCHANGED <<now, edits, denied, lost>>

\* The request dies, its transaction with it.
Die(w) ==
    /\ worker[w].stage # "idle"
    /\ Release(w)
    /\ UNCHANGED <<now, account, edits, session, pairs, denied, lost>>

-----------------------------------------------------------------------------
(***************************************************************************)
(* Sessions end, accounts change.                                          *)
(***************************************************************************)
\* LogoutView: the session of the token is ended and the token denylisted.
Logout(q) ==
    /\ ~SessionLocked(q.pair.sid)
    /\ session' = Ended({q.pair.sid})
    /\ denied' = denied \union {Id(q.pair)}
    /\ UNCHANGED <<now, account, edits, pairs, worker, lost>>

\* RevokeSessionView: another session of the account; its access tokens stay.
RevokeSession(q, sid) ==
    /\ sid \in SessionsOf(q.host) /\ ~SessionLocked(sid)
    /\ session' = Ended({sid})
    /\ UNCHANGED <<now, account, edits, pairs, denied, worker, lost>>

\* revoke_user_tokens, or LogoutAllView, which denylists the token it is given.
RevokeAll(s, tokens) ==
    /\ edits < MaxEdits /\ edits' = edits + 1 /\ ~AccountLocked(s)
    /\ account' = [account EXCEPT ![s].version = @ + 1]
    /\ session' = Ended(SessionsOf(s))
    /\ denied' = denied \union tokens
    /\ UNCHANGED <<now, pairs, worker, lost>>

Lost(s, roles) == [lost EXCEPT ![s] = [r \in Roles |-> IF r \in account[s].roles \ roles THEN now
                                                       ELSE lost[s][r]]]

\* The change form of an account: its groups and whether it is active.
EditAccount(s, roles, live) ==
    /\ edits < MaxEdits /\ edits' = edits + 1 /\ ~AccountLocked(s)
    /\ <<roles, live>> # <<account[s].roles, account[s].live>>
    /\ account' = [account EXCEPT ![s].roles = roles, ![s].live = live]
    /\ lost' = Lost(s, roles)
    /\ UNCHANGED <<now, session, pairs, denied, worker>>

\* The group is deleted, which locks no account.
DeleteRole(s, r) ==
    /\ edits < MaxEdits /\ edits' = edits + 1
    /\ r \in account[s].roles
    /\ account' = [account EXCEPT ![s].roles = @ \ {r}]
    /\ lost' = Lost(s, account[s].roles \ {r})
    /\ UNCHANGED <<now, session, pairs, denied, worker>>

Tick ==
    /\ now < MaxTime /\ now' = now + 1
    /\ \A w \in Workers : Minting(w) => now < worker[w].since + RequestTime
    /\ UNCHANGED <<account, edits, session, pairs, denied, worker, lost>>

-----------------------------------------------------------------------------
Init ==
    /\ now = 0 /\ edits = 0 /\ pairs = {} /\ denied = {}
    /\ account = [s \in Schemas |-> [roles |-> Roles, live |-> TRUE, version |-> 0]]
    /\ session = [sid \in Sessions |-> [stage |-> "unused", created |-> 0, gen |-> 0, endedAt |-> 0]]
    /\ lost = [s \in Schemas |-> [r \in Roles |-> 0 - Fade]]
    /\ worker = [w \in Workers |-> Idle]

Used == {Home[sid] : sid \in Sessions}

\* What is sent, to any host and at any clock; the second kind of request
\* goes to views that require authentication.
Next ==
    \/ \E w \in Workers :
          \/ \E sid \in Sessions : BeginLogin(w, sid)
          \/ \E skew \in 0 .. Skew : EstablishSession(w, skew)
          \/ Mint(w) \/ Die(w)
    \/ \E p \in pairs, s \in Schemas :
          \/ \E q \in AsMinted(p, "refresh", s) :
                RefuseRedeem(q) \/ \E w \in Workers : Redeem(w, q)
          \/ \E q \in AsMinted(p, "access", s) :
                /\ Authenticates(q)
                /\ \/ Logout(q) \/ RevokeAll(s, {Id(p)})
                   \/ \E sid \in Sessions :
                         RevokeSession(q, sid) \/ \E w \in Workers : BeginChange(w, q, sid)
    \/ \E s \in Used :
          \/ RevokeAll(s, {})
          \/ \E roles \in SUBSET Roles, live \in BOOLEAN : EditAccount(s, roles, live)
          \/ \E r \in Roles : DeleteRole(s, r)
    \/ Tick

Spec == Init /\ [][Next]_vars

-----------------------------------------------------------------------------
(***************************************************************************)
(* Properties                                                              *)
(***************************************************************************)

\* Every variable has its type.
TypeOK ==
    /\ now \in Times
    /\ account \in [Schemas -> Account]
    /\ edits \in 0 .. MaxEdits
    /\ session \in [Sessions -> Session]
    /\ pairs \in SUBSET Pair
    /\ denied \in SUBSET (Sessions \X Nat)
    /\ worker \in [Workers -> Work]
    /\ lost \in [Schemas -> [Roles -> Int]]

Recently(t) == t > now - Fade

\* Roles the account has, or had not long ago.
RecentRoles(s) == account[s].roles \union {r \in Roles : Recently(lost[s][r])}

\* Roles travel in the token and sessions end in the database, yet no request
\* gets past a permission check on a role that was taken from the account, and
\* neither the authentication nor the introspection of a token outlives the
\* end of its session, by more than one access-token lifetime, the leeway, the
\* clocks' difference and the time a minting transaction takes together
\* (TokenService._refresh_claims; LogoutView, RevokeSessionView, _handle_reuse).
AuthorityFades ==
    \A p \in pairs : \A s \in Schemas : \A q \in AsMinted(p, "access", s) :
        /\ Authenticates(q) => \A view \in Views :
              Permits(view, p.roles, s) => Permits(view, RecentRoles(s), s)
        /\ Passes(Introspected, q, "access") =>
              Standing(p.sid) \/ Recently(session[p.sid].endedAt)

\* However often it is refreshed, a session stops: no rotation is granted after
\* the absolute lifetime of its family, and no token of it authenticates once
\* the last one minted by then has run out (TokenService._refresh_claims).
SessionsStop ==
    \A p \in pairs : \A s \in Schemas :
        LET deadline == session[p.sid].created + AbsoluteLifetime IN
        /\ \A q \in AsMinted(p, "refresh", s) : Redeems(q) => now < deadline
        /\ \A q \in AsMinted(p, "access", s) :
              Authenticates(q) => now < deadline + AccessLifetime + Leeway + RequestTime

\* token_expired is the one code worth a refresh: when the host that minted an
\* access token refuses it with any other error, the refresh token that is
\* newest in its session is refused as well, on every worker's clock.  The
\* exception is a login that was overtaken by a revocation (exceptions.py).
OtherRefusalsAreFinal ==
    \A newest \in pairs : \A r \in AsMinted(newest, "refresh", Home[newest.sid]) :
        Newest(newest) /\ Redeems(r) =>
            \A p \in pairs : p.sid = newest.sid /\ ~p.raced =>
                \A q \in AsMinted(p, "access", r.host) :
                    Answer(Authenticated, q, "access") \in {"passed", "token_expired"}

\* A login that checked the password before everything of the account was
\* revoked, and commits after, opens a session with a token that authenticates
\* nothing, anywhere and ever after: an account's version never comes back
\* (AuthenticationService.login, authenticate's superseded check).
OvertakenLoginsFailClosed ==
    \A p \in pairs : p.raced => \A s \in Schemas :
        \A q \in AsMinted(p, "access", s) : ~Authenticates(q)

\* A forged token is refused before any of its contents is read: its answer
\* says nothing of the session, the account or the tenant, whatever it is used
\* for.  A live token presented for the use of the other kind is told so by its
\* audience, not by the claims it lacks (validator.decode, claims.py).
MisuseIsNamed ==
    \A p \in pairs : \A s \in Schemas :
        /\ \A q \in Forged(p, s) :
              /\ Answer(Authenticated, q, "access") = Error(q.defect)
              /\ Answer(Redeemed, q, "refresh") = Error(q.defect)
        /\ \A q \in AsMinted(p, "refresh", s) : Exp(q) > q.clock =>
              Answer(Authenticated, q, "access") = "token_invalid_audience"
        /\ \A q \in AsMinted(p, "access", s) : Exp(q) > q.clock =>
              Answer(Redeemed, q, "refresh") = "token_invalid_audience"

-----------------------------------------------------------------------------
(***************************************************************************)
(* The inductive invariants.                                               *)
(***************************************************************************)

At(w) == worker[w].stage
Sid(w) == worker[w].sid
HomeOf(w) == Home[Sid(w)]

\* What a minting request holds still agrees with the rows: the session it opens
\* is unused or the one it rotates is as old as it read; its transaction began
\* before the deadline; a role it read is there or was lost since.
Holds(w) == At(w) # "idle" =>
    /\ Sid(w) \in Sessions
    /\ worker[w].kind # "rotation" => session[Sid(w)].stage = "unused"
    /\ worker[w].kind = "rotation" => /\ session[Sid(w)].stage # "unused"
                                      /\ worker[w].created = session[Sid(w)].created
    /\ At(w) = "account" => worker[w].kind = "login"
    /\ worker[w].kind = "change" => /\ worker[w].version = account[HomeOf(w)].version + 1
                                    /\ worker[w].version <= edits
    /\ At(w) = "minting" =>
          /\ worker[w].since <= now /\ now <= worker[w].since + RequestTime
          /\ worker[w].since + worker[w].skew < worker[w].created + AbsoluteLifetime
          /\ \A r \in worker[w].roles :
                r \in account[HomeOf(w)].roles \/ worker[w].since <= lost[HomeOf(w)][r]

\* No two requests open or rotate one session, no two hold the lock of an account.
Apart == \A v, w \in Workers : v # w =>
    /\ At(v) # "idle" /\ At(w) # "idle" => Sid(v) # Sid(w)
    /\ At(v) = "minting" /\ At(w) = "minting" => HomeOf(v) # HomeOf(w)

VersionsFit == \A s \in Schemas : account[s].version <= edits

\* A pair was minted before its session ended, soon after the roles in it were
\* read, and before its session's deadline plus the time of a request.
SessionFits(p) ==
    /\ session[p.sid].stage # "unused"
    /\ Standing(p.sid) \/ p.iat <= session[p.sid].endedAt + Skew
    /\ p.refreshExp <= session[p.sid].created + AbsoluteLifetime
    /\ p.iat < session[p.sid].created + AbsoluteLifetime + RequestTime
RolesFit(p) == \A r \in p.roles :
    r \in account[Home[p.sid]].roles \/ p.iat <= lost[Home[p.sid]][r] + Skew + RequestTime
PairsFit == \A p \in pairs : p.iat <= now + Skew /\ SessionFits(p) /\ RolesFit(p)

\* What a request read before its transaction ends still agrees with the rows when it
\* mints, and every pair was minted in time (issue_and_store, _refresh_claims).
CInv == TypeOK /\ (\A w \in Workers : Holds(w)) /\ Apart /\ VersionsFit /\ PairsFit

\* A rotation that will commit holds an open session and the version its account has
\* now; a login was checked against a version the account has or had.
Fresh(w) ==
    /\ At(w) = "minting" /\ worker[w].kind = "rotation" =>
          /\ session[Sid(w)].stage = "open"
          /\ worker[w].version = account[HomeOf(w)].version
    /\ At(w) # "idle" /\ worker[w].kind = "login" =>
          worker[w].version <= account[HomeOf(w)].version
\* A denylisted token's session is over.
Over(sid) == session[sid].stage \in {"ended", "compromised"}
DeniedAreOver == \A id \in denied : Over(id[1])
\* A pair of a standing session has the version of its account, unless its login was
\* overtaken, which leaves it behind for ever.
Agrees(p) ==
    /\ p.raced => p.version < account[Home[p.sid]].version
    /\ Standing(p.sid) /\ ~p.raced => p.version = account[Home[p.sid]].version
\* What makes a refusal final: the checks of a token's session and version fail for
\* good (get_user, _redeem, is_denylisted).
FInv == (\A w \in Workers : Fresh(w)) /\ DeniedAreOver /\ \A p \in pairs : Agrees(p)
=============================================================================
