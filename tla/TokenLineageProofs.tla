------------------------- MODULE TokenLineageProofs -------------------------
(***************************************************************************)
(* Proofs about TokenLineage for every number of workers, accounts,         *)
(* lineages and tokens.  The argument is two-phase locking: a request reads *)
(* what it decides on and writes what it covers only in rows it holds, and   *)
(* the steps of the others leave the rows it holds alone (Undisturbed).     *)
(***************************************************************************)
EXTENDS TokenLineage, FiniteSetTheorems, TLAPS

\* The row identifiers are pairwise different rows.
LEMMA RowsDistinct ==
    /\ \A t \in Tokens : TokenRow(t) \in Rows
    /\ \A u \in Users : UserRow(u) \in Rows
    /\ \A l \in Lineages : FamilyRow(l) \in Rows /\ SessionRow(l) \in Rows
  BY DEF Rows, TokenRow, UserRow, FamilyRow, SessionRow

\* What another step may do to a request v: the rows v holds keep their values,
\* v keeps its locks, no token becomes active in an open session v has locked,
\* directly or through its account.
Respects(v) ==
    /\ tx'[v] = tx[v]
    /\ \A r \in Rows : holder[r] = v => holder'[r] = v
    /\ enabled' \subseteq Users /\ opened \subseteq opened'
    /\ overdue \subseteq overdue'
    /\ revoked \subseteq revoked' /\ ended \subseteq ended'
    /\ \A t \in Tokens : status[t] # "unminted" => status'[t] # "unminted"
    /\ \A t \in Tokens : status[t] = "pruned" => status'[t] = "pruned"
    /\ \A t \in Tokens : Exists(t) /\ status'[t] # "pruned" => family'[t] = family[t]
    /\ \A t \in Tokens : Exists(t) /\ holder[TokenRow(t)] = v =>
          status'[t] = status[t] /\ family'[t] = family[t]
    /\ \A l \in Lineages : holder[FamilyRow(l)] = v /\ l \in revoked' => l \in revoked
    /\ \A l \in Lineages : holder[SessionRow(l)] = v /\ l \in ended' => l \in ended
    /\ \A u \in Users : holder[UserRow(u)] = v /\ u \in enabled => u \in enabled'
    /\ \A l \in opened' \ opened : l \in Lineages /\ holder[UserRow(Owner[l])] # v
    /\ \A t \in Tokens :
          status'[t] = "active" /\ family'[t] \in opened =>
             \/ status[t] = "active" /\ family[t] = family'[t]
             \/ /\ family'[t] \notin ended
                /\ holder[SessionRow(family'[t])] # v
                /\ holder[UserRow(Owner[family'[t]])] # v

\* A request that the others respect stays sound.
LEMMA Undisturbed ==
    ASSUME IInv, NEW v \in Workers, Respects(v)
    PROVE  Sound(v)'
<1>1. Sound(v) /\ tx'[v] = tx[v] /\ tx[v] \in Request
  BY DEF IInv, TypeOK, Respects
<1>2. tx[v].scope \subseteq Tokens /\ tx[v].targets \subseteq Lineages
  BY <1>1 DEF Request
<1>3. /\ Stage(v)' = Stage(v)
      /\ PastTokens(v)' = PastTokens(v) /\ PastFamilies(v)' = PastFamilies(v)
      /\ PastSessions(v)' = PastSessions(v) /\ HoldsUser(v)' = HoldsUser(v)
      /\ AtOwnStage(v)' = AtOwnStage(v)
  BY <1>1 DEF Stage, PastTokens, PastFamilies, PastSessions, HoldsUser, AtOwnStage, Revoker
<1>4. ASSUME Stage(v) = "mint"
      PROVE  LET t == tx[v].token
                 l == family[t]
             IN  /\ t \in Tokens /\ l \in Lineages /\ Owner[l] \in Users
                 /\ Exists(t)
                 /\ \A r \in {TokenRow(t), UserRow(Owner[l]), FamilyRow(l), SessionRow(l)} :
                       r \in Rows /\ holder[r] = v
  <2>1. tx[v].op = "refresh" /\ tx[v].token \in Tokens
    BY <1>1, <1>4 DEF Sound, WellFormed, AtOwnStage
  <2>2. status[tx[v].token] = "active"
    BY <1>1, <1>4 DEF Sound, DecisionHolds
  <2>3. family[tx[v].token] \in Lineages
    BY <2>1, <2>2 DEF IInv, TypeOK, RowsLinked, Exists
  <2>4. Owner[family[tx[v].token]] \in Users
    BY <2>3, ConstantsAssumption
  <2> QED BY <1>1, <1>4, <2>1, <2>2, <2>3, <2>4, RowsDistinct
      DEF Sound, LockDiscipline, RedeemRows, Exists
<1>5. WellFormed(v)'
  <2>1. ASSUME NEW t \in tx[v].scope
        PROVE  /\ status'[t] # "unminted"
               /\ Exists(t)' => family'[t] \in tx[v].targets
    BY <1>1, <1>2 DEF Sound, WellFormed, Respects, Exists
  <2> QED BY <1>1, <1>2, <1>3, <2>1 DEF Sound, WellFormed, Respects, Revoker
<1>6. DecisionHolds(v)'
  BY <1>1, <1>3, <1>4 DEF Sound, DecisionHolds, Respects, Stage
<1>7. LockDiscipline(v)'
  <2>1. Stage(v) = "mint" => \A r \in RedeemRows(tx[v].token)' : holder'[r] = v
    BY <1>1, <1>3, <1>4 DEF Respects, RedeemRows
  <2>2. Stage(v) = "stamp" => /\ holder'[TokenRow(tx[v].token)] = v
                              /\ status'[tx[v].token] = "active"
    BY <1>1, RowsDistinct
    DEF Sound, WellFormed, AtOwnStage, LockDiscipline, Respects, Exists
  <2>3. PastTokens(v) =>
           \A t \in tx[v].scope : Exists(t)' => holder'[TokenRow(t)] = v
    BY <1>1, <1>2, RowsDistinct DEF Sound, WellFormed, LockDiscipline, Respects, Exists
  <2>4. PastFamilies(v) =>
           \A l \in tx[v].targets \ revoked' : holder'[FamilyRow(l)] = v
    BY <1>1, <1>2, RowsDistinct DEF Sound, LockDiscipline, Respects
  <2>5. PastSessions(v) =>
           \A l \in tx[v].targets \ ended' : holder'[SessionRow(l)] = v
    BY <1>1, <1>2, RowsDistinct DEF Sound, LockDiscipline, Respects
  <2>6. HoldsUser(v) => holder'[UserRow(tx[v].user)] = v
    BY <1>1, RowsDistinct
    DEF Sound, WellFormed, LockDiscipline, Respects, HoldsUser, Ender
  <2> QED BY <1>1, <1>3, <2>1, <2>2, <2>3, <2>4, <2>5, <2>6 DEF LockDiscipline, Stage
<1>8. Covers(v)'
  <2> SUFFICES ASSUME tx[v].op \in Ender, Stage(v) = "tokens" \/ PastTokens(v)
               PROVE  /\ ActiveTokensOf(tx[v].targets)' \subseteq tx[v].scope
                      /\ tx[v].op \in Revoker =>
                            LineagesOf(tx[v].user)' \subseteq tx[v].targets
    BY <1>1, <1>3 DEF Covers, Stage, ActiveTokensOf, LineagesOf, Active
  <2>1. /\ ActiveTokensOf(tx[v].targets) \subseteq tx[v].scope
        /\ tx[v].op \in Revoker => LineagesOf(tx[v].user) \subseteq tx[v].targets
    BY <1>1 DEF Sound, Covers
  <2>2. tx[v].op \in Revoker => holder[UserRow(tx[v].user)] = v
    BY <1>1 DEF Sound, LockDiscipline, HoldsUser
  <2>3. tx[v].op \in Revoker => LineagesOf(tx[v].user)' \subseteq tx[v].targets
    BY <2>1, <2>2 DEF LineagesOf, Respects
  <2>4. ASSUME NEW t \in ActiveTokensOf(tx[v].targets)' PROVE t \in tx[v].scope
    <3>1. t \in Tokens /\ family'[t] \in tx[v].targets /\ t \notin overdue
             /\ status'[t] = "active"
      BY <2>4, <1>1 DEF ActiveTokensOf, Active, Respects
    <3>2. family'[t] \in opened /\ family'[t] \in Lineages
      BY <3>1, <1>1, <1>2 DEF Sound, WellFormed
    <3>3. CASE status[t] = "active" /\ family[t] = family'[t]
      BY <3>1, <3>3, <2>1 DEF ActiveTokensOf, Active
    <3>4. CASE /\ family'[t] \notin ended
               /\ holder[SessionRow(family'[t])] # v
               /\ holder[UserRow(Owner[family'[t]])] # v
      <4>1. tx[v].op \in Revoker => Owner[family'[t]] = tx[v].user
        BY <1>1, <3>1 DEF Sound, WellFormed, Ender, Revoker
      <4>2. tx[v].op \notin Revoker => PastSessions(v)
        BY <1>1 DEF PastSessions, PastTokens, Ender, Revoker, Sound, WellFormed, AtOwnStage
      <4> QED BY <1>1, <3>1, <3>4, <4>1, <4>2, <2>2 DEF Sound, LockDiscipline
    <3> QED BY <3>1, <3>2, <3>3, <3>4 DEF Respects
  <2> QED BY <2>3, <2>4
<1> QED BY <1>5, <1>6, <1>7, <1>8 DEF Sound

-----------------------------------------------------------------------------

\* Idle is a request, and a sound one.
LEMMA IdleIsSound ==
    ASSUME NEW w \in Workers, tx'[w] = Idle
    PROVE  Sound(w)'
<1>1. /\ tx'[w].op = "none" /\ tx'[w].stage = "idle"
      /\ tx'[w].targets = {} /\ tx'[w].scope = {}
  BY DEF Idle, NewRequest
<1> QED
  BY <1>1 DEF Sound, WellFormed, AtOwnStage, LockDiscipline, Covers, DecisionHolds,
              PastTokens, PastFamilies, PastSessions, HoldsUser, Stage, Revoker, Ender

LEMMA IdleIsRequest == Idle \in Request
  BY DEF Idle, NewRequest, Request, Ops, Stages

\* A step of one request that writes no row.
LEMMA ReadOnlyStep ==
    ASSUME IInv, NEW w \in Workers, NEW q \in Request,
           UNCHANGED <<rows, enabled>>,
           overdue \subseteq overdue', overdue' \subseteq Tokens, denied' \subseteq Tokens,
           tx' = [tx EXCEPT ![w] = q],
           holder' \in [Rows -> Workers \union {NoWorker}],
           \A v \in Workers \ {w}, r \in Rows : holder[r] = v => holder'[r] = v,
           Sound(w)'
    PROVE  IInv'
<1>1. TypeOK'
  BY DEF IInv, TypeOK, rows
<1>2. RowsLinked' /\ OneLiveHead'
  BY DEF IInv, RowsLinked, OneLiveHead, rows, Exists
<1>3. EndedSessionIsDead'
  BY DEF IInv, EndedSessionIsDead, ActiveTokensOf, Active, rows
<1>4. \A v \in Workers \ {w} : Respects(v)
  BY DEF Respects, IInv, TypeOK, rows
<1> QED BY <1>1, <1>2, <1>3, <1>4, Undisturbed DEF IInv

\* The end of a transaction gives back the locks of one worker and no other.
LEMMA ReleasedLocks ==
    ASSUME TypeOK, NEW w \in Workers
    PROVE  /\ Released(w) \in [Rows -> Workers \union {NoWorker}]
           /\ \A v \in Workers \ {w}, r \in Rows : holder[r] = v => Released(w)[r] = v
  BY DEF Released, TypeOK

\* A request that ends without a write: refusals, nothing matched, failures.
LEMMA FinishStep ==
    ASSUME IInv, NEW w \in Workers, Finish(w), UNCHANGED <<rows, clock>>,
           denied' \subseteq Tokens
    PROVE  IInv'
<1>1. tx' = [tx EXCEPT ![w] = Idle] /\ tx'[w] = Idle
  BY DEF Finish, IInv, TypeOK
<1>2. UNCHANGED <<rows, enabled>> /\ overdue' = overdue /\ overdue' \subseteq Tokens
  BY DEF clock, IInv, TypeOK
<1>3. /\ holder' \in [Rows -> Workers \union {NoWorker}]
      /\ \A v \in Workers \ {w}, r \in Rows : holder[r] = v => holder'[r] = v
  BY ReleasedLocks DEF Finish, IInv
<1> QED BY <1>1, <1>2, <1>3, IdleIsSound, IdleIsRequest, ReadOnlyStep

\* A statement that writes no row and takes no lock.
LEMMA StatementStep ==
    ASSUME IInv, NEW w \in Workers, NEW q \in Request,
           UNCHANGED <<rows, clock, holder>>, denied' \subseteq Tokens,
           tx' = [tx EXCEPT ![w] = q],
           Sound(w)'
    PROVE  IInv'
  BY ReadOnlyStep DEF IInv, TypeOK, clock

\* Moving on to the next statement leaves the rest of the request alone.
LEMMA GotoRequest ==
    ASSUME TypeOK, NEW w \in Workers, NEW stage \in Stages, Goto(w, stage)
    PROVE  /\ [tx[w] EXCEPT !.stage = stage] \in Request
           /\ tx' = [tx EXCEPT ![w] = [tx[w] EXCEPT !.stage = stage]]
           /\ tx'[w] = [tx[w] EXCEPT !.stage = stage]
  BY DEF Goto, TypeOK, Request

-----------------------------------------------------------------------------

\* A lock is granted on a free row: nobody loses one.
LEMMA AcquireStep ==
    ASSUME IInv, NEW w \in Workers, NEW r \in Rows, Acquire(w, r)
    PROVE  IInv'
<1>1. /\ holder' \in [Rows -> Workers \union {NoWorker}]
      /\ \A v \in Workers, x \in Rows : holder[x] = v => holder'[x] = v
  BY ConstantsAssumption DEF Acquire, Free, IInv, TypeOK
<1>2. tx[w] \in Request /\ tx' = [tx EXCEPT ![w] = tx[w]]
  BY DEF Acquire, IInv, TypeOK
<1>3. /\ UNCHANGED <<rows, enabled>> /\ overdue' = overdue /\ overdue' \subseteq Tokens
      /\ denied' \subseteq Tokens
  BY DEF Acquire, clock, IInv, TypeOK
<1>4. Respects(w)
  BY <1>1, <1>2, <1>3 DEF Respects, Acquire, IInv, TypeOK, rows
<1> QED BY <1>1, <1>2, <1>3, <1>4, Undisturbed, ReadOnlyStep

\* What a request that has just begun knows.
LEMMA BeginStep ==
    ASSUME IInv, NEW w \in Workers, Begin(w)
    PROVE  IInv'
<1> DEFINE Begun(q) == /\ tx' = [tx EXCEPT ![w] = q]
                       /\ UNCHANGED <<rows, clock, denied, holder>>
<1>1. ASSUME NEW q \in Request, Begun(q),
             q.scope = {}, q.targets \subseteq opened,
             \/ q.op = "refresh" /\ q.stage = "redeem" /\ q.token \in Tokens
             \/ /\ q.op = "end" /\ q.stage = "sessions" /\ q.user \in Users
                /\ \A k, l \in q.targets : k = l
             \/ q.op = "login" /\ q.stage = "count" /\ q.user \in Users /\ q.targets = {}
             \/ q.op \in Revoker /\ q.stage = "user" /\ q.user \in Users /\ q.targets = {}
      PROVE  IInv'
  <2>1. tx'[w] = q /\ opened' = opened /\ denied' \subseteq Tokens
    BY <1>1 DEF IInv, TypeOK, rows
  <2>2. Sound(w)'
    BY <1>1, <2>1
    DEF Sound, WellFormed, AtOwnStage, LockDiscipline, Covers, DecisionHolds,
        PastTokens, PastFamilies, PastSessions, HoldsUser, Stage, Revoker, Ender
  <2> QED BY <1>1, <2>1, <2>2, StatementStep
<1>2. ASSUME NEW t \in Tokens, BeginRefresh(w, t) PROVE IInv'
  <2> DEFINE q == NewRequest("refresh", "redeem", NoUser, t, {})
  <2>1. q \in Request /\ q.scope = {} /\ q.targets = {}
        /\ q.op = "refresh" /\ q.stage = "redeem" /\ q.token = t
    BY DEF NewRequest, Request, Ops, Stages
  <2> QED BY <1>1, <1>2, <2>1 DEF BeginRefresh
<1>3. ASSUME NEW u \in Users, BeginLogin(w, u) PROVE IInv'
  <2> DEFINE q == NewRequest("login", "count", u, NoToken, {})
  <2>1. q \in Request /\ q.scope = {} /\ q.targets = {}
        /\ q.op = "login" /\ q.stage = "count" /\ q.user = u
    BY DEF NewRequest, Request, Ops, Stages
  <2> QED BY <1>1, <1>3, <2>1 DEF BeginLogin
<1>4. ASSUME NEW u \in Users, BeginRevokeAll(w, u) PROVE IInv'
  <2> DEFINE q == NewRequest("revoke_all", "user", u, NoToken, {})
  <2>1. q \in Request /\ q.scope = {} /\ q.targets = {}
        /\ q.op = "revoke_all" /\ q.stage = "user" /\ q.user = u
    BY DEF NewRequest, Request, Ops, Stages
  <2> QED BY <1>1, <1>4, <2>1 DEF BeginRevokeAll, Revoker
<1>5. ASSUME NEW u \in Users, BeginChange(w, u) PROVE IInv'
  <2> DEFINE q == NewRequest("change", "user", u, NoToken, {})
  <2>1. q \in Request /\ q.scope = {} /\ q.targets = {}
        /\ q.op = "change" /\ q.stage = "user" /\ q.user = u
    BY DEF NewRequest, Request, Ops, Stages
  <2> QED BY <1>1, <1>5, <2>1 DEF BeginChange, Revoker
<1>6. ASSUME NEW u \in Users, NEW l \in Lineages, BeginEnd(w, u, l) PROVE IInv'
  <2> DEFINE q == NewRequest("end", "sessions", u, NoToken, {l})
  <2>1. q \in Request /\ q.scope = {} /\ q.targets = {l} /\ l \in opened
        /\ q.op = "end" /\ q.stage = "sessions" /\ q.user = u
    BY <1>6 DEF NewRequest, Request, Ops, Stages, BeginEnd
  <2> QED BY <1>1, <1>6, <2>1 DEF BeginEnd
<1> QED BY <1>2, <1>3, <1>4, <1>5, <1>6 DEF Begin

-----------------------------------------------------------------------------

\* What _redeem decides on it has locked: the four rows of the join.
LEMMA RedeemStep ==
    ASSUME IInv, NEW w \in Workers, Redeem(w)
    PROVE  IInv'
<1> DEFINE t == tx[w].token
<1>1. /\ Sound(w) /\ tx[w] \in Request /\ Stage(w) = "redeem" /\ tx[w].op = "refresh"
      /\ t \in Tokens /\ denied' \subseteq Tokens
      /\ UNCHANGED <<rows, clock>>
  BY DEF IInv, TypeOK, Redeem, Sound, WellFormed, AtOwnStage
<1>2. Exists(t) => RedeemRows(t) \subseteq Held(w)
  BY <1>1 DEF Redeem, Wanted, NextRedeemRow, RedeemRows
<1>3. CASE Finish(w)
  BY <1>1, <1>3, FinishStep
<1>4. CASE /\ status[t] = "rotated"
           /\ holder' = Released(w)
           /\ tx' = [tx EXCEPT ![w] = NewRequest("reuse", "detected", NoUser, t, {family[t]})]
  <2> DEFINE q == NewRequest("reuse", "detected", NoUser, t, {family[t]})
  <2>1. family[t] \in opened
    BY <1>1, <1>4 DEF IInv, RowsLinked, Exists
  <2>2. /\ q \in Request /\ q.op = "reuse" /\ q.stage = "detected"
        /\ q.scope = {} /\ q.targets = {family[t]}
    BY <1>1, <2>1 DEF NewRequest, Request, Ops, Stages, IInv, TypeOK
  <2>3. tx'[w] = q /\ opened' = opened
    BY <1>1, <1>4 DEF IInv, TypeOK, rows
  <2>4. Sound(w)'
    BY <2>1, <2>2, <2>3
    DEF Sound, WellFormed, AtOwnStage, LockDiscipline, Covers, DecisionHolds,
        PastTokens, PastFamilies, PastSessions, HoldsUser, Stage, Revoker, Ender
  <2>5. /\ holder' \in [Rows -> Workers \union {NoWorker}]
        /\ \A v \in Workers \ {w}, r \in Rows : holder[r] = v => holder'[r] = v
    BY <1>4, ReleasedLocks DEF IInv
  <2> QED BY <1>1, <1>4, <2>2, <2>4, <2>5, ReadOnlyStep DEF clock, IInv, TypeOK
<1>5. ASSUME NEW stage \in {"stamp", "mint"}, Goto(w, stage), UNCHANGED holder,
             status[t] = "active", stage = "mint" => ~Refused(t)
      PROVE  IInv'
  <2> DEFINE q == [tx[w] EXCEPT !.stage = stage]
  <2>1. q \in Request /\ tx' = [tx EXCEPT ![w] = q] /\ tx'[w] = q
    <3>1. stage \in Stages /\ TypeOK
      BY DEF Stages, IInv
    <3> HIDE DEF q
    <3> QED BY <1>5, <3>1, GotoRequest DEF q
  <2>2. q.op = "refresh" /\ q.stage = stage /\ q.token = t /\ q.targets = tx[w].targets
           /\ q.scope = tx[w].scope
    BY <1>1, <2>1 DEF Request
  <2>3. \A r \in RedeemRows(t) : holder[r] = w
    BY <1>2, <1>5 DEF Exists, Held
  <2>4. WellFormed(w)'
    BY <1>1, <2>1, <2>2
    DEF Sound, WellFormed, AtOwnStage, Stage, Revoker, Ender, rows, Exists
  <2>5. LockDiscipline(w)' /\ Covers(w)'
    BY <1>1, <1>5, <2>1, <2>2, <2>3
    DEF LockDiscipline, Covers, PastTokens, PastFamilies, PastSessions, HoldsUser,
        Stage, Revoker, Ender, RedeemRows, rows
  <2>6. stage = "mint" => family[t] \notin revoked \union ended /\ Owner[family[t]] \in enabled
    BY <1>5 DEF Refused, IInv, EndedSessionIsDead
  <2>7. DecisionHolds(w)'
    BY <1>1, <1>5, <2>1, <2>2, <2>6 DEF DecisionHolds, Stage, rows, clock
  <2> QED BY <1>1, <1>5, <2>1, <2>4, <2>5, <2>7, StatementStep DEF Sound
<1> QED BY <1>3, <1>4, <1>5 DEF Redeem, Active

\* The two statements that open a teardown look at rows and hold none.
LEMMA TeardownStep ==
    ASSUME IInv, NEW w \in Workers, HandleReuse(w) \/ RevokeFamily(w)
    PROVE  IInv'
<1>1. /\ Sound(w) /\ tx[w] \in Request /\ tx[w].op = "reuse"
      /\ denied' \subseteq Tokens /\ UNCHANGED <<rows, clock, holder>>
  BY DEF IInv, TypeOK, HandleReuse, RevokeFamily, Sound, WellFormed, AtOwnStage
<1>2. ASSUME NEW q \in Request, tx' = [tx EXCEPT ![w] = q], q.op = "reuse",
             q.targets = tx[w].targets, q.stage \in {"teardown", "tokens"},
             \A t \in q.scope : /\ status[t] # "unminted"
                                /\ Exists(t) => family[t] \in q.targets
      PROVE  IInv'
  <2>1. tx'[w] = q
    BY <1>2 DEF IInv, TypeOK
  <2>2. Sound(w)'
    BY <1>1, <1>2, <2>1
    DEF Sound, WellFormed, AtOwnStage, LockDiscipline, Covers, DecisionHolds,
        PastTokens, PastFamilies, PastSessions, HoldsUser, Stage, Revoker, Ender,
        rows, Exists
  <2> QED BY <1>1, <1>2, <2>2, StatementStep
<1>3. CASE HandleReuse(w)
  <2> DEFINE live == {t \in Tokens : /\ family[t] \in tx[w].targets
                                     /\ status[t] \notin {"expired", "revoked"}}
             q == [tx[w] EXCEPT !.stage = "teardown", !.live = live]
  <2>1. q \in Request /\ q.op = "reuse" /\ q.targets = tx[w].targets
        /\ q.stage = "teardown" /\ q.scope = tx[w].scope
    BY <1>1 DEF Request, Stages
  <2>2. tx' = [tx EXCEPT ![w] = q]
    BY <1>3 DEF HandleReuse, IInv, TypeOK
  <2> QED BY <1>1, <1>2, <2>1, <2>2 DEF Sound, WellFormed
<1>4. CASE RevokeFamily(w)
  <2> DEFINE scope == {t \in Tokens : /\ family[t] \in tx[w].targets
                                      /\ status[t] # "expired"}
             q == [tx[w] EXCEPT !.stage = "tokens", !.scope = scope]
  <2>1. q \in Request /\ q.op = "reuse" /\ q.targets = tx[w].targets
        /\ q.stage = "tokens" /\ q.scope = scope
    BY <1>1 DEF Request, Stages
  <2>2. tx' = [tx EXCEPT ![w] = q]
    BY <1>4 DEF RevokeFamily, IInv, TypeOK
  <2>3. \A t \in scope : status[t] # "unminted"
    BY <1>1, ConstantsAssumption
    DEF IInv, RowsLinked, Exists, Sound, WellFormed, TypeOK, Lineages, NoLineage
  <2> QED BY <1>2, <2>1, <2>2, <2>3
<1> QED BY <1>3, <1>4

-----------------------------------------------------------------------------

\* A statement that has nothing left to wait for holds what it writes.
LEMMA GrantedRows ==
    ASSUME NEW w \in Workers, Wanted(w) = {}
    PROVE  /\ Stage(w) = "user" => holder[UserRow(tx[w].user)] = w
           /\ Stage(w) = "sessions" =>
                 \A l \in SessionsMatched(w) : holder[SessionRow(l)] = w
           /\ Stage(w) = "tokens" =>
                 \A t \in tx[w].scope : Exists(t) => holder[TokenRow(t)] = w
           /\ Stage(w) = "families" =>
                 \A l \in tx[w].targets \ revoked : holder[FamilyRow(l)] = w
<1>1. CASE Stage(w) = "user"
  BY <1>1 DEF Wanted, Held
<1>2. CASE Stage(w) = "sessions"
  <2>1. {SessionRow(l) : l \in SessionsMatched(w)} \subseteq Held(w)
    BY <1>2 DEF Wanted
  <2> QED BY <1>2, <2>1 DEF Held
<1>3. CASE Stage(w) = "tokens"
  <2>1. {TokenRow(t) : t \in {s \in tx[w].scope : Exists(s)}} \subseteq Held(w)
    BY <1>3 DEF Wanted
  <2> QED BY <1>3, <2>1 DEF Held
<1>4. CASE Stage(w) = "families"
  <2>1. {FamilyRow(l) : l \in tx[w].targets \ revoked} \subseteq Held(w)
    BY <1>4 DEF Wanted
  <2> QED BY <1>4, <2>1 DEF Held
<1> QED BY <1>1, <1>2, <1>3, <1>4

\* The next request state of a statement that only moves on: a request at a
\* later stage, the same in everything else.
LEMMA GotoStep ==
    ASSUME IInv, NEW w \in Workers, NEW stage \in Stages, Goto(w, stage),
           UNCHANGED <<rows, clock, holder>>, denied' \subseteq Tokens,
           stage \notin {"count", "surplus"},
           tx[w].op = "end" => Stage(w) # "sessions",
           ASSUME tx'[w] \in Request, tx'[w].stage = stage, tx'[w].op = tx[w].op,
                  tx'[w].user = tx[w].user, tx'[w].token = tx[w].token,
                  tx'[w].targets = tx[w].targets, tx'[w].scope = tx[w].scope
           PROVE  AtOwnStage(w)' /\ LockDiscipline(w)' /\ Covers(w)' /\ DecisionHolds(w)'
    PROVE  IInv'
<1> DEFINE q == [tx[w] EXCEPT !.stage = stage]
<1>1. q \in Request /\ tx' = [tx EXCEPT ![w] = q] /\ tx'[w] = q
  <2>1. TypeOK
    BY DEF IInv
  <2> HIDE DEF q
  <2> QED BY <2>1, GotoRequest DEF q
<1>2. /\ tx'[w] \in Request /\ tx'[w].stage = stage /\ tx'[w].op = tx[w].op
      /\ tx'[w].user = tx[w].user /\ tx'[w].token = tx[w].token
      /\ tx'[w].targets = tx[w].targets /\ tx'[w].scope = tx[w].scope
  BY <1>1 DEF Request, IInv, TypeOK
<1>3. AtOwnStage(w)' /\ LockDiscipline(w)' /\ Covers(w)' /\ DecisionHolds(w)'
  BY <1>2
<1>4. Sound(w)
  BY DEF IInv
<1>5. WellFormed(w)'
  BY <1>2, <1>3, <1>4 DEF Sound, WellFormed, Stage, Revoker, Ender, rows, Exists
<1>6. Sound(w)'
  BY <1>3, <1>5 DEF Sound
<1> HIDE DEF q
<1> QED BY <1>1, <1>6, StatementStep

LEMMA RevokeTokensStep ==
    ASSUME IInv, NEW w \in Workers, RevokeTokens(w)
    PROVE  IInv'
<1>1. /\ Sound(w) /\ Stage(w) = "tokens" /\ Goto(w, "families")
      /\ UNCHANGED <<rows, clock, holder>> /\ denied' \subseteq Tokens
  BY DEF IInv, TypeOK, RevokeTokens
<1>2. \A t \in tx[w].scope : Exists(t) => holder[TokenRow(t)] = w
  BY <1>1, GrantedRows DEF RevokeTokens
<1>3. ASSUME tx'[w].stage = "families", tx'[w].op = tx[w].op,
             tx'[w].user = tx[w].user, tx'[w].token = tx[w].token,
             tx'[w].targets = tx[w].targets, tx'[w].scope = tx[w].scope
      PROVE  AtOwnStage(w)' /\ LockDiscipline(w)' /\ Covers(w)' /\ DecisionHolds(w)'
  <2>1. AtOwnStage(w)' /\ DecisionHolds(w)'
    BY <1>1, <1>3 DEF Sound, WellFormed, AtOwnStage, DecisionHolds, Stage, Revoker
  <2>2. /\ PastSessions(w)' => PastSessions(w) /\ ended' = ended
        /\ HoldsUser(w)' => HoldsUser(w)
        /\ ~PastFamilies(w)' /\ Stage(w)' \notin {"mint", "stamp"}
    BY <1>1, <1>3 DEF PastTokens, PastFamilies, PastSessions, HoldsUser, Stage, Revoker, rows
  <2>3. LockDiscipline(w)'
    BY <1>1, <1>2, <1>3, <2>2 DEF Sound, LockDiscipline, Exists, rows
  <2>4. Covers(w)'
    BY <1>1, <1>3
    DEF Sound, Covers, PastTokens, Stage, Revoker, Ender, ActiveTokensOf, Active,
        LineagesOf, rows, clock
  <2> QED BY <2>1, <2>3, <2>4
<1>4. "families" \in Stages \ {"count", "surplus"}
  BY DEF Stages
<1> QED BY <1>1, <1>3, <1>4, GotoStep

LEMMA RevokeFamiliesStep ==
    ASSUME IInv, NEW w \in Workers, RevokeFamilies(w)
    PROVE  IInv'
<1> DEFINE stage == CASE tx[w].op = "reuse" -> "denylist"
                      [] tx[w].op = "end" -> "commit"
                      [] tx[w].op = "login" -> "user"
                      [] OTHER -> "sessions"
<1>1. /\ Sound(w) /\ Stage(w) = "families" /\ Goto(w, stage)
      /\ UNCHANGED <<rows, clock, holder>> /\ denied' \subseteq Tokens
  BY DEF IInv, TypeOK, RevokeFamilies
<1>2. \A l \in tx[w].targets \ revoked : holder[FamilyRow(l)] = w
  BY <1>1, GrantedRows DEF RevokeFamilies
<1>3. \/ tx[w].op = "reuse" /\ stage = "denylist"
      \/ tx[w].op = "end" /\ stage = "commit"
      \/ tx[w].op = "login" /\ stage = "user"
      \/ tx[w].op \in Revoker /\ stage = "sessions"
  BY <1>1 DEF Sound, WellFormed, AtOwnStage, Revoker
<1>4. stage \in Stages \ {"count", "surplus"}
  BY DEF Stages
<1> HIDE DEF stage
<1>5. ASSUME tx'[w].stage = stage, tx'[w].op = tx[w].op,
             tx'[w].user = tx[w].user, tx'[w].token = tx[w].token,
             tx'[w].targets = tx[w].targets, tx'[w].scope = tx[w].scope
      PROVE  AtOwnStage(w)' /\ LockDiscipline(w)' /\ Covers(w)' /\ DecisionHolds(w)'
  <2>1. AtOwnStage(w)' /\ DecisionHolds(w)'
    BY <1>3, <1>5 DEF AtOwnStage, DecisionHolds, Stage, Revoker
  <2>2. PastTokens(w) /\ (PastSessions(w)' => PastSessions(w))
        /\ (HoldsUser(w)' => HoldsUser(w)) /\ Stage(w)' \notin {"mint", "stamp"}
    BY <1>1, <1>3, <1>5 DEF PastTokens, PastSessions, HoldsUser, Stage, Revoker
  <2>3. LockDiscipline(w)'
    BY <1>1, <1>2, <1>5, <2>2 DEF Sound, LockDiscipline, Exists, rows
  <2>4. Covers(w)'
    BY <1>1, <1>5, <2>2
    DEF Sound, Covers, Revoker, Ender, ActiveTokensOf, Active, LineagesOf, rows, clock
  <2> QED BY <2>1, <2>3, <2>4
<1> QED BY <1>1, <1>4, <1>5, GotoStep

LEMMA EndSessionsStep ==
    ASSUME IInv, NEW w \in Workers, EndSessions(w)
    PROVE  IInv'
<1> DEFINE stage == IF tx[w].op = "change" THEN "denylist" ELSE "commit"
<1>1. /\ Sound(w) /\ Stage(w) = "sessions" /\ tx[w].op \in Revoker \ {"end"}
      /\ Goto(w, stage)
      /\ UNCHANGED <<rows, clock, holder>> /\ denied' \subseteq Tokens
  BY DEF IInv, TypeOK, EndSessions, Revoker
<1>2. \A l \in tx[w].targets \ ended : holder[SessionRow(l)] = w
  BY <1>1, GrantedRows DEF EndSessions, SessionsMatched, Sound, WellFormed, Ender, Revoker
<1>3. /\ stage \in {"denylist", "commit"}
      /\ stage = "denylist" => tx[w].op = "change"
  OBVIOUS
<1>4. stage \in Stages \ {"count", "surplus"}
  BY DEF Stages
<1> HIDE DEF stage
<1>5. ASSUME tx'[w].stage = stage, tx'[w].op = tx[w].op,
             tx'[w].user = tx[w].user, tx'[w].token = tx[w].token,
             tx'[w].targets = tx[w].targets, tx'[w].scope = tx[w].scope
      PROVE  AtOwnStage(w)' /\ LockDiscipline(w)' /\ Covers(w)' /\ DecisionHolds(w)'
  <2>1. AtOwnStage(w)' /\ DecisionHolds(w)'
    BY <1>1, <1>3, <1>5 DEF AtOwnStage, DecisionHolds, Stage, Revoker
  <2>2. PastTokens(w) /\ PastFamilies(w) /\ HoldsUser(w)
        /\ Stage(w)' \notin {"mint", "stamp"}
    BY <1>1, <1>3, <1>5 DEF PastTokens, PastFamilies, HoldsUser, Stage, Revoker
  <2>3. LockDiscipline(w)'
    BY <1>1, <1>2, <1>5, <2>2 DEF Sound, LockDiscipline, Exists, rows
  <2>4. Covers(w)'
    BY <1>1, <1>5, <2>2
    DEF Sound, Covers, Revoker, Ender, ActiveTokensOf, Active, LineagesOf, rows, clock
  <2> QED BY <2>1, <2>3, <2>4
<1> QED BY <1>1, <1>4, <1>5, GotoStep

LEMMA UpdateLastLoginStep ==
    ASSUME IInv, NEW w \in Workers, UpdateLastLogin(w)
    PROVE  IInv'
<1>1. /\ Sound(w) /\ Stage(w) = "user" /\ tx[w].op = "login" /\ Goto(w, "commit")
      /\ UNCHANGED <<rows, clock, holder>> /\ denied' \subseteq Tokens
  BY DEF IInv, TypeOK, UpdateLastLogin
<1>2. holder[UserRow(tx[w].user)] = w
  BY <1>1, GrantedRows DEF UpdateLastLogin
<1>3. ASSUME tx'[w].stage = "commit", tx'[w].op = tx[w].op,
             tx'[w].user = tx[w].user, tx'[w].token = tx[w].token,
             tx'[w].targets = tx[w].targets, tx'[w].scope = tx[w].scope
      PROVE  AtOwnStage(w)' /\ LockDiscipline(w)' /\ Covers(w)' /\ DecisionHolds(w)'
  <2>1. AtOwnStage(w)' /\ DecisionHolds(w)'
    BY <1>1, <1>3 DEF AtOwnStage, DecisionHolds, Stage, Revoker
  <2>2. PastTokens(w) /\ PastFamilies(w) /\ PastSessions(w)
        /\ Stage(w)' \notin {"mint", "stamp"}
    BY <1>1, <1>3 DEF PastTokens, PastFamilies, PastSessions, Stage, Revoker
  <2>3. LockDiscipline(w)'
    BY <1>1, <1>2, <1>3, <2>2 DEF Sound, LockDiscipline, Exists, rows
  <2>4. Covers(w)'
    BY <1>1, <1>3, <2>2
    DEF Sound, Covers, Revoker, Ender, ActiveTokensOf, Active, LineagesOf, rows, clock
  <2> QED BY <2>1, <2>3, <2>4
<1>4. "commit" \in Stages \ {"count", "surplus"}
  BY DEF Stages
<1> QED BY <1>1, <1>3, <1>4, GotoStep

LEMMA DenylistStep ==
    ASSUME IInv, NEW w \in Workers, Denylist(w)
    PROVE  IInv'
<1>1. /\ Sound(w) /\ tx[w] \in Request /\ Stage(w) = "denylist"
      /\ UNCHANGED <<rows, clock>> /\ denied' \subseteq Tokens
  BY DEF IInv, TypeOK, Denylist, Request
<1>2. CASE tx[w].op = "revoke_all"
  BY <1>1, <1>2, FinishStep DEF Denylist
<1>3. CASE tx[w].op # "revoke_all"
  <2>1. Goto(w, "commit") /\ UNCHANGED holder /\ tx[w].op \in {"reuse", "change"}
    BY <1>1, <1>3 DEF Denylist, Sound, WellFormed, AtOwnStage, Revoker
  <2>2. ASSUME tx'[w].stage = "commit", tx'[w].op = tx[w].op,
               tx'[w].user = tx[w].user, tx'[w].token = tx[w].token,
               tx'[w].targets = tx[w].targets, tx'[w].scope = tx[w].scope
        PROVE  AtOwnStage(w)' /\ LockDiscipline(w)' /\ Covers(w)' /\ DecisionHolds(w)'
    <3>1. AtOwnStage(w)' /\ DecisionHolds(w)'
      BY <2>1, <2>2 DEF AtOwnStage, DecisionHolds, Stage, Revoker
    <3>2. /\ PastTokens(w) /\ PastFamilies(w)
          /\ PastSessions(w)' => PastSessions(w)
          /\ HoldsUser(w)' => HoldsUser(w)
          /\ Stage(w)' \notin {"mint", "stamp"}
      BY <1>1, <2>1, <2>2
      DEF PastTokens, PastFamilies, PastSessions, HoldsUser, Stage, Revoker
    <3>3. LockDiscipline(w)'
      BY <1>1, <2>1, <2>2, <3>2 DEF Sound, LockDiscipline, Exists, rows
    <3>4. Covers(w)'
      BY <1>1, <2>2, <3>2
      DEF Sound, Covers, Revoker, Ender, ActiveTokensOf, Active, LineagesOf, rows, clock
    <3> QED BY <3>1, <3>3, <3>4
  <2>3. "commit" \in Stages \ {"count", "surplus"}
    BY DEF Stages
  <2> QED BY <1>1, <2>1, <2>2, <2>3, GotoStep
<1> QED BY <1>2, <1>3

\* The UPDATE of the sessions has its rows, the UPDATE of the tokens has its
\* snapshot: a request that ends sessions covers their tokens.
LEMMA CoveringStep ==
    ASSUME IInv, NEW w \in Workers, NEW q \in Request,
           UNCHANGED <<rows, clock, denied, holder>>,
           tx' = [tx EXCEPT ![w] = q],
           q.stage = "tokens", q.op \in Ender, q.user \in Users,
           q.scope = ActiveTokensOf(q.targets), q.targets \subseteq opened,
           q.op \in Revoker => /\ q.targets = LineagesOf(q.user)
                               /\ holder[UserRow(q.user)] = w,
           q.op \notin Revoker =>
              \A l \in q.targets \ ended : holder[SessionRow(l)] = w,
           q.op = "end" => \A k, l \in q.targets : k = l,
           \A l \in q.targets : Owner[l] = q.user
    PROVE  IInv'
<1>1. tx'[w] = q /\ denied' \subseteq Tokens
  BY DEF IInv, TypeOK
<1>2. \A t \in q.scope : status[t] # "unminted" /\ family[t] \in q.targets
  BY DEF ActiveTokensOf, Active
<1>3. WellFormed(w)'
  BY <1>1, <1>2 DEF WellFormed, AtOwnStage, Stage, Revoker, Ender, LineagesOf, rows
<1>4. LockDiscipline(w)'
  BY <1>1
  DEF LockDiscipline, PastTokens, PastFamilies, PastSessions, HoldsUser, Stage,
      Revoker, Ender, rows
<1>5. Covers(w)'
  BY <1>1 DEF Covers, ActiveTokensOf, Active, LineagesOf, rows, clock
<1>6. DecisionHolds(w)'
  BY <1>1 DEF DecisionHolds, Stage
<1> QED BY <1>1, <1>3, <1>4, <1>5, <1>6, StatementStep DEF Sound

LEMMA EndSessionStep ==
    ASSUME IInv, NEW w \in Workers, EndSession(w)
    PROVE  IInv'
<1>1. /\ Sound(w) /\ tx[w] \in Request /\ Stage(w) = "sessions" /\ tx[w].op = "end"
      /\ UNCHANGED <<rows, clock, denied>> /\ denied' \subseteq Tokens
  BY DEF IInv, TypeOK, EndSession
<1>2. CASE Finish(w)
  BY <1>1, <1>2, FinishStep
<1>3. CASE /\ SessionsMatched(w) # {}
           /\ tx' = [tx EXCEPT ![w].stage = "tokens",
                               ![w].scope = ActiveTokensOf(tx[w].targets)]
           /\ UNCHANGED holder
  <2> DEFINE q == [tx[w] EXCEPT !.stage = "tokens",
                                !.scope = ActiveTokensOf(tx[w].targets)]
  <2>1. /\ q \in Request /\ q.stage = "tokens" /\ q.op = "end" /\ q.user = tx[w].user
        /\ q.scope = ActiveTokensOf(q.targets) /\ q.targets = tx[w].targets
    BY <1>1 DEF Request, Stages, ActiveTokensOf
  <2>2. tx' = [tx EXCEPT ![w] = q]
    BY <1>3 DEF IInv, TypeOK
  <2>3. \A l \in tx[w].targets \ ended : l \in SessionsMatched(w)
    BY <1>1, <1>3 DEF SessionsMatched, Sound, WellFormed
  <2>4. \A l \in tx[w].targets \ ended : holder[SessionRow(l)] = w
    BY <1>1, <2>3, GrantedRows DEF EndSession
  <2>5. /\ tx[w].user \in Users /\ tx[w].targets \subseteq opened
        /\ \A k, l \in tx[w].targets : k = l
    BY <1>1 DEF Sound, WellFormed, Ender
  <2>6. UNCHANGED <<rows, clock, denied, holder>>
    BY <1>1, <1>3
  <2>7. q.op \in Ender /\ q.op \notin Revoker
    BY <2>1 DEF Ender, Revoker
  <2> HIDE DEF q
  <2>8. \A l \in q.targets \ ended : holder[SessionRow(l)] = w
    BY <2>1, <2>4
  <2>9. /\ q.user \in Users /\ q.targets \subseteq opened
        /\ \A k, l \in q.targets : k = l
        /\ \A l \in q.targets : Owner[l] = q.user
    BY <1>1, <1>3, <2>1, <2>5 DEF SessionsMatched
  <2> QED BY <2>1, <2>2, <2>6, <2>7, <2>8, <2>9, CoveringStep
<1> QED BY <1>2, <1>3 DEF EndSession

LEMMA RetireSurplusStep ==
    ASSUME IInv, NEW w \in Workers, RetireSurplus(w)
    PROVE  IInv'
<1> DEFINE q == [tx[w] EXCEPT !.stage = "tokens",
                              !.scope = ActiveTokensOf(tx[w].targets)]
<1>1. /\ Sound(w) /\ tx[w] \in Request /\ Stage(w) = "sessions" /\ tx[w].op = "login"
      /\ UNCHANGED <<rows, clock, denied, holder>>
  BY DEF IInv, TypeOK, RetireSurplus
<1>2. /\ q \in Request /\ q.stage = "tokens" /\ q.op = "login" /\ q.user = tx[w].user
      /\ q.scope = ActiveTokensOf(q.targets) /\ q.targets = tx[w].targets
  BY <1>1 DEF Request, Stages, ActiveTokensOf
<1>3. tx' = [tx EXCEPT ![w] = q]
  BY DEF RetireSurplus, IInv, TypeOK
<1>4. \A l \in tx[w].targets : holder[SessionRow(l)] = w
  BY <1>1, GrantedRows DEF RetireSurplus, SessionsMatched
<1>5. /\ tx[w].user \in Users /\ tx[w].targets \subseteq opened
      /\ \A l \in tx[w].targets : Owner[l] = tx[w].user
  BY <1>1 DEF Sound, WellFormed, Ender
<1> HIDE DEF q
<1> QED BY <1>1, <1>2, <1>3, <1>4, <1>5, CoveringStep DEF Ender, Revoker

LEMMA BumpVersionStep ==
    ASSUME IInv, NEW w \in Workers, BumpVersion(w)
    PROVE  IInv'
<1> DEFINE L == LineagesOf(tx[w].user)
           q == [tx[w] EXCEPT !.stage = "tokens", !.targets = L,
                              !.scope = ActiveTokensOf(L), !.live = ActiveTokensOf(L)]
<1>1. /\ Sound(w) /\ tx[w] \in Request /\ Stage(w) = "user" /\ tx[w].op \in Revoker
      /\ UNCHANGED <<rows, clock, denied, holder>>
  BY DEF IInv, TypeOK, BumpVersion, Revoker
<1>2. L \subseteq opened /\ L \subseteq Lineages /\ \A l \in L : Owner[l] = tx[w].user
  BY DEF LineagesOf, IInv, TypeOK
<1>3. /\ q \in Request /\ q.stage = "tokens" /\ q.op = tx[w].op /\ q.user = tx[w].user
      /\ q.scope = ActiveTokensOf(q.targets) /\ q.targets = L
  BY <1>1, <1>2 DEF Request, Stages, ActiveTokensOf
<1>4. tx' = [tx EXCEPT ![w] = q]
  BY DEF BumpVersion, IInv, TypeOK
<1>5. tx[w].user \in Users /\ holder[UserRow(tx[w].user)] = w
  BY <1>1, GrantedRows DEF Sound, WellFormed, Ender, BumpVersion
<1> HIDE DEF q
<1> QED BY <1>1, <1>2, <1>3, <1>4, <1>5, CoveringStep DEF Ender, Revoker

\* Counting the sessions and choosing the surplus lock nothing and write nothing:
\* what they say may be stale when the login commits.
LEMMA CapStep ==
    ASSUME IInv, NEW w \in Workers, CountSessions(w) \/ ListSurplus(w)
    PROVE  IInv'
<1>1. /\ Sound(w) /\ tx[w] \in Request /\ tx[w].op = "login"
      /\ tx[w].scope = {} /\ tx[w].targets = {} /\ tx[w].user \in Users
      /\ UNCHANGED <<rows, clock, holder>> /\ denied' \subseteq Tokens
  BY DEF IInv, TypeOK, CountSessions, ListSurplus, Sound, WellFormed, AtOwnStage,
         Ender, Revoker
<1>2. ASSUME NEW q \in Request, tx' = [tx EXCEPT ![w] = q],
             q.op = "login", q.user = tx[w].user, q.scope = {}, q.targets \subseteq opened,
             q.stage \in {"user", "surplus", "sessions"},
             q.stage \in {"user", "surplus"} => q.targets = {},
             \A l \in q.targets : Owner[l] = q.user
      PROVE  IInv'
  <2>1. tx'[w] = q
    BY <1>2 DEF IInv, TypeOK
  <2>2. WellFormed(w)' /\ DecisionHolds(w)'
    BY <1>1, <1>2, <2>1
    DEF WellFormed, AtOwnStage, DecisionHolds, Stage, Revoker, Ender, rows
  <2>3. LockDiscipline(w)' /\ Covers(w)'
    BY <1>1, <1>2, <2>1
    DEF LockDiscipline, Covers, PastTokens, PastFamilies, PastSessions, HoldsUser,
        Stage, Revoker, Ender, ActiveTokensOf
  <2> QED BY <1>1, <1>2, <2>2, <2>3, StatementStep DEF Sound
<1>3. CASE CountSessions(w)
  <2> DEFINE current == Cardinality(LiveSessions(tx[w].user))
  <2>1. current \in Nat
    <3>1. IsFiniteSet(Lineages)
      BY FS_Interval, ConstantsAssumption DEF Lineages
    <3>2. LiveSessions(tx[w].user) \subseteq Lineages
      BY DEF LiveSessions, IInv, TypeOK
    <3> QED BY <3>1, <3>2, FS_Subset, FS_CardinalityType
  <2>2. CASE current < Cap
    <3> DEFINE q == [tx[w] EXCEPT !.stage = "user"]
    <3>1. q \in Request /\ q.op = "login" /\ q.user = tx[w].user /\ q.scope = {}
          /\ q.targets = {} /\ q.stage = "user"
      BY <1>1 DEF Request, Stages
    <3>2. tx' = [tx EXCEPT ![w] = q]
      BY <1>3, <2>2 DEF CountSessions, IInv, TypeOK
    <3> HIDE DEF q
    <3> QED BY <1>2, <3>1, <3>2
  <2>3. CASE ~(current < Cap)
    <3> DEFINE q == [tx[w] EXCEPT !.stage = "surplus", !.room = (current - Cap) + 1]
    <3>1. (current - Cap) + 1 \in Nat
      BY <2>1, <2>3, ConstantsAssumption
    <3>2. q \in Request /\ q.op = "login" /\ q.user = tx[w].user /\ q.scope = {}
          /\ q.targets = {} /\ q.stage = "surplus"
      BY <1>1, <3>1 DEF Request, Stages
    <3>3. tx' = [tx EXCEPT ![w] = q]
      BY <1>3, <2>3 DEF CountSessions, IInv, TypeOK
    <3> HIDE DEF q
    <3> QED BY <1>2, <3>2, <3>3
  <2> QED BY <2>2, <2>3
<1>4. CASE ListSurplus(w)
  <2> DEFINE surplus == Oldest(LiveSessions(tx[w].user), tx[w].room)
  <2>1. /\ surplus \subseteq opened /\ surplus \subseteq Lineages
        /\ \A l \in surplus : Owner[l] = tx[w].user
    BY DEF Oldest, LiveSessions, IInv, TypeOK
  <2>2. CASE surplus = {}
    <3> DEFINE q == [tx[w] EXCEPT !.stage = "user"]
    <3>1. q \in Request /\ q.op = "login" /\ q.user = tx[w].user /\ q.scope = {}
          /\ q.targets = {} /\ q.stage = "user"
      BY <1>1 DEF Request, Stages
    <3>2. tx' = [tx EXCEPT ![w] = q]
      BY <1>4, <2>2 DEF ListSurplus, IInv, TypeOK
    <3> HIDE DEF q
    <3> QED BY <1>2, <3>1, <3>2
  <2>3. CASE surplus # {}
    <3> DEFINE q == [tx[w] EXCEPT !.stage = "sessions", !.targets = surplus]
    <3>1. q \in Request /\ q.op = "login" /\ q.user = tx[w].user /\ q.scope = {}
          /\ q.targets = surplus /\ q.stage = "sessions"
      BY <1>1, <2>1 DEF Request, Stages
    <3>2. tx' = [tx EXCEPT ![w] = q]
      BY <1>4, <2>3 DEF ListSurplus, IInv, TypeOK
    <3> HIDE DEF q
    <3> QED BY <1>2, <2>1, <3>1, <3>2
  <2> QED BY <2>2, <2>3
<1> QED BY <1>3, <1>4

LEMMA FailStep ==
    ASSUME IInv, NEW w \in Workers, Fail(w)
    PROVE  IInv'
  BY FinishStep DEF Fail, IInv, TypeOK

\* An expiry takes tokens out of the active ones, under everybody's feet.
LEMMA ExpireStep ==
    ASSUME IInv, NEW t \in Tokens, Expire(t)
    PROVE  IInv'
<1>1. /\ UNCHANGED <<opened, ended, revoked, status, family, successor, enabled, holder, tx>>
      /\ overdue' = overdue \union {t} /\ denied' = denied \ {t}
  BY DEF Expire, rows
<1>2. TypeOK' /\ RowsLinked' /\ OneLiveHead'
  BY <1>1 DEF IInv, TypeOK, RowsLinked, OneLiveHead, Exists
<1>3. EndedSessionIsDead'
  BY <1>1 DEF IInv, EndedSessionIsDead, ActiveTokensOf, Active
<1>4. \A v \in Workers : Respects(v)
  BY <1>1 DEF Respects, IInv, TypeOK
<1> QED BY <1>2, <1>3, <1>4, Undisturbed DEF IInv

\* Deactivating an account waits for its row, so no refresh of it is minting.
LEMMA SetEnabledStep ==
    ASSUME IInv, NEW u \in Users, SetEnabled(u)
    PROVE  IInv'
<1>1. /\ UNCHANGED <<opened, ended, revoked, status, family, successor, overdue,
                     denied, holder, tx>>
      /\ enabled' \subseteq Users /\ \A x \in Users \ {u} : x \in enabled => x \in enabled'
      /\ holder[UserRow(u)] = NoWorker
  BY DEF SetEnabled, rows, Free, IInv, TypeOK
<1>2. TypeOK' /\ RowsLinked' /\ OneLiveHead'
  BY <1>1 DEF IInv, TypeOK, RowsLinked, OneLiveHead, Exists
<1>3. EndedSessionIsDead'
  BY <1>1 DEF IInv, EndedSessionIsDead, ActiveTokensOf, Active
<1>4. \A v \in Workers : Respects(v)
  BY <1>1, ConstantsAssumption DEF Respects, IInv, TypeOK
<1> QED BY <1>2, <1>3, <1>4, Undisturbed DEF IInv

\* Pruning deletes rows nobody has locked.
LEMMA PruneStep ==
    ASSUME IInv, NEW t \in Tokens, Prune(t)
    PROVE  IInv'
<1>1. /\ UNCHANGED <<opened, ended, revoked, enabled, overdue, denied, holder, tx>>
      /\ status' = [status EXCEPT ![t] = "pruned"]
      /\ family' = [family EXCEPT ![t] = NoLineage]
      /\ Exists(t) /\ holder[TokenRow(t)] = NoWorker
  BY DEF Prune, Free, clock
<1>2. successor' \in [Tokens -> Tokens \union {NoToken}]
  BY DEF Prune, IInv, TypeOK
<1>3. TypeOK'
  BY <1>1, <1>2 DEF IInv, TypeOK, Status, NoLineage
<1>4. RowsLinked' /\ OneLiveHead'
  BY <1>1 DEF IInv, TypeOK, RowsLinked, OneLiveHead, Exists
<1>5. EndedSessionIsDead'
  BY <1>1, ConstantsAssumption
  DEF IInv, TypeOK, EndedSessionIsDead, ActiveTokensOf, Active, NoLineage, Lineages
<1>6. \A v \in Workers : Respects(v)
  BY <1>1, ConstantsAssumption DEF Respects, IInv, TypeOK, Exists
<1> QED BY <1>3, <1>4, <1>5, <1>6, Undisturbed DEF IInv

-----------------------------------------------------------------------------
(***************************************************************************)
(* The commits.                                                            *)
(***************************************************************************)

LEMMA StampExpiredStep ==
    ASSUME IInv, NEW w \in Workers, StampExpired(w)
    PROVE  IInv'
<1> DEFINE t == tx[w].token
<1>1. /\ UNCHANGED <<opened, ended, revoked, family, successor, enabled, overdue, denied>>
      /\ status' = [status EXCEPT ![t] = "expired"] /\ Finish(w)
      /\ t \in Tokens /\ status[t] = "active" /\ holder[TokenRow(t)] = w
  BY DEF StampExpired, clock, IInv, Sound, WellFormed, AtOwnStage, LockDiscipline
<1>2. tx' = [tx EXCEPT ![w] = Idle] /\ tx'[w] = Idle
  BY <1>1 DEF Finish, IInv, TypeOK
<1>3. /\ holder' \in [Rows -> Workers \union {NoWorker}]
      /\ \A v \in Workers \ {w}, r \in Rows : holder[r] = v => holder'[r] = v
  BY <1>1, ReleasedLocks DEF Finish, IInv
<1>4. TypeOK'
  BY <1>1, <1>2, <1>3, IdleIsRequest DEF IInv, TypeOK, Status
<1>5. RowsLinked' /\ OneLiveHead'
  BY <1>1 DEF IInv, TypeOK, RowsLinked, OneLiveHead, Exists
<1>6. EndedSessionIsDead'
  BY <1>1 DEF IInv, TypeOK, EndedSessionIsDead, ActiveTokensOf, Active
<1>7. \A v \in Workers \ {w} : Respects(v)
  BY <1>1, <1>2, <1>3 DEF Respects, IInv, TypeOK, Exists
<1> QED BY <1>2, <1>4, <1>5, <1>6, <1>7, Undisturbed, IdleIsSound DEF IInv

\* The redeemed token gives its place to a new one, in a lineage the request has
\* locked from its session down.
LEMMA CommitRedeemStep ==
    ASSUME IInv, NEW w \in Workers, CommitRedeem(w)
    PROVE  IInv'
<1> DEFINE t == tx[w].token
           l == family[t]
<1>1. PICK n \in Unminted :
         /\ status' = [status EXCEPT ![t] = "rotated", ![n] = "active"]
         /\ family' = [family EXCEPT ![n] = l]
         /\ successor' = [successor EXCEPT ![t] = n]
  BY DEF CommitRedeem
<1>2. /\ UNCHANGED <<opened, ended, revoked, enabled, overdue, denied>> /\ Finish(w)
      /\ Sound(w) /\ Stage(w) = "mint"
  BY DEF CommitRedeem, clock, IInv
<1>3. /\ t \in Tokens /\ status[t] = "active" /\ l \notin revoked \union ended
      /\ n \in Tokens /\ status[n] = "unminted" /\ n # t
  BY <1>1, <1>2 DEF Sound, WellFormed, AtOwnStage, DecisionHolds, Unminted
<1>4. l \in opened /\ l \in Lineages
  BY <1>3 DEF IInv, TypeOK, RowsLinked, Exists
<1>5. /\ holder[TokenRow(t)] = w /\ holder[SessionRow(l)] = w
      /\ holder[UserRow(Owner[l])] = w
  BY <1>2 DEF Sound, LockDiscipline, RedeemRows
<1>6. tx' = [tx EXCEPT ![w] = Idle] /\ tx'[w] = Idle
  BY <1>2 DEF Finish, IInv, TypeOK
<1>7. /\ holder' \in [Rows -> Workers \union {NoWorker}]
      /\ \A v \in Workers \ {w}, r \in Rows : holder[r] = v => holder'[r] = v
  BY <1>2, ReleasedLocks DEF Finish, IInv
<1>8. TypeOK'
  BY <1>1, <1>2, <1>3, <1>4, <1>6, <1>7, IdleIsRequest DEF IInv, TypeOK, Status
<1>9. \A s \in Tokens : /\ s = n => status'[s] = "active" /\ family'[s] = l
                        /\ s = t => status'[s] = "rotated" /\ family'[s] = l
                        /\ s \notin {n, t} => status'[s] = status[s] /\ family'[s] = family[s]
  BY <1>1, <1>3 DEF IInv, TypeOK
<1>10. RowsLinked'
  BY <1>2, <1>3, <1>4, <1>9 DEF IInv, RowsLinked, Exists
<1>11. OneLiveHead'
  BY <1>3, <1>9 DEF IInv, OneLiveHead
<1>12. EndedSessionIsDead'
  BY <1>2, <1>3, <1>9 DEF IInv, EndedSessionIsDead, ActiveTokensOf, Active
<1>13. \A v \in Workers \ {w} : Respects(v)
  BY <1>2, <1>3, <1>5, <1>6, <1>7, <1>9 DEF Respects, IInv, TypeOK, Exists
<1> QED BY <1>6, <1>8, <1>10, <1>11, <1>12, <1>13, Undisturbed, IdleIsSound DEF IInv

\* What a revoking transaction writes at its commit lies in rows it holds, and no
\* token of a session it ends is left active.
LEMMA CommitFacts ==
    ASSUME IInv, NEW w \in Workers, Stage(w) = "commit"
    PROVE  /\ RevokedStatus(w) \in [Tokens -> Status \union {"unminted", "pruned"}]
           /\ \A t \in Tokens : RevokedStatus(w)[t] # status[t] =>
                 /\ Exists(t) /\ holder[TokenRow(t)] = w
                 /\ RevokedStatus(w)[t] \in {"revoked", "compromised"}
           /\ tx[w].targets \subseteq opened
           /\ \A l \in tx[w].targets \ revoked : holder[FamilyRow(l)] = w
           /\ tx[w].op # "reuse" =>
                 /\ \A l \in tx[w].targets \ ended : holder[SessionRow(l)] = w
                 /\ \A t \in Tokens : family[t] \in tx[w].targets /\ Active(t) =>
                       RevokedStatus(w)[t] = "revoked"
<1>1. /\ Sound(w) /\ PastTokens(w) /\ PastFamilies(w)
      /\ tx[w].op # "reuse" => PastSessions(w) /\ tx[w].op \in Ender
  BY DEF IInv, PastTokens, PastFamilies, PastSessions, Sound, WellFormed, AtOwnStage,
         Ender, Revoker
<1>2. \A t \in Tokens : t \in tx[w].scope /\ Exists(t) => holder[TokenRow(t)] = w
  BY <1>1 DEF Sound, LockDiscipline
<1>3. \A t \in Tokens : RevokedStatus(w)[t] # status[t] =>
         /\ Exists(t) /\ t \in tx[w].scope
         /\ RevokedStatus(w)[t] \in {"revoked", "compromised"}
  BY DEF RevokedStatus, Exists
<1>4. RevokedStatus(w) \in [Tokens -> Status \union {"unminted", "pruned"}]
  BY DEF RevokedStatus, IInv, TypeOK, Status
<1>5. tx[w].op # "reuse" => \A t \in Tokens : family[t] \in tx[w].targets /\ Active(t) =>
                                RevokedStatus(w)[t] = "revoked"
  BY <1>1 DEF Sound, Covers, ActiveTokensOf, Active, RevokedStatus
<1> QED BY <1>1, <1>2, <1>3, <1>4, <1>5 DEF Sound, WellFormed, LockDiscipline

LEMMA CommitRevocationStep ==
    ASSUME IInv, NEW w \in Workers, CommitRevocation(w)
    PROVE  IInv'
<1>1. /\ UNCHANGED <<opened, family, successor, enabled, overdue, denied>>
      /\ status' = RevokedStatus(w)
      /\ revoked' = revoked \union tx[w].targets
      /\ ended' = EndedSessions(w)
      /\ Stage(w) = "commit" /\ tx[w].op \in {"end", "reuse", "revoke_all"}
      /\ holder' = Released(w) /\ Sound(w) /\ tx[w] \in Request
  BY DEF CommitRevocation, clock, Finish, IInv, TypeOK
<1> DEFINE q == IF tx[w].op = "revoke_all" THEN [tx[w] EXCEPT !.stage = "denylist"]
                ELSE Idle
<1>2. q \in Request /\ tx' = [tx EXCEPT ![w] = q] /\ tx'[w] = q
  BY <1>1, IdleIsRequest DEF CommitRevocation, Finish, Goto, IInv, TypeOK, Request, Stages
<1>3. /\ holder' \in [Rows -> Workers \union {NoWorker}]
      /\ \A v \in Workers \ {w}, r \in Rows : holder[r] = v => holder'[r] = v
  BY <1>1, ReleasedLocks DEF IInv
<1>4. /\ status' \in [Tokens -> Status \union {"unminted", "pruned"}]
      /\ \A t \in Tokens : status'[t] # status[t] =>
            /\ Exists(t) /\ holder[TokenRow(t)] = w
            /\ status'[t] \in {"revoked", "compromised"}
      /\ tx[w].targets \subseteq opened
      /\ \A l \in tx[w].targets \ revoked : holder[FamilyRow(l)] = w
      /\ tx[w].op # "reuse" =>
            /\ \A l \in tx[w].targets \ ended : holder[SessionRow(l)] = w
            /\ \A t \in Tokens : family[t] \in tx[w].targets /\ Active(t) =>
                  status'[t] = "revoked"
  BY <1>1, CommitFacts
<1>5. /\ ended \subseteq ended' /\ ended' \subseteq revoked'
      /\ \A l \in ended' \ ended : l \in tx[w].targets /\ tx[w].op # "reuse"
      /\ revoked' \subseteq opened
  BY <1>1, <1>4 DEF EndedSessions, IInv, TypeOK, EndedSessionIsDead
<1>6. TypeOK'
  BY <1>1, <1>2, <1>3, <1>4, <1>5 DEF IInv, TypeOK
<1>7. RowsLinked' /\ OneLiveHead'
  BY <1>1, <1>4 DEF IInv, TypeOK, RowsLinked, OneLiveHead, Exists
<1>8. EndedSessionIsDead'
  BY <1>1, <1>4, <1>5 DEF IInv, EndedSessionIsDead, ActiveTokensOf, Active
<1>9. \A v \in Workers \ {w} : Respects(v)
  BY <1>1, <1>2, <1>3, <1>4, <1>5 DEF Respects, IInv, TypeOK, Exists
<1>10. Sound(w)'
  <2>1. CASE tx[w].op # "revoke_all"
    BY <1>2, <2>1, IdleIsSound
  <2>2. CASE tx[w].op = "revoke_all"
    <3>1. /\ tx'[w].stage = "denylist" /\ tx'[w].op = "revoke_all"
          /\ tx'[w].user = tx[w].user
          /\ tx'[w].targets = tx[w].targets /\ tx'[w].scope = tx[w].scope
      BY <1>1, <1>2, <2>2 DEF Request
    <3>2. WellFormed(w)'
      <4>1. \A t \in tx[w].scope : /\ status[t] # "unminted" /\ t \in Tokens
                                   /\ Exists(t) => family[t] \in tx[w].targets
        BY <1>1 DEF Sound, WellFormed, Request
      <4>2. \A t \in tx[w].scope : /\ status'[t] # "unminted"
                                   /\ Exists(t)' => family'[t] \in tx[w].targets
        BY <1>1, <1>4, <4>1 DEF Exists
      <4>3. AtOwnStage(w)'
        BY <3>1 DEF AtOwnStage, Stage, Revoker
      <4>4. WellFormed(w) /\ opened' = opened
        BY <1>1 DEF Sound
      <4> QED BY <2>2, <3>1, <4>2, <4>3, <4>4 DEF WellFormed, Stage, Revoker, Ender
    <3>3. LockDiscipline(w)' /\ Covers(w)' /\ DecisionHolds(w)'
      BY <3>1 DEF LockDiscipline, Covers, DecisionHolds, PastTokens, PastFamilies,
                  PastSessions, HoldsUser, Stage, Revoker, Ender
    <3> QED BY <3>2, <3>3 DEF Sound
  <2> QED BY <2>1, <2>2
<1> QED BY <1>6, <1>7, <1>8, <1>9, <1>10, Undisturbed DEF IInv

\* The new session is nobody's target yet, and its account is locked against the
\* requests that close every session.
LEMMA CommitSessionStep ==
    ASSUME IInv, NEW w \in Workers, CommitSession(w)
    PROVE  IInv'
<1>1. PICK l \in Lineages, n \in Unminted :
         /\ IsNextLineage(l, tx[w].user)
         /\ opened' = opened \union {l}
         /\ status' = [RevokedStatus(w) EXCEPT ![n] = "active"]
         /\ family' = [family EXCEPT ![n] = l]
  BY DEF CommitSession
<1>2. /\ UNCHANGED <<successor, enabled, overdue, denied>>
      /\ revoked' = revoked \union tx[w].targets
      /\ ended' = EndedSessions(w)
      /\ Stage(w) = "commit" /\ tx[w].op \in {"login", "change"}
      /\ Finish(w) /\ Sound(w) /\ tx[w] \in Request
  BY DEF CommitSession, clock, IInv, TypeOK
<1>3. l \notin opened /\ Owner[l] = tx[w].user /\ n \in Tokens /\ status[n] = "unminted"
  BY <1>1 DEF IsNextLineage, Unopened, Unminted
<1>4. holder[UserRow(Owner[l])] = w
  BY <1>2, <1>3 DEF Sound, LockDiscipline, HoldsUser, PastTokens, Revoker
<1>5. tx' = [tx EXCEPT ![w] = Idle] /\ tx'[w] = Idle
  BY <1>2 DEF Finish, IInv, TypeOK
<1>6. /\ holder' \in [Rows -> Workers \union {NoWorker}]
      /\ \A v \in Workers \ {w}, r \in Rows : holder[r] = v => holder'[r] = v
  BY <1>2, ReleasedLocks DEF Finish, IInv
<1>7. /\ RevokedStatus(w) \in [Tokens -> Status \union {"unminted", "pruned"}]
      /\ \A t \in Tokens : RevokedStatus(w)[t] # status[t] =>
            /\ Exists(t) /\ holder[TokenRow(t)] = w
            /\ RevokedStatus(w)[t] \in {"revoked", "compromised"}
      /\ tx[w].targets \subseteq opened
      /\ \A k \in tx[w].targets \ revoked : holder[FamilyRow(k)] = w
      /\ \A k \in tx[w].targets \ ended : holder[SessionRow(k)] = w
      /\ \A t \in Tokens : family[t] \in tx[w].targets /\ Active(t) =>
            RevokedStatus(w)[t] = "revoked"
  BY <1>2, CommitFacts
<1>8. \A s \in Tokens :
         /\ s = n => status'[s] = "active" /\ family'[s] = l
         /\ s # n => status'[s] = RevokedStatus(w)[s] /\ family'[s] = family[s]
  BY <1>1, <1>3, <1>7 DEF IInv, TypeOK
<1>9. /\ ended' = ended \union tx[w].targets /\ ended' \subseteq revoked'
      /\ revoked' \subseteq opened
  BY <1>2, <1>7 DEF EndedSessions, IInv, TypeOK, EndedSessionIsDead
<1>10. TypeOK'
  BY <1>1, <1>2, <1>5, <1>6, <1>7, <1>9, IdleIsRequest DEF IInv, TypeOK, Status
<1>11. \A s \in Tokens : s # n /\ status'[s] = "active" => status[s] = "active"
  BY <1>7, <1>8
<1>12. RowsLinked'
  BY <1>1, <1>3, <1>7, <1>8 DEF IInv, RowsLinked, Exists
<1>13. \A s \in Tokens : status[s] = "active" => family[s] \in opened
  BY DEF IInv, RowsLinked, Exists
<1>14. OneLiveHead'
  BY <1>3, <1>8, <1>11, <1>13 DEF IInv, OneLiveHead
<1>15. EndedSessionIsDead'
  <2> SUFFICES ASSUME NEW k \in ended', NEW s \in Tokens,
                      family'[s] = k, status'[s] = "active", s \notin overdue
               PROVE  FALSE
    BY <1>2, <1>9 DEF EndedSessionIsDead, ActiveTokensOf, Active
  <2>1. s # n /\ status[s] = "active" /\ family[s] = k
    BY <1>3, <1>8, <1>9, <1>11 DEF IInv, TypeOK
  <2>2. CASE k \in ended
    BY <2>1, <2>2 DEF IInv, EndedSessionIsDead, ActiveTokensOf, Active
  <2>3. CASE k \in tx[w].targets
    BY <1>7, <1>8, <2>1, <2>3 DEF Active
  <2> QED BY <1>9, <2>2, <2>3
<1>16. \A v \in Workers \ {w} : Respects(v)
  BY <1>1, <1>2, <1>3, <1>4, <1>5, <1>6, <1>7, <1>8, <1>9, <1>11
  DEF Respects, IInv, TypeOK, Exists
<1> QED BY <1>5, <1>10, <1>12, <1>14, <1>15, <1>16, Undisturbed, IdleIsSound DEF IInv

-----------------------------------------------------------------------------

LEMMA InitIInv == Init => IInv
<1> SUFFICES ASSUME Init PROVE IInv
  OBVIOUS
<1>1. tx \in [Workers -> Request] /\ \A w \in Workers : tx[w] = Idle
  BY IdleIsRequest DEF Init
<1>2. TypeOK
  BY <1>1 DEF Init, TypeOK
<1>3. RowsLinked /\ OneLiveHead /\ EndedSessionIsDead
  BY DEF Init, RowsLinked, OneLiveHead, EndedSessionIsDead, Exists
<1>4. ASSUME NEW w \in Workers PROVE Sound(w)
  <2>1. /\ tx[w].op = "none" /\ tx[w].stage = "idle"
        /\ tx[w].targets = {} /\ tx[w].scope = {}
    BY <1>1 DEF Idle, NewRequest
  <2> QED
    BY <2>1 DEF Sound, WellFormed, AtOwnStage, LockDiscipline, Covers, DecisionHolds,
                PastTokens, PastFamilies, PastSessions, HoldsUser, Stage, Revoker, Ender
<1> QED BY <1>2, <1>3, <1>4 DEF IInv

\* Every step of every request and of the environment preserves the invariant.
LEMMA NextIInv == IInv /\ [Next]_vars => IInv'
<1> SUFFICES ASSUME IInv, [Next]_vars PROVE IInv'
  OBVIOUS
<1>1. ASSUME NEW w \in Workers, Work(w) PROVE IInv'
  <2>1. CASE Lock(w)
    BY <2>1, AcquireStep DEF Lock
  <2>2. CASE Redeem(w) \/ StampExpired(w) \/ CommitRedeem(w)
    BY <2>2, RedeemStep, StampExpiredStep, CommitRedeemStep
  <2>3. CASE HandleReuse(w) \/ RevokeFamily(w) \/ EndSession(w)
    BY <2>3, TeardownStep, EndSessionStep
  <2>4. CASE CountSessions(w) \/ ListSurplus(w) \/ RetireSurplus(w) \/ UpdateLastLogin(w)
    BY <2>4, CapStep, RetireSurplusStep, UpdateLastLoginStep
  <2>5. CASE BumpVersion(w) \/ EndSessions(w) \/ RevokeTokens(w) \/ RevokeFamilies(w)
    BY <2>5, BumpVersionStep, EndSessionsStep, RevokeTokensStep, RevokeFamiliesStep
  <2>6. CASE Denylist(w) \/ CommitRevocation(w) \/ CommitSession(w)
    BY <2>6, DenylistStep, CommitRevocationStep, CommitSessionStep
  <2> QED BY <1>1, <2>1, <2>2, <2>3, <2>4, <2>5, <2>6 DEF Work
<1>2. ASSUME NEW w \in Workers, Begin(w) \/ Fail(w) PROVE IInv'
  BY <1>2, BeginStep, FailStep
<1>3. CASE Environment
  BY <1>3, ExpireStep, PruneStep, SetEnabledStep DEF Environment
<1>4. CASE UNCHANGED vars
  BY <1>4 DEF vars, IInv, TypeOK, RowsLinked, OneLiveHead, EndedSessionIsDead, Exists,
     ActiveTokensOf, Active, Sound, WellFormed, AtOwnStage, LockDiscipline, Covers,
     DecisionHolds, PastTokens, PastFamilies, PastSessions, HoldsUser, Stage, LineagesOf,
     RedeemRows
<1> QED BY <1>1, <1>2, <1>3, <1>4 DEF Next

\* The invariant the safety theorems rest on.
THEOREM Invariance == Spec => []IInv
  BY InitIInv, NextIInv, PTL DEF Spec

-----------------------------------------------------------------------------
(***************************************************************************)
(* What follows from it.                                                   *)
(***************************************************************************)

\* Rows, requests and locks keep the shapes the models of the schema give them.
THEOREM TypeCorrect == Spec => []TypeOK
  BY Invariance, PTL DEF IInv

\* However many refreshes of a login run at once, it never has two tokens that can
\* be exchanged (the row lock of _redeem).
THEOREM SingleHead == Spec => []OneLiveHead
  BY Invariance, PTL DEF IInv

\* When _redeem writes, what it decided on under its locks still holds.
THEOREM DecisionsHold == Spec => []DecisionStillHolds
<1>1. IInv => DecisionStillHolds
  BY DEF IInv, Sound, DecisionStillHolds
<1> QED BY <1>1, Invariance, PTL

\* A session that was logged out, retired or closed with its account has no
\* active token left (end, enforce_cap, revoke_all_for_user).
THEOREM EndedSessionsAreDead == Spec => []EndedSessionIsDead
  BY Invariance, PTL DEF IInv

\* The steps that write token, family or session rows.
LEMMA WritingSteps ==
    ASSUME [Next]_vars
    PROVE  \/ UNCHANGED rows
           \/ \E w \in Workers : \/ StampExpired(w) \/ CommitRedeem(w)
                                 \/ CommitRevocation(w) \/ CommitSession(w)
           \/ \E t \in Tokens : Prune(t)
<1>1. ASSUME NEW w \in Workers, Begin(w) PROVE UNCHANGED rows
  BY <1>1 DEF Begin, BeginRefresh, BeginLogin, BeginRevokeAll, BeginChange, BeginEnd
<1>2. ASSUME NEW w \in Workers, Fail(w) PROVE UNCHANGED rows
  BY <1>2 DEF Fail
<1>3. ASSUME NEW w \in Workers, Work(w)
      PROVE  \/ UNCHANGED rows
             \/ StampExpired(w) \/ CommitRedeem(w)
             \/ CommitRevocation(w) \/ CommitSession(w)
  <2>1. CASE Lock(w)
    BY <2>1 DEF Lock, Acquire
  <2>2. CASE Redeem(w)
    BY <2>2 DEF Redeem
  <2>3. CASE HandleReuse(w) \/ RevokeFamily(w) \/ EndSession(w)
    BY <2>3 DEF HandleReuse, RevokeFamily, EndSession
  <2>4. CASE CountSessions(w) \/ ListSurplus(w) \/ RetireSurplus(w) \/ UpdateLastLogin(w)
    BY <2>4 DEF CountSessions, ListSurplus, RetireSurplus, UpdateLastLogin
  <2>5. CASE BumpVersion(w) \/ EndSessions(w) \/ RevokeTokens(w) \/ RevokeFamilies(w)
    BY <2>5 DEF BumpVersion, EndSessions, RevokeTokens, RevokeFamilies
  <2>6. CASE Denylist(w)
    BY <2>6 DEF Denylist
  <2> QED BY <1>3, <2>1, <2>2, <2>3, <2>4, <2>5, <2>6 DEF Work
<1>4. CASE Environment
  BY <1>4 DEF Environment, Expire, SetEnabled
<1>5. CASE UNCHANGED vars
  BY <1>5 DEF vars, rows
<1> QED BY <1>1, <1>2, <1>3, <1>4, <1>5 DEF Next

\* How a redemption and a commit change the token rows.
LEMMA RedeemedRows ==
    ASSUME IInv, NEW w \in Workers, CommitRedeem(w)
    PROVE  LET t == tx[w].token
           IN  /\ t \in Tokens /\ status[t] = "active" /\ family[t] \in opened
               /\ family[t] \notin revoked
               /\ \E n \in Unminted :
                     /\ n # t
                     /\ status' = [status EXCEPT ![t] = "rotated", ![n] = "active"]
                     /\ family' = [family EXCEPT ![n] = family[t]]
                     /\ successor' = [successor EXCEPT ![t] = n]
  BY DEF CommitRedeem, IInv, Sound, WellFormed, AtOwnStage, DecisionHolds, Unminted,
         RowsLinked, Exists

\* No refresh mints in a family whose revocation has committed, whatever was read
\* before it did (_redeem re-reads the family under its lock).
THEOREM RevocationStopsMinting == Spec => NoMintAfterRevocation
<1> DEFINE NoMint == \A t \in Tokens : status[t] = "unminted" /\ status'[t] # "unminted"
                                          => family'[t] \notin revoked
<1>1. ASSUME IInv, [Next]_vars PROVE NoMint
  <2>1. CASE UNCHANGED rows
    BY <2>1 DEF rows
  <2>2. ASSUME NEW w \in Workers, StampExpired(w) PROVE NoMint
    BY <1>1, <2>2 DEF StampExpired, IInv, TypeOK, Sound, LockDiscipline, WellFormed, AtOwnStage
  <2>3. ASSUME NEW w \in Workers, CommitRedeem(w) PROVE NoMint
    BY <1>1, <2>3, RedeemedRows DEF IInv, TypeOK
  <2>4. ASSUME NEW w \in Workers, CommitRevocation(w) PROVE NoMint
    BY <1>1, <2>4, CommitFacts DEF CommitRevocation, Exists
  <2>5. ASSUME NEW w \in Workers, CommitSession(w) PROVE NoMint
    <3>1. PICK l \in Lineages, n \in Unminted :
             /\ l \notin opened
             /\ status' = [RevokedStatus(w) EXCEPT ![n] = "active"]
             /\ family' = [family EXCEPT ![n] = l]
      BY <2>5 DEF CommitSession, IsNextLineage, Unopened
    <3>2. \A t \in Tokens : status[t] = "unminted" => RevokedStatus(w)[t] = "unminted"
      BY <1>1, <2>5, CommitFacts DEF CommitSession, Exists
    <3>3. RevokedStatus(w) \in [Tokens -> Status \union {"unminted", "pruned"}]
      BY <1>1, <2>5, CommitFacts DEF CommitSession
    <3> QED BY <1>1, <3>1, <3>2, <3>3 DEF IInv, TypeOK
  <2>6. ASSUME NEW t \in Tokens, Prune(t) PROVE NoMint
    BY <1>1, <2>6 DEF Prune, Exists, IInv, TypeOK
  <2> QED BY <1>1, <2>1, <2>2, <2>3, <2>4, <2>5, <2>6, WritingSteps
<1>2. Spec => [][NoMint]_vars
  BY <1>1, Invariance, PTL DEF Spec
<1> QED BY <1>2, PTL DEF NoMintAfterRevocation

\* A token that left ACTIVE never comes back and never gets a second successor;
\* revocation and logout are final.
THEOREM SpentForever == Spec => SpentStaysSpent
<1> DEFINE Kept(t) == status[t] \notin {"unminted", "active"} =>
                         /\ status'[t] # "active"
                         /\ status'[t] = "rotated" => status[t] = "rotated"
                         /\ successor'[t] \in {successor[t], NoToken}
           Stays == /\ revoked \subseteq revoked' /\ ended \subseteq ended'
                    /\ \A t \in Tokens : Kept(t)
<1>1. ASSUME IInv, [Next]_vars PROVE Stays
  <2>1. CASE UNCHANGED rows
    BY <2>1 DEF rows
  <2>2. ASSUME NEW w \in Workers, StampExpired(w) PROVE Stays
    BY <1>1, <2>2 DEF StampExpired, IInv, TypeOK
  <2>3. ASSUME NEW w \in Workers, CommitRedeem(w) PROVE Stays
    <3>1. UNCHANGED <<revoked, ended>>
      BY <2>3 DEF CommitRedeem
    <3>2. \A t \in Tokens : Kept(t)
      BY <1>1, <2>3, RedeemedRows DEF IInv, TypeOK, Unminted
    <3> QED BY <3>1, <3>2
  <2>4. ASSUME NEW w \in Workers, CommitRevocation(w) PROVE Stays
    <3>1. /\ UNCHANGED successor /\ status' = RevokedStatus(w)
          /\ revoked \subseteq revoked' /\ ended \subseteq ended'
      BY <2>4 DEF CommitRevocation, EndedSessions
    <3> QED BY <1>1, <2>4, <3>1, CommitFacts DEF CommitRevocation
  <2>5. ASSUME NEW w \in Workers, CommitSession(w) PROVE Stays
    <3>1. PICK n \in Unminted : status' = [RevokedStatus(w) EXCEPT ![n] = "active"]
      BY <2>5 DEF CommitSession
    <3>2. /\ UNCHANGED successor
          /\ revoked \subseteq revoked' /\ ended \subseteq ended'
      BY <2>5 DEF CommitSession, EndedSessions
    <3>3. \A t \in Tokens : t # n => status'[t] = RevokedStatus(w)[t]
      BY <1>1, <2>5, <3>1, CommitFacts DEF CommitSession
    <3>4. status[n] = "unminted"
      BY DEF Unminted
    <3> QED BY <1>1, <2>5, <3>2, <3>3, <3>4, CommitFacts DEF CommitSession
  <2>6. ASSUME NEW t \in Tokens, Prune(t) PROVE Stays
    BY <1>1, <2>6 DEF Prune, Exists, IInv, TypeOK
  <2> QED BY <1>1, <2>1, <2>2, <2>3, <2>4, <2>5, <2>6, WritingSteps
<1>2. Spec => [][Stays]_vars
  BY <1>1, Invariance, PTL DEF Spec
<1> QED BY <1>2, PTL DEF SpentStaysSpent

\* A request about to commit moves by its own commit or by failing.
LEMMA CommittingSteps ==
    ASSUME TypeOK, [Next]_vars, NEW w \in Workers, Stage(w) = "commit", tx'[w] # tx[w]
    PROVE  CommitRevocation(w) \/ CommitSession(w) \/ Fail(w)
<1>1. ASSUME NEW v \in Workers, Begin(v) PROVE v # w /\ tx'[w] = tx[w]
  BY <1>1 DEF Begin, BeginRefresh, BeginLogin, BeginRevokeAll, BeginChange, BeginEnd,
              Busy, TypeOK
<1>2. ASSUME NEW v \in Workers, Fail(v) PROVE v = w
  BY <1>2 DEF Fail, Finish, TypeOK
<1>3. ASSUME NEW v \in Workers, Work(v)
      PROVE  CommitRevocation(w) \/ CommitSession(w)
  <2>1. CASE Lock(v)
    BY <2>1 DEF Lock, Acquire
  <2>2. CASE Redeem(v)
    BY <2>2 DEF Redeem, Finish, Goto, TypeOK
  <2>3. CASE StampExpired(v) \/ CommitRedeem(v)
    BY <2>3 DEF StampExpired, CommitRedeem, Finish, TypeOK
  <2>4. CASE HandleReuse(v) \/ RevokeFamily(v) \/ EndSession(v)
    BY <2>4 DEF HandleReuse, RevokeFamily, EndSession, Finish, TypeOK
  <2>5. CASE CountSessions(v) \/ ListSurplus(v) \/ RetireSurplus(v) \/ UpdateLastLogin(v)
    BY <2>5 DEF CountSessions, ListSurplus, RetireSurplus, UpdateLastLogin, Goto, TypeOK
  <2>6. CASE BumpVersion(v) \/ EndSessions(v) \/ RevokeTokens(v) \/ RevokeFamilies(v)
    BY <2>6 DEF BumpVersion, EndSessions, RevokeTokens, RevokeFamilies, Goto, TypeOK
  <2>7. CASE Denylist(v)
    BY <2>7 DEF Denylist, Finish, Goto, TypeOK
  <2>8. CASE CommitRevocation(v)
    BY <2>8 DEF CommitRevocation, Finish, Goto, TypeOK
  <2>9. CASE CommitSession(v)
    BY <2>9 DEF CommitSession, Finish, TypeOK
  <2> QED BY <1>3, <2>1, <2>2, <2>3, <2>4, <2>5, <2>6, <2>7, <2>8, <2>9 DEF Work
<1>4. CASE Environment
  BY <1>4 DEF Environment, Expire, Prune, SetEnabled
<1>5. CASE UNCHANGED vars
  BY <1>5 DEF vars
<1> QED BY <1>1, <1>2, <1>3, <1>4, <1>5 DEF Next

\* Logout everywhere and password change close every session the account has at
\* their commit, and revoke every active token of them (revoke_all_for_user).
THEOREM NobodySlipsPast == Spec => LogoutAllIsTotal
<1> DEFINE Total == \A w \in Workers : Revoking(w) =>
                       /\ LineagesOf(tx[w].user) \subseteq revoked' \intersect ended'
                       /\ \A t \in ActiveTokensOf(LineagesOf(tx[w].user)) :
                             status'[t] = "revoked"
<1>1. ASSUME IInv, [Next]_vars PROVE Total
  <2> SUFFICES ASSUME NEW w \in Workers, Revoking(w)
               PROVE  /\ LineagesOf(tx[w].user) \subseteq revoked' \intersect ended'
                      /\ \A t \in ActiveTokensOf(LineagesOf(tx[w].user)) :
                            status'[t] = "revoked"
    OBVIOUS
  <2>1. Stage(w) = "commit" /\ tx'[w] # tx[w] /\ tx[w].op \in Revoker
    BY DEF Revoking, Stage, Revoker
  <2>2. /\ LineagesOf(tx[w].user) \subseteq tx[w].targets
        /\ \A l \in tx[w].targets : Owner[l] = tx[w].user
    BY <1>1, <2>1 DEF IInv, Sound, WellFormed, Covers, PastTokens, Ender
  <2>3. \A t \in ActiveTokensOf(LineagesOf(tx[w].user)) :
           t \in Tokens /\ status[t] = "active" /\ RevokedStatus(w)[t] = "revoked"
    BY <1>1, <2>1, <2>2, CommitFacts DEF ActiveTokensOf, Active, Revoker
  <2>4. CASE CommitRevocation(w)
    BY <2>1, <2>2, <2>3, <2>4 DEF CommitRevocation, EndedSessions, Revoker
  <2>5. CASE CommitSession(w)
    <3>1. PICK n \in Unminted : status' = [RevokedStatus(w) EXCEPT ![n] = "active"]
      BY <2>5 DEF CommitSession
    <3>2. \A t \in Tokens : t # n => status'[t] = RevokedStatus(w)[t]
      BY <1>1, <2>5, <3>1, CommitFacts DEF CommitSession
    <3>3. status[n] = "unminted"
      BY DEF Unminted
    <3> QED BY <2>1, <2>2, <2>3, <2>5, <3>2, <3>3 DEF CommitSession, EndedSessions, Revoker
  <2>6. ~Fail(w)
    <3>1. Fail(w) => tx'[w] = Idle /\ opened' = opened
      BY <1>1 DEF Fail, Finish, rows, IInv, TypeOK
    <3> QED BY <3>1 DEF Revoking, Idle, NewRequest
  <2> QED BY <1>1, <2>1, <2>4, <2>5, <2>6, CommittingSteps DEF IInv
<1>2. Spec => [][Total]_vars
  BY <1>1, Invariance, PTL DEF Spec
<1> QED BY <1>2, PTL DEF LogoutAllIsTotal

\* Whatever id a logout is given, the cap retires or a password change closes: a session
\* ends by a request of the account that owns it (DeviceSessionService.end).
THEOREM OwnersEndTheirOwn == Spec => OnlyOwnersEnd
<1> DEFINE Owned == \A l \in ended' \ ended :
                       \E w \in Workers : tx'[w] # tx[w] /\ tx[w].user = Owner[l]
<1>1. ASSUME IInv, [Next]_vars PROVE Owned
  <2>1. CASE \E w \in Workers : CommitRevocation(w) \/ CommitSession(w)
    <3>1. PICK w \in Workers : CommitRevocation(w) \/ CommitSession(w)
      BY <2>1
    <3>2. Stage(w) = "commit" /\ Sound(w)
      BY <1>1, <3>1 DEF CommitRevocation, CommitSession, IInv
    <3>3. tx'[w] # tx[w]
      <4>1. tx'[w].stage \in {"idle", "denylist"}
        BY <1>1, <3>1
        DEF CommitRevocation, CommitSession, Finish, Goto, Idle, NewRequest, IInv, TypeOK, Request
      <4> QED BY <3>2, <4>1 DEF Stage
    <3>4. \A l \in ended' \ ended : l \in tx[w].targets /\ tx[w].op # "reuse"
      BY <3>1 DEF CommitRevocation, CommitSession, EndedSessions
    <3>5. tx[w].op \in Ender \union {"reuse"}
      BY <3>1 DEF CommitRevocation, CommitSession, Ender, Revoker
    <3>6. \A l \in ended' \ ended : Owner[l] = tx[w].user
      BY <3>2, <3>4, <3>5 DEF Sound, WellFormed
    <3> QED BY <3>3, <3>6
  <2>2. CASE ended' = ended
    BY <2>2
  <2>3. ended' = ended \/ \E w \in Workers : CommitRevocation(w) \/ CommitSession(w)
    BY <1>1, WritingSteps DEF StampExpired, CommitRedeem, Prune, rows
  <2> QED BY <2>1, <2>2, <2>3
<1>2. Spec => [][Owned]_vars
  BY <1>1, Invariance, PTL DEF Spec
<1> QED BY <1>2, PTL DEF OnlyOwnersEnd

-----------------------------------------------------------------------------
(***************************************************************************)
(* The alarm of a replay.                                                  *)
(***************************************************************************)

\* A row that was minted keeps its family for as long as it is there.
LEMMA RowsKept ==
    ASSUME IInv, [Next]_vars
    PROVE  /\ revoked \subseteq revoked'
           /\ \A t \in Tokens : status[t] # "unminted" =>
                 /\ status'[t] # "unminted"
                 /\ Exists(t)' => Exists(t) /\ family'[t] = family[t]
<1> DEFINE Kept == /\ revoked \subseteq revoked'
                   /\ \A t \in Tokens : status[t] # "unminted" =>
                         /\ status'[t] # "unminted"
                         /\ Exists(t)' => Exists(t) /\ family'[t] = family[t]
<1>1. CASE UNCHANGED rows
  BY <1>1 DEF rows, Exists
<1>2. ASSUME NEW w \in Workers, StampExpired(w) PROVE Kept
  BY <1>2 DEF StampExpired, IInv, TypeOK, Exists, Sound, LockDiscipline
<1>3. ASSUME NEW w \in Workers, CommitRedeem(w) PROVE Kept
  <2>1. revoked \subseteq revoked'
    BY <1>3 DEF CommitRedeem
  <2> QED BY <1>3, <2>1, RedeemedRows DEF IInv, TypeOK, Unminted, Exists
<1>4. ASSUME NEW w \in Workers, CommitRevocation(w) PROVE Kept
  BY <1>4, CommitFacts DEF CommitRevocation, Exists
<1>5. ASSUME NEW w \in Workers, CommitSession(w) PROVE Kept
  <2>1. PICK l \in Lineages, n \in Unminted :
           /\ status' = [RevokedStatus(w) EXCEPT ![n] = "active"]
           /\ family' = [family EXCEPT ![n] = l]
    BY <1>5 DEF CommitSession
  <2>2. revoked \subseteq revoked' /\ status[n] = "unminted"
    BY <1>5 DEF CommitSession, Unminted
  <2>3. \A t \in Tokens : t # n =>
           status'[t] = RevokedStatus(w)[t] /\ family'[t] = family[t]
    BY <1>5, <2>1, CommitFacts DEF CommitSession, IInv, TypeOK
  <2> QED BY <1>5, <2>2, <2>3, CommitFacts DEF CommitSession, Exists
<1>6. ASSUME NEW t \in Tokens, Prune(t) PROVE Kept
  BY <1>6 DEF Prune, Exists, IInv, TypeOK
<1> QED BY <1>1, <1>2, <1>3, <1>4, <1>5, <1>6, WritingSteps

\* A request picks what it will denylist in one statement and keeps to it.
LEMMA PickingSteps ==
    ASSUME TypeOK, [Next]_vars, NEW w \in Workers, AtOwnStage(w), Gathers(w)
    PROVE  \/ HandleReuse(w) \/ BumpVersion(w) \/ CommitRevocation(w)
           \/ tx'[w].live = {} /\ tx'[w].op # "revoke_all"
           \/ tx'[w].live = {} /\ tx'[w].stage # "denylist"
           \/ /\ tx'[w].op = tx[w].op /\ tx'[w].live = tx[w].live
              /\ tx'[w].targets = tx[w].targets
              /\ tx'[w].stage = "user" => tx[w].stage = "user" \/ tx[w].op = "login"
              /\ tx'[w].stage = "denylist" /\ tx[w].op = "revoke_all" =>
                    tx[w].stage = "denylist"
<1> DEFINE Keeps == /\ tx'[w].op = tx[w].op /\ tx'[w].live = tx[w].live
                    /\ tx'[w].targets = tx[w].targets
                    /\ tx'[w].stage = "user" => tx[w].stage = "user" \/ tx[w].op = "login"
                    /\ tx'[w].stage = "denylist" /\ tx[w].op = "revoke_all" =>
                          tx[w].stage = "denylist"
           Fresh == tx'[w].live = {} /\ (tx'[w].op # "revoke_all" \/ tx'[w].stage # "denylist")
           Goal == HandleReuse(w) \/ BumpVersion(w) \/ CommitRevocation(w) \/ Fresh \/ Keeps
<1>1. CASE tx'[w] = tx[w]
  BY <1>1
<1>2. ASSUME NEW v \in Workers, Begin(v) PROVE Goal
  <2>1. CASE v = w
    BY <1>2, <2>1 DEF Begin, BeginRefresh, BeginLogin, BeginRevokeAll, BeginChange, BeginEnd,
                      NewRequest, TypeOK
  <2>2. CASE v # w
    BY <1>1, <1>2, <2>2 DEF Begin, BeginRefresh, BeginLogin, BeginRevokeAll, BeginChange,
                            BeginEnd, TypeOK
  <2> QED BY <2>1, <2>2
<1>3. ASSUME NEW v \in Workers, Finish(v) PROVE Goal
  BY <1>1, <1>3 DEF Finish, Idle, NewRequest, TypeOK
<1>4. ASSUME NEW v \in Workers, Work(v), v # w PROVE tx'[w] = tx[w]
  <2>1. CASE Lock(v)
    BY <2>1 DEF Lock, Acquire
  <2>2. CASE Redeem(v) \/ StampExpired(v) \/ CommitRedeem(v)
    BY <1>4, <2>2 DEF Redeem, StampExpired, CommitRedeem, Finish, Goto, TypeOK
  <2>3. CASE HandleReuse(v) \/ RevokeFamily(v) \/ EndSession(v)
    BY <1>4, <2>3 DEF HandleReuse, RevokeFamily, EndSession, Finish, TypeOK
  <2>4. CASE CountSessions(v) \/ ListSurplus(v) \/ RetireSurplus(v) \/ UpdateLastLogin(v)
    BY <1>4, <2>4 DEF CountSessions, ListSurplus, RetireSurplus, UpdateLastLogin, Goto, TypeOK
  <2>5. CASE BumpVersion(v) \/ EndSessions(v) \/ RevokeTokens(v) \/ RevokeFamilies(v)
    BY <1>4, <2>5 DEF BumpVersion, EndSessions, RevokeTokens, RevokeFamilies, Goto, TypeOK
  <2>6. CASE Denylist(v) \/ CommitRevocation(v) \/ CommitSession(v)
    BY <1>4, <2>6 DEF Denylist, CommitRevocation, CommitSession, Finish, Goto, TypeOK
  <2> QED BY <1>4, <2>1, <2>2, <2>3, <2>4, <2>5, <2>6 DEF Work
<1>5. CASE Work(w)
  <2>0. tx[w] \in Request
    BY DEF TypeOK
  <2>1. CASE Lock(w)
    BY <1>1, <2>1 DEF Lock, Acquire
  <2>2. CASE Redeem(w)
    <3>1. CASE UNCHANGED tx \/ Finish(w)
      BY <1>1, <1>3, <3>1
    <3>2. CASE \E s \in {"stamp", "mint"} : Goto(w, s)
      BY <2>0, <3>2 DEF Goto, TypeOK, Request
    <3>3. CASE \E r : r.live = {} /\ r.op = "reuse" /\ tx' = [tx EXCEPT ![w] = r]
      BY <3>3 DEF TypeOK
    <3> QED
      <4>1. \A t, T : NewRequest("reuse", "detected", NoUser, t, T).live = {}
                      /\ NewRequest("reuse", "detected", NoUser, t, T).op = "reuse"
        BY DEF NewRequest
      <4> QED BY <2>2, <3>1, <3>2, <3>3, <4>1 DEF Redeem
  <2>3. CASE StampExpired(w) \/ CommitRedeem(w) \/ CommitSession(w)
    BY <1>3, <2>3 DEF StampExpired, CommitRedeem, CommitSession
  <2>4. CASE HandleReuse(w) \/ BumpVersion(w) \/ CommitRevocation(w)
    BY <2>4
  <2>5. CASE RevokeFamily(w)
    BY <2>0, <2>5 DEF RevokeFamily, TypeOK, Request
  <2>6. CASE EndSession(w)
    BY <1>3, <2>0, <2>6 DEF EndSession, TypeOK, Request
  <2>7. CASE CountSessions(w) \/ ListSurplus(w)
    <3>1. tx[w].op = "login" /\ tx[w].live = {}
      BY <2>7 DEF CountSessions, ListSurplus, AtOwnStage, Gathers, Revoker
    <3>2. tx'[w].op = tx[w].op /\ tx'[w].live = tx[w].live
      BY <2>0, <2>7 DEF CountSessions, ListSurplus, TypeOK, Request
    <3> QED BY <3>1, <3>2
  <2>8. CASE RetireSurplus(w) \/ UpdateLastLogin(w)
    BY <2>0, <2>8 DEF RetireSurplus, UpdateLastLogin, Goto, TypeOK, Request
  <2>9. CASE EndSessions(w)
    BY <2>0, <2>9 DEF EndSessions, Goto, TypeOK, Request
  <2>10. CASE RevokeTokens(w)
    BY <2>0, <2>10 DEF RevokeTokens, Goto, TypeOK, Request
  <2>11. CASE RevokeFamilies(w)
    BY <2>0, <2>11 DEF RevokeFamilies, Goto, TypeOK, Request
  <2>12. CASE Denylist(w)
    BY <1>3, <2>0, <2>12 DEF Denylist, Goto, TypeOK, Request
  <2> QED BY <1>5, <2>1, <2>2, <2>3, <2>4, <2>5, <2>6, <2>7, <2>8, <2>9, <2>10, <2>11,
             <2>12 DEF Work
<1>6. CASE Environment
  BY <1>1, <1>6 DEF Environment, Expire, Prune, SetEnabled
<1>7. CASE UNCHANGED vars
  BY <1>1, <1>7 DEF vars
<1>8. Goal
  BY <1>1, <1>2, <1>3, <1>4, <1>5, <1>6, <1>7 DEF Next, Fail
<1> QED BY <1>8

LEMMA InitGathered == Init => Gathered
  BY DEF Init, Gathered, Gathers, Idle, NewRequest, Revoker, Stage

\* What a password change has picked is not redeemed: a redemption holds the user row too.
LEMMA PickedUnredeemed ==
    ASSUME IInv, Gathered, [Next]_vars, NEW w \in Workers, tx[w].op = "change",
           NEW t \in tx[w].live, t \in Tokens
    PROVE  status'[t] # "rotated"
<1>1. Sound(w) /\ Gathers(w) /\ status[t] \notin {"rotated", "unminted"}
  BY DEF IInv, Gathered, Gathers
<1>2. CASE UNCHANGED rows
  BY <1>1, <1>2 DEF rows
<1>3. ASSUME NEW v \in Workers, StampExpired(v) PROVE status'[t] # "rotated"
  BY <1>1, <1>3 DEF StampExpired, IInv, TypeOK
<1>4. ASSUME NEW v \in Workers, CommitRedeem(v) PROVE status'[t] # "rotated"
  <2>1. CASE t # tx[v].token
    BY <1>1, <1>4, <2>1, RedeemedRows DEF IInv, TypeOK, Unminted
  <2>2. ASSUME t = tx[v].token PROVE FALSE
    <3>1. /\ Stage(v) = "mint" /\ Sound(v)
          /\ status[t] = "active" /\ Exists(t)
      BY <1>4, <2>2, RedeemedRows DEF CommitRedeem, IInv, Exists
    <3>2. holder[UserRow(Owner[family[t]])] = v /\ tx[v].op = "refresh"
      BY <2>2, <3>1 DEF Sound, LockDiscipline, RedeemRows, WellFormed, AtOwnStage
    <3>3. HoldsUser(w) /\ tx[w].op \in Ender
      BY <1>1 DEF Sound, WellFormed, AtOwnStage, Gathers, HoldsUser, PastTokens, Ender, Revoker
    <3>4. Owner[family[t]] = tx[w].user
      BY <1>1, <3>1, <3>3 DEF Sound, WellFormed, Gathers
    <3> QED BY <1>1, <3>2, <3>3, <3>4 DEF Sound, LockDiscipline
  <2> QED BY <2>1, <2>2
<1>5. ASSUME NEW v \in Workers, CommitRevocation(v) PROVE status'[t] # "rotated"
  BY <1>1, <1>5, CommitFacts DEF CommitRevocation
<1>6. ASSUME NEW v \in Workers, CommitSession(v) PROVE status'[t] # "rotated"
  <2>1. PICK n \in Unminted : status' = [RevokedStatus(v) EXCEPT ![n] = "active"]
    BY <1>6 DEF CommitSession
  <2>2. t # n
    BY <1>1 DEF Unminted
  <2> QED BY <1>1, <1>6, <2>1, <2>2, CommitFacts DEF CommitSession
<1>7. ASSUME NEW s \in Tokens, Prune(s) PROVE status'[t] # "rotated"
  BY <1>1, <1>7 DEF Prune, IInv, TypeOK
<1> QED BY <1>2, <1>3, <1>4, <1>5, <1>6, <1>7, WritingSteps

LEMMA NextGathered == IInv /\ Gathered /\ [Next]_vars => Gathered'
<1> SUFFICES ASSUME IInv, Gathered, [Next]_vars, NEW w \in Workers PROVE Gathers(w)'
  BY DEF Gathered
<1>1. /\ Gathers(w) /\ AtOwnStage(w) /\ Sound(w) /\ TypeOK /\ tx[w] \in Request
      /\ tx[w].live \subseteq Tokens /\ tx[w].targets \subseteq opened
  BY DEF Gathered, IInv, Sound, WellFormed, TypeOK, Request
<1>2. CASE HandleReuse(w)
  <2>1. tx'[w] = [tx[w] EXCEPT !.stage = "teardown",
                    !.live = {t \in Tokens : /\ family[t] \in tx[w].targets
                                             /\ status[t] \notin {"expired", "revoked"}}]
    BY <1>1, <1>2 DEF HandleReuse, TypeOK
  <2>2. tx[w].op = "reuse" /\ UNCHANGED <<status, family>>
    BY <1>1, <1>2 DEF HandleReuse, AtOwnStage, Revoker, rows
  <2>3. \A t \in Tokens : family[t] \in tx[w].targets => status[t] # "unminted"
    BY <1>1, ConstantsAssumption DEF IInv, RowsLinked, Exists, TypeOK, Lineages, NoLineage
  <2> QED BY <1>1, <2>1, <2>2, <2>3 DEF Gathers, Request, Stage, Revoker, Exists
<1>3. CASE BumpVersion(w)
  <2>1. /\ tx'[w].live = ActiveTokensOf(LineagesOf(tx[w].user))
        /\ tx'[w].targets = LineagesOf(tx[w].user)
        /\ tx'[w].op = tx[w].op /\ tx'[w].stage = "tokens"
        /\ tx[w].op \in Revoker /\ UNCHANGED <<status, family>>
    BY <1>1, <1>3 DEF BumpVersion, TypeOK, Request, Revoker, rows
  <2>2. \A t \in ActiveTokensOf(LineagesOf(tx[w].user)) :
           status[t] = "active" /\ family[t] \in LineagesOf(tx[w].user)
    BY DEF ActiveTokensOf, Active
  <2> QED BY <2>1, <2>2 DEF Gathers, Stage, Revoker
<1>4. CASE CommitRevocation(w)
  <2>1. CASE tx[w].op = "revoke_all"
    <3>1. /\ tx'[w].live = tx[w].live /\ tx'[w].targets = tx[w].targets
          /\ tx'[w].op = tx[w].op /\ tx'[w].stage = "denylist"
          /\ tx[w].targets \subseteq revoked'
      BY <1>1, <1>4, <2>1 DEF CommitRevocation, Goto, TypeOK, Request
    <3> QED BY <1>1, <2>1, <3>1, RowsKept DEF Gathers, Stage
  <2>2. CASE tx[w].op # "revoke_all"
    <3>1. tx'[w] = Idle
      BY <1>1, <1>4, <2>2 DEF CommitRevocation, Finish, TypeOK
    <3> QED BY <3>1 DEF Gathers, Idle, NewRequest, Stage
  <2> QED BY <2>1, <2>2
<1>5. CASE tx'[w].live = {} /\ (tx'[w].op # "revoke_all" \/ tx'[w].stage # "denylist")
  BY <1>5 DEF Gathers, Stage
<1>6. CASE /\ tx'[w].op = tx[w].op /\ tx'[w].live = tx[w].live
           /\ tx'[w].targets = tx[w].targets
           /\ tx'[w].stage = "user" => tx[w].stage = "user" \/ tx[w].op = "login"
           /\ tx'[w].stage = "denylist" /\ tx[w].op = "revoke_all" =>
                 tx[w].stage = "denylist"
  <2>1. \A t \in tx'[w].live : /\ status'[t] # "unminted"
                               /\ Exists(t)' => family'[t] \in tx'[w].targets
    BY <1>1, <1>6, RowsKept DEF Gathers
  <2>2. tx'[w].live # {} => tx'[w].op \in Revoker \union {"reuse"} /\ tx'[w].stage # "user"
    BY <1>1, <1>6 DEF Gathers, Stage, Revoker
  <2>3. tx'[w].op = "change" => \A t \in tx'[w].live : status'[t] # "rotated"
    BY <1>1, <1>6, PickedUnredeemed
  <2>4. tx'[w].op = "revoke_all" /\ tx'[w].stage = "denylist" =>
           tx'[w].targets \subseteq revoked'
    BY <1>1, <1>6, RowsKept DEF Gathers, Stage
  <2> QED BY <2>1, <2>2, <2>3, <2>4 DEF Gathers, Stage
<1> QED BY <1>1, <1>2, <1>3, <1>4, <1>5, <1>6, PickingSteps

\* What a request will denylist: see Gathers.
THEOREM Gathering == Spec => []Gathered
  BY InitGathered, NextGathered, Invariance, PTL DEF Spec

\* Only the denylist step of a request denies a refresh token.
LEMMA DenyingSteps ==
    ASSUME TypeOK, [Next]_vars, NEW t \in denied', t \notin denied
    PROVE  \E w \in Workers : Denylist(w) /\ t \in tx[w].live
<1>1. ASSUME NEW w \in Workers, Begin(w) \/ Fail(w) PROVE UNCHANGED denied
  BY <1>1 DEF Begin, BeginRefresh, BeginLogin, BeginRevokeAll, BeginChange, BeginEnd, Fail
<1>2. ASSUME NEW w \in Workers, Work(w), ~Denylist(w) PROVE UNCHANGED denied
  BY <1>2 DEF Work, Lock, Acquire, Redeem, StampExpired, CommitRedeem, HandleReuse,
     RevokeFamily, EndSession, CountSessions, ListSurplus, RetireSurplus, UpdateLastLogin,
     BumpVersion, EndSessions, RevokeTokens, RevokeFamilies, CommitRevocation, CommitSession
<1>3. CASE Environment
  BY <1>3 DEF Environment, Expire, Prune, SetEnabled
<1>4. CASE UNCHANGED vars
  BY <1>4 DEF vars
<1>5. \E w \in Workers : Denylist(w)
  BY <1>1, <1>2, <1>3, <1>4 DEF Next
<1> QED BY <1>5 DEF Denylist

\* A worker that dies between detecting a reuse and committing the teardown loses
\* nothing but what it had written to the denylist (RefreshService._handle_reuse): until
\* then a replay is detected again.
THEOREM AlarmsSurvive == Spec => AlarmSurvives
<1> DEFINE Survives(t) ==
       Alarming(t) => \/ Alarming(t)'
                      \/ family[t] \in revoked'
                      \/ status'[t] = "pruned"
                      \/ \E w \in Workers : /\ tx[w].op = "reuse" /\ Stage(w) = "denylist"
                                            /\ family[t] \in tx[w].targets
<1>1. ASSUME IInv, Gathered, [Next]_vars, NEW t \in Tokens, Alarming(t) PROVE Survives(t)
  <2>1. status[t] = "rotated" /\ t \notin denied /\ Exists(t)
    BY <1>1 DEF Alarming, Exists
  <2>2. ASSUME status'[t] # "rotated" PROVE family[t] \in revoked' \/ status'[t] = "pruned"
    <3>1. ASSUME NEW w \in Workers, CommitRevocation(w) PROVE family[t] \in revoked'
      <4>1. status'[t] = RevokedStatus(w)[t] /\ revoked' = revoked \union tx[w].targets
        BY <3>1 DEF CommitRevocation
      <4>2. t \in tx[w].scope
        BY <2>1, <2>2, <4>1 DEF RevokedStatus
      <4> QED BY <1>1, <2>1, <4>1, <4>2 DEF IInv, Sound, WellFormed
    <3>2. ASSUME NEW w \in Workers, CommitSession(w) PROVE family[t] \in revoked'
      <4>1. PICK n \in Unminted : status' = [RevokedStatus(w) EXCEPT ![n] = "active"]
        BY <3>2 DEF CommitSession
      <4>2. t # n /\ revoked' = revoked \union tx[w].targets
        BY <2>1, <3>2 DEF CommitSession, Unminted
      <4>3. t \in tx[w].scope
        BY <2>1, <2>2, <4>1, <4>2 DEF RevokedStatus
      <4> QED BY <1>1, <2>1, <4>2, <4>3 DEF IInv, Sound, WellFormed
    <3>3. ASSUME NEW w \in Workers, StampExpired(w) PROVE FALSE
      BY <1>1, <2>1, <2>2, <3>3 DEF StampExpired, IInv, TypeOK, Sound, LockDiscipline
    <3>4. ASSUME NEW w \in Workers, CommitRedeem(w) PROVE FALSE
      BY <1>1, <2>1, <2>2, <3>4, RedeemedRows DEF IInv, TypeOK, Unminted
    <3>5. ASSUME NEW s \in Tokens, Prune(s) PROVE status'[t] = "pruned"
      BY <1>1, <2>1, <2>2, <3>5 DEF Prune, IInv, TypeOK
    <3> QED BY <1>1, <2>1, <2>2, <3>1, <3>2, <3>3, <3>4, <3>5, WritingSteps DEF rows
  <2>3. ASSUME t \in denied' PROVE Survives(t)
    <3>1. PICK w \in Workers : Denylist(w) /\ t \in tx[w].live
      BY <1>1, <2>1, <2>3, DenyingSteps DEF IInv
    <3>2. /\ Gathers(w) /\ Stage(w) = "denylist" /\ UNCHANGED revoked
      BY <1>1, <3>1 DEF Gathered, Denylist, rows
    <3>3. family[t] \in tx[w].targets /\ tx[w].op \in {"reuse", "revoke_all"}
      BY <2>1, <3>1, <3>2 DEF Gathers, Revoker
    <3> QED BY <3>2, <3>3 DEF Gathers
  <2> QED BY <2>1, <2>2, <2>3 DEF Alarming
<1>2. ASSUME IInv, Gathered, [Next]_vars PROVE \A t \in Tokens : Survives(t)
  BY <1>1, <1>2
<1>3. Spec => [][\A t \in Tokens : Survives(t)]_vars
  BY <1>2, Invariance, Gathering, PTL DEF Spec
<1> QED BY <1>3, PTL DEF AlarmSurvives

(***************************************************************************)
(* The session cap: how far over it the logins of an account can get.       *)
(***************************************************************************)
\* A finite set of numbers has a least one.
LEMMA LeastOf ==
    ASSUME NEW T, T \subseteq Nat, IsFiniteSet(T), T # {}
    PROVE  \E m \in T : \A x \in T : m <= x
<1> DEFINE Below(m) == {x \in T : x < m}
           F == {Below(m) : m \in T}
<1>1. F \subseteq FiniteSubsetsOf(T)
  <2>1. \A m \in T : Below(m) \in SUBSET T /\ IsFiniteSet(Below(m))
    BY FS_Subset
  <2> HIDE DEF Below
  <2> QED BY <2>1 DEF FiniteSubsetsOf
<1>2. \E s \in F : \A r \in F : <<r, s>> \notin StrictSubsetOrdering(T)
  <2>1. F # {}
    OBVIOUS
  <2> HIDE DEF F
  <2> QED BY <1>1, <2>1, FS_StrictSubsetOrderingWellFounded, WFMin
<1>3. PICK m \in T : \A x \in T : <<Below(x), Below(m)>> \notin StrictSubsetOrdering(T)
  <2> HIDE DEF Below
  <2> QED BY <1>2
<1>4. ASSUME NEW x \in T, x < m PROVE FALSE
  <2>1. Below(x) \subseteq Below(m)
    <3>1. \A y \in T : y < x => y < m
      <4>1. x \in Nat /\ m \in Nat /\ \A y \in T : y \in Nat
        OBVIOUS
      <4> QED BY <1>4, <4>1
    <3> QED BY <3>1
  <2>2. x \in Below(m) /\ x \notin Below(x)
    BY <1>4
  <2>3. Below(x) \in SUBSET T /\ Below(m) \in SUBSET T
    OBVIOUS
  <2> HIDE DEF Below
  <2> QED BY <1>3, <2>1, <2>2, <2>3 DEF StrictSubsetOrdering
<1> QED BY <1>4

\* enforce_cap takes as many of the sessions as it asked for.
LEMMA OldestLeaves ==
    ASSUME NEW S, S \subseteq Nat, IsFiniteSet(S), NEW k \in Nat, k <= Cardinality(S)
    PROVE  Cardinality(S \ Oldest(S, k)) <= Cardinality(S) - k
<1> DEFINE O == Oldest(S, k)
           Rank(l) == {m \in S : m < l}
<1>1. O \subseteq S /\ IsFiniteSet(O) /\ Cardinality(O) \in Nat /\ Cardinality(S) \in Nat
  BY FS_Subset, FS_CardinalityType DEF Oldest
<1>2. IsFiniteSet(S \ O) /\ Cardinality(S \ O) = Cardinality(S) - Cardinality(O)
  <2>1. S \cap O = O
    BY <1>1
  <2> HIDE DEF O
  <2> QED BY <2>1, FS_Difference
<1>3. ASSUME Cardinality(O) < k PROVE FALSE
  <2>1. S \ O # {}
    BY <1>1, <1>3
  <2>2. PICK m \in S \ O : \A x \in S \ O : m <= x
    <3> HIDE DEF O
    <3> QED BY <1>2, <2>1, LeastOf
  <2>3. Rank(m) \subseteq O
    <3>1. m \in Nat /\ \A y \in S : y \in Nat
      BY <2>2
    <3>2. \A y \in S : y < m => y \in O
      <4> HIDE DEF O
      <4> QED BY <2>2, <3>1
    <3> QED BY <3>2
  <2>4. Cardinality(Rank(m)) <= Cardinality(O)
    <3> HIDE DEF O, Rank
    <3> QED BY <1>1, <2>3, FS_Subset
  <2>5. Cardinality(Rank(m)) \in Nat
    BY FS_Subset, FS_CardinalityType
  <2>6. m \in O
    <3>1. Cardinality(Rank(m)) < k
      BY <1>1, <1>3, <2>4, <2>5
    <3> QED BY <2>2, <3>1 DEF Oldest
  <2> QED BY <2>2, <2>6
<1> QED BY <1>1, <1>2, <1>3

\* What is among the oldest stays so while sessions end and later ones are opened.
LEMMA OldestStay ==
    ASSUME NEW S, NEW T, NEW k \in Nat, IsFiniteSet(S),
           \A l \in S \cap T : \A m \in T : m < l => m \in S
    PROVE  Oldest(S, k) \cap T \subseteq Oldest(T, k)
<1> SUFFICES ASSUME NEW l \in Oldest(S, k) \cap T PROVE l \in Oldest(T, k)
  OBVIOUS
<1> DEFINE Before(X) == {m \in X : m < l}
<1>1. l \in S \cap T /\ Cardinality(Before(S)) < k
  BY DEF Oldest
<1>2. Before(T) \subseteq Before(S)
  BY <1>1
<1>3. IsFiniteSet(Before(S))
  BY FS_Subset
<1>4. Cardinality(Before(T)) <= Cardinality(Before(S)) /\ IsFiniteSet(Before(T))
  <2> HIDE DEF Before
  <2> QED BY <1>2, <1>3, FS_Subset
<1>5. Cardinality(Before(T)) \in Nat /\ Cardinality(Before(S)) \in Nat
  BY <1>3, <1>4, FS_CardinalityType
<1> QED BY <1>1, <1>4, <1>5 DEF Oldest

\* Sets of lineages and of workers are finite.
LEMMA Counting ==
    /\ \A L : L \subseteq Lineages => IsFiniteSet(L) /\ Cardinality(L) \in Nat
    /\ \A W : W \subseteq Workers => /\ IsFiniteSet(W) /\ Cardinality(W) \in Nat
                                     /\ Cardinality(W) <= Cardinality(Workers)
    /\ \A W : W \subseteq Workers /\ W # Workers => Cardinality(W) < Cardinality(Workers)
    /\ Lineages \subseteq Nat /\ Cap \in Nat /\ Cap >= 1
<1>1. IsFiniteSet(Lineages) /\ IsFiniteSet(Workers) /\ Lineages \subseteq Nat
  BY ConstantsAssumption, FS_Interval DEF Lineages
<1>2. Cardinality(Workers) \in Nat
  BY <1>1, FS_CardinalityType
<1>3. \A L : L \subseteq Lineages => IsFiniteSet(L) /\ Cardinality(L) \in Nat
  BY <1>1, FS_Subset, FS_CardinalityType
<1>4. \A W : W \subseteq Workers => /\ IsFiniteSet(W) /\ Cardinality(W) \in Nat
                                    /\ Cardinality(W) <= Cardinality(Workers)
                                    /\ Cardinality(W) = Cardinality(Workers) => W = Workers
  BY <1>1, FS_Subset, FS_CardinalityType
<1>5. Cap \in Nat /\ Cap >= 1
  BY ConstantsAssumption
<1> QED BY <1>1, <1>2, <1>3, <1>4, <1>5

\* Steps after which no login of u reaches further: sessions only end, nobody new has
\* counted, and a login still retires what it would have.
LEMMA NoFurther ==
    ASSUME TypeOK, NEW u \in Users, WithinReach(u),
           LiveSessions(u)' \subseteq LiveSessions(u), Counted(u)' \subseteq Counted(u),
           \A w \in Counted(u)' : LiveSessions(u)' \cap Retiring(w) \subseteq Retiring(w)'
    PROVE  WithinReach(u)'
<1> SUFFICES ASSUME NEW S \in SUBSET Counted(u)'
             PROVE  Cardinality(Left(u, S)') + Cardinality(S) < Cap + Cardinality(Workers)
  BY DEF WithinReach
<1>1. S \subseteq Counted(u) /\ S \subseteq Workers
  BY DEF Counted
<1>2. Left(u, S)' \subseteq Left(u, S)
  BY DEF Left
<1>3. Left(u, S) \subseteq Lineages
  BY DEF Left, LiveSessions, TypeOK
<1>4. IsFiniteSet(Left(u, S)) /\ Cardinality(Left(u, S)) \in Nat
      /\ Cardinality(Left(u, S)') \in Nat
  BY <1>2, <1>3, Counting
<1>5. Cardinality(Left(u, S)') <= Cardinality(Left(u, S))
  BY <1>2, <1>4, FS_Subset
<1>6. Cardinality(S) \in Nat /\ Cardinality(Workers) \in Nat /\ Cap \in Nat
  BY <1>1, Counting
<1> QED BY <1>1, <1>4, <1>5, <1>6 DEF WithinReach

\* How a step moves a login that is past its count.
LEMMA LoginSteps ==
    ASSUME TypeOK, [Next]_vars, NEW w \in Workers, AtOwnStage(w),
           tx'[w].op = "login", tx'[w].stage # "count"
    PROVE  \/ CountSessions(w) \/ ListSurplus(w) \/ tx'[w] = tx[w]
           \/ /\ tx[w].op = "login" /\ tx'[w].user = tx[w].user
              /\ tx'[w].targets = tx[w].targets
              /\ tx[w].stage \notin {"count", "surplus"}
              /\ tx'[w].stage \notin {"count", "surplus"}
<1> DEFINE Keeps == /\ tx[w].op = "login" /\ tx'[w].user = tx[w].user
                    /\ tx'[w].targets = tx[w].targets
                    /\ tx[w].stage \notin {"count", "surplus"}
                    /\ tx'[w].stage \notin {"count", "surplus"}
           Goal == CountSessions(w) \/ ListSurplus(w) \/ tx'[w] = tx[w] \/ Keeps
<1>1. tx[w] \in Request
  BY DEF TypeOK
<1>2. ASSUME NEW v \in Workers, Begin(v) PROVE tx'[w] = tx[w]
  BY <1>2 DEF Begin, BeginRefresh, BeginLogin, BeginRevokeAll, BeginChange, BeginEnd,
              NewRequest, TypeOK
<1>3. ASSUME NEW v \in Workers, Finish(v) PROVE tx'[w] = tx[w]
  BY <1>3 DEF Finish, Idle, NewRequest, TypeOK
<1>4. ASSUME NEW v \in Workers, Work(v), v # w PROVE tx'[w] = tx[w]
  <2>1. CASE Lock(v)
    BY <2>1 DEF Lock, Acquire
  <2>2. CASE Redeem(v) \/ StampExpired(v) \/ CommitRedeem(v)
    BY <1>4, <2>2 DEF Redeem, StampExpired, CommitRedeem, Finish, Goto, TypeOK
  <2>3. CASE HandleReuse(v) \/ RevokeFamily(v) \/ EndSession(v)
    BY <1>4, <2>3 DEF HandleReuse, RevokeFamily, EndSession, Finish, TypeOK
  <2>4. CASE CountSessions(v) \/ ListSurplus(v) \/ RetireSurplus(v) \/ UpdateLastLogin(v)
    BY <1>4, <2>4 DEF CountSessions, ListSurplus, RetireSurplus, UpdateLastLogin, Goto, TypeOK
  <2>5. CASE BumpVersion(v) \/ EndSessions(v) \/ RevokeTokens(v) \/ RevokeFamilies(v)
    BY <1>4, <2>5 DEF BumpVersion, EndSessions, RevokeTokens, RevokeFamilies, Goto, TypeOK
  <2>6. CASE Denylist(v) \/ CommitRevocation(v) \/ CommitSession(v)
    BY <1>4, <2>6 DEF Denylist, CommitRevocation, CommitSession, Finish, Goto, TypeOK
  <2> QED BY <1>4, <2>1, <2>2, <2>3, <2>4, <2>5, <2>6 DEF Work
<1>5. CASE Work(w)
  <2>1. CASE Lock(w)
    BY <2>1 DEF Lock, Acquire
  <2>2. CASE Redeem(w)
    BY <1>1, <2>2 DEF Redeem, Finish, Goto, Idle, NewRequest, AtOwnStage, TypeOK, Request, Stage
  <2>3. CASE StampExpired(w) \/ CommitRedeem(w) \/ CommitSession(w)
    BY <1>3, <2>3 DEF StampExpired, CommitRedeem, CommitSession
  <2>4. CASE HandleReuse(w) \/ RevokeFamily(w)
    BY <1>1, <2>4 DEF HandleReuse, RevokeFamily, AtOwnStage, TypeOK, Request, Stage
  <2>5. CASE EndSession(w) \/ BumpVersion(w) \/ EndSessions(w)
    BY <1>1, <1>3, <2>5 DEF EndSession, BumpVersion, EndSessions, Goto, TypeOK, Request
  <2>6. CASE CountSessions(w) \/ ListSurplus(w)
    BY <2>6
  <2>7. CASE RetireSurplus(w) \/ UpdateLastLogin(w)
    BY <1>1, <2>7 DEF RetireSurplus, UpdateLastLogin, Goto, TypeOK, Request, Stage
  <2>8. CASE RevokeTokens(w) \/ RevokeFamilies(w)
    BY <1>1, <2>8 DEF RevokeTokens, RevokeFamilies, Goto, TypeOK, Request, Stage
  <2>9. CASE Denylist(w)
    BY <1>1, <1>3, <2>9 DEF Denylist, Goto, AtOwnStage, TypeOK, Request, Stage
  <2>10. CASE CommitRevocation(w)
    BY <1>1, <1>3, <2>10 DEF CommitRevocation, Goto, TypeOK, Request
  <2> QED BY <1>5, <2>1, <2>2, <2>3, <2>4, <2>5, <2>6, <2>7, <2>8, <2>9, <2>10 DEF Work
<1>6. CASE Environment
  BY <1>6 DEF Environment, Expire, Prune, SetEnabled
<1>7. CASE UNCHANGED vars
  BY <1>7 DEF vars
<1>8. Goal
  BY <1>2, <1>3, <1>4, <1>5, <1>6, <1>7 DEF Next, Fail
<1> QED BY <1>8

\* Sessions are opened by CommitSession alone, and end for good.
LEMMA SessionSteps ==
    ASSUME [Next]_vars, \A v \in Workers : ~CommitSession(v)
    PROVE  opened' = opened /\ ended \subseteq ended'
  BY WritingSteps
  DEF rows, StampExpired, CommitRedeem, CommitRevocation, EndedSessions, Prune

\* A step that neither opens a session of u nor counts them.
LEMMA OtherSteps ==
    ASSUME IInv, [Next]_vars, NEW u \in Users, WithinReach(u),
           \A w \in Workers : CountSessions(w) => tx[w].user # u,
           LiveSessions(u)' \subseteq LiveSessions(u)
    PROVE  WithinReach(u)'
<1> DEFINE live == LiveSessions(u)
<1>1. TypeOK /\ live \subseteq Lineages
  BY DEF IInv, TypeOK, LiveSessions
<1>2. ASSUME NEW w \in Counted(u)'
      PROVE  w \in Counted(u) /\ live' \cap Retiring(w) \subseteq Retiring(w)'
  <2>1. /\ w \in Workers /\ tx'[w].op = "login" /\ tx'[w].user = u /\ tx'[w].stage # "count"
    BY <1>2 DEF Counted, Stage
  <2>2. AtOwnStage(w) /\ WellFormed(w) /\ tx[w] \in Request
    BY <2>1 DEF IInv, Sound, WellFormed, TypeOK
  <2>3. CASE CountSessions(w)
    <3>1. tx'[w].user = tx[w].user
      BY <2>2, <2>1, <2>3 DEF CountSessions, IInv, TypeOK, Request
    <3> QED BY <2>1, <2>3, <3>1
  <2>4. CASE ListSurplus(w)
    <3> DEFINE surplus == Oldest(LiveSessions(tx[w].user), tx[w].room)
    <3>1. /\ Stage(w) = "surplus" /\ tx[w].op = "login" /\ tx[w].targets = {}
      BY <2>2, <2>4 DEF ListSurplus, WellFormed, AtOwnStage, Revoker
    <3>2. tx'[w].user = tx[w].user /\ tx'[w].targets = surplus /\ tx'[w].stage # "surplus"
      <4>1. CASE surplus = {}
        BY <2>1, <2>2, <2>4, <3>1, <4>1 DEF ListSurplus, IInv, TypeOK, Request
      <4>2. CASE surplus # {}
        BY <2>1, <2>2, <2>4, <3>1, <4>2 DEF ListSurplus, IInv, TypeOK, Request
      <4> QED BY <4>1, <4>2
    <3> QED BY <2>1, <3>1, <3>2 DEF Counted, Retiring, Stage
  <2>5. CASE tx'[w] = tx[w]
    <3>1. w \in Counted(u)
      BY <2>1, <2>5 DEF Counted, Stage
    <3>2. CASE Stage(w) = "surplus"
      <4>1. live' \cap Oldest(live, tx[w].room) \subseteq Oldest(live', tx[w].room)
        <5>1. IsFiniteSet(live) /\ live' \subseteq live /\ tx[w].room \in Nat
          BY <1>1, <2>2, Counting DEF Request
        <5> HIDE DEF live
        <5>2. \A T : T \subseteq live =>
                 Oldest(live, tx[w].room) \cap T \subseteq Oldest(T, tx[w].room)
          BY <5>1, OldestStay
        <5> QED BY <5>1, <5>2
      <4> QED BY <2>1, <2>5, <3>1, <3>2, <4>1 DEF Retiring, Stage
    <3>3. CASE Stage(w) # "surplus"
      BY <2>5, <3>1, <3>3 DEF Retiring, Stage
    <3> QED BY <3>1, <3>2, <3>3
  <2>6. CASE /\ tx[w].op = "login" /\ tx'[w].user = tx[w].user
             /\ tx'[w].targets = tx[w].targets
             /\ tx[w].stage \notin {"count", "surplus"}
             /\ tx'[w].stage \notin {"count", "surplus"}
    BY <2>1, <2>6 DEF Counted, Retiring, Stage
  <2> QED BY <1>1, <2>1, <2>2, <2>3, <2>4, <2>5, <2>6, LoginSteps
<1> QED BY <1>1, <1>2, NoFurther

\* Below the cap a login adds one; from the cap on it retires what is over, and itself.
LEMMA CountStep ==
    ASSUME IInv, NEW u \in Users, WithinReach(u),
           NEW w \in Workers, CountSessions(w), tx[w].user = u
    PROVE  WithinReach(u)'
<1> DEFINE live == LiveSessions(u)
           n == Cardinality(live)
<1>1. /\ Stage(w) = "count" /\ tx[w].op = "login" /\ tx[w] \in Request
      /\ tx[w].targets = {} /\ TypeOK
  BY DEF CountSessions, IInv, Sound, WellFormed, AtOwnStage, Revoker, TypeOK
<1>2. live \subseteq Lineages /\ IsFiniteSet(live) /\ n \in Nat /\ live \subseteq Nat
  BY <1>1, Counting DEF TypeOK, LiveSessions
<1>3. Cap \in Nat /\ Cap >= 1 /\ Cardinality(Workers) \in Nat
  BY Counting
<1>4. /\ LiveSessions(u)' = live /\ \A v \in Workers : v # w => tx'[v] = tx[v]
      /\ tx'[w].user = u /\ tx'[w].targets = {}
      /\ n < Cap => tx'[w].stage = "user"
      /\ ~(n < Cap) => tx'[w].stage = "surplus" /\ tx'[w].room = (n - Cap) + 1
  BY <1>1 DEF CountSessions, LiveSessions, rows, TypeOK, Request
<1>5. ASSUME NEW v \in Workers, v # w PROVE Retiring(v)' = Retiring(v)
  <2>1. tx'[v] = tx[v] /\ opened' = opened /\ ended' = ended
    BY <1>4, <1>5 DEF CountSessions, rows
  <2>2. LiveSessions(tx[v].user)' = LiveSessions(tx[v].user)
    BY <2>1 DEF LiveSessions
  <2> QED BY <2>1, <2>2 DEF Retiring, Stage, Oldest
<1>6. Counted(u)' \subseteq Counted(u) \union {w}
  BY <1>4 DEF Counted, Stage
<1>7. Cardinality(live \ Retiring(w)') < Cap
  <2>1. CASE n < Cap
    <3>1. live \ Retiring(w)' \subseteq live
      OBVIOUS
    <3>2. Cardinality(live \ Retiring(w)') <= n /\ Cardinality(live \ Retiring(w)') \in Nat
      <4> HIDE DEF live
      <4> QED BY <1>2, <3>1, FS_Subset, FS_CardinalityType
    <3> QED BY <1>2, <1>3, <2>1, <3>2
  <2>2. CASE ~(n < Cap)
    <3>1. Retiring(w)' = Oldest(live, (n - Cap) + 1)
      BY <1>4, <2>2 DEF Retiring, Stage
    <3>2. (n - Cap) + 1 \in Nat /\ (n - Cap) + 1 <= n
      BY <1>2, <1>3, <2>2
    <3>3. Cardinality(live \ Oldest(live, (n - Cap) + 1)) <= n - ((n - Cap) + 1)
      <4> HIDE DEF live
      <4> QED BY <1>2, <3>2, OldestLeaves
    <3>4. Cardinality(live \ Oldest(live, (n - Cap) + 1)) \in Nat
      <4> HIDE DEF live
      <4> QED BY <1>2, FS_Difference, FS_CardinalityType
    <3> QED BY <1>2, <1>3, <3>1, <3>3, <3>4
  <2> QED BY <2>1, <2>2
<1>8. SUFFICES ASSUME NEW S \in SUBSET Counted(u)'
               PROVE  Cardinality(Left(u, S)') + Cardinality(S) < Cap + Cardinality(Workers)
  BY <1>4 DEF WithinReach
<1>9. CASE w \notin S
  <2>1. S \in SUBSET Counted(u) /\ S \subseteq Workers
    BY <1>6, <1>9 DEF Counted
  <2>2. Left(u, S)' = Left(u, S)
    BY <1>4, <1>5, <1>9, <2>1 DEF Left
  <2> QED BY <2>1, <2>2 DEF WithinReach
<1>10. CASE w \in S
  <2>1. S \subseteq Workers
    BY DEF Counted
  <2>2. Left(u, S)' \subseteq live \ Retiring(w)'
    BY <1>4, <1>10 DEF Left
  <2>3. IsFiniteSet(live \ Retiring(w)') /\ Cardinality(live \ Retiring(w)') \in Nat
    <3> HIDE DEF live
    <3> QED BY <1>2, FS_Difference, FS_CardinalityType
  <2>4. /\ Cardinality(Left(u, S)') <= Cardinality(live \ Retiring(w)')
        /\ Cardinality(Left(u, S)') \in Nat
    <3> HIDE DEF live
    <3> QED BY <2>2, <2>3, FS_Subset, FS_CardinalityType
  <2>5. Cardinality(S) <= Cardinality(Workers) /\ Cardinality(S) \in Nat
    BY <2>1, Counting
  <2> QED BY <1>3, <1>7, <2>3, <2>4, <2>5
<1> QED BY <1>9, <1>10

\* One element adds one at most.
LEMMA OneMore ==
    ASSUME NEW X, IsFiniteSet(X), NEW l
    PROVE  /\ IsFiniteSet(X \union {l}) /\ Cardinality(X \union {l}) <= Cardinality(X) + 1
           /\ Cardinality(X \union {l}) \in Nat
<1>1. Cardinality(X) \in Nat
  BY FS_CardinalityType
<1>2. CASE l \in X
  <2>1. X \union {l} = X
    BY <1>2
  <2>2. IsFiniteSet(X \union {l}) /\ Cardinality(X \union {l}) = Cardinality(X)
    BY <2>1, Zenon
  <2> QED BY <1>1, <2>2
<1>3. CASE l \notin X
  BY <1>1, <1>3, FS_AddElement
<1> QED BY <1>2, <1>3

\* A login that commits moves from what it could add to what is there.
LEMMA LoginCommits ==
    ASSUME IInv, NEW u \in Users, WithinReach(u), Numbered(u),
           NEW w \in Workers, CommitSession(w), tx[w].op = "login", tx[w].user = u
    PROVE  WithinReach(u)'
<1> DEFINE live == LiveSessions(u)
<1>1. /\ Stage(w) = "commit" /\ TypeOK /\ Sound(w) /\ w \in Counted(u)
      /\ Retiring(w) = tx[w].targets
  BY DEF CommitSession, IInv, Counted, Retiring
<1>2. PICK l \in Lineages : IsNextLineage(l, u) /\ opened' = opened \union {l}
  BY DEF CommitSession
<1>3. ended' = ended \union tx[w].targets /\ tx' = [tx EXCEPT ![w] = Idle]
  BY DEF CommitSession, EndedSessions, Finish
<1>4. /\ LiveSessions(u)' \subseteq (live \ Retiring(w)) \union {l}
      /\ live \subseteq Lineages
  BY <1>1, <1>2, <1>3 DEF LiveSessions, TypeOK
<1>5. \A k \in live : k < l
  <2>1. l \in Unopened(u)
    BY <1>2 DEF IsNextLineage
  <2> QED BY <2>1 DEF Numbered, LiveSessions, LineagesOf
<1>6. ASSUME NEW v \in Counted(u)'
      PROVE  v # w /\ v \in Counted(u) /\ Retiring(v) \cap LiveSessions(u)' \subseteq Retiring(v)'
  <2>1. v \in Workers /\ tx'[v].op = "login" /\ tx'[v].user = u /\ tx'[v].stage # "count"
    BY <1>6 DEF Counted, Stage
  <2>2. v # w /\ tx'[v] = tx[v]
    BY <1>1, <1>3, <2>1 DEF TypeOK, Idle, NewRequest
  <2>3. v \in Counted(u)
    BY <2>1, <2>2 DEF Counted, Stage
  <2>4. CASE Stage(v) = "surplus"
    <3>1. Oldest(live, tx[v].room) \cap LiveSessions(u)' \subseteq
             Oldest(LiveSessions(u)', tx[v].room)
      <4>1. \A k \in live \cap LiveSessions(u)' : \A m \in LiveSessions(u)' : m < k => m \in live
        <5> SUFFICES ASSUME NEW k \in live, NEW m \in LiveSessions(u)', m < k PROVE m \in live
          OBVIOUS
        <5>1. k < l /\ k \in Nat /\ l \in Nat
          BY <1>4, <1>5, Counting
        <5> HIDE DEF live
        <5> QED BY <1>4, <5>1
      <4>2. IsFiniteSet(live) /\ tx[v].room \in Nat
        BY <1>1, <1>4, <2>1, Counting DEF TypeOK, Request
      <4>3. \A T : (\A k \in live \cap T : \A m \in T : m < k => m \in live) =>
                       Oldest(live, tx[v].room) \cap T \subseteq Oldest(T, tx[v].room)
        <5> HIDE DEF live
        <5> QED BY <4>2, OldestStay
      <4> QED BY <4>1, <4>3
    <3> QED BY <2>1, <2>2, <2>3, <2>4, <3>1 DEF Retiring, Stage
  <2>5. CASE Stage(v) # "surplus"
    BY <2>2, <2>3, <2>5 DEF Retiring, Stage
  <2> QED BY <2>2, <2>3, <2>4, <2>5
<1>7. SUFFICES ASSUME NEW S \in SUBSET Counted(u)'
               PROVE  Cardinality(Left(u, S)') + Cardinality(S) < Cap + Cardinality(Workers)
  BY <1>3, <1>1 DEF WithinReach
<1> DEFINE R == S \union {w}
<1>8. R \in SUBSET Counted(u) /\ w \notin S /\ S \subseteq Workers
  BY <1>1, <1>6 DEF Counted
<1>9. Left(u, S)' \subseteq Left(u, R) \union {l}
  <2> SUFFICES ASSUME NEW k \in Left(u, S)', k # l PROVE k \in Left(u, R)
    OBVIOUS
  <2>1. k \in LiveSessions(u)' /\ \A v \in S : k \notin Retiring(v)'
    BY DEF Left
  <2>2. k \in live /\ k \notin Retiring(w)
    BY <1>4, <2>1
  <2>3. \A v \in S : k \notin Retiring(v)
    BY <1>6, <2>1
  <2> QED BY <2>2, <2>3 DEF Left
<1>10. /\ Cardinality(Left(u, R)) + Cardinality(R) < Cap + Cardinality(Workers)
       /\ Left(u, R) \subseteq Lineages
  BY <1>4, <1>8 DEF WithinReach, Left
<1>11. IsFiniteSet(S) /\ Cardinality(S) \in Nat /\ Cardinality(R) = Cardinality(S) + 1
  <2>1. IsFiniteSet(S) /\ Cardinality(S) \in Nat
    BY <1>8, Counting
  <2> QED BY <1>8, <2>1, FS_AddElement
<1>12. /\ Cardinality(Left(u, S)') <= Cardinality(Left(u, R)) + 1
       /\ Cardinality(Left(u, S)') \in Nat /\ Cardinality(Left(u, R)) \in Nat
  <2>1. IsFiniteSet(Left(u, R)) /\ Cardinality(Left(u, R)) \in Nat
    BY <1>10, Counting
  <2>2. /\ IsFiniteSet(Left(u, R) \union {l})
        /\ Cardinality(Left(u, R) \union {l}) <= Cardinality(Left(u, R)) + 1
        /\ Cardinality(Left(u, R) \union {l}) \in Nat
    BY <2>1, OneMore
  <2>3. IsFiniteSet(Left(u, S)') /\ Cardinality(Left(u, S)') <= Cardinality(Left(u, R) \union {l})
    BY <1>9, <2>2, FS_Subset
  <2> QED BY <2>1, <2>2, <2>3, FS_CardinalityType
<1> QED BY <1>10, <1>11, <1>12, Counting

\* A password change leaves one session, and whoever has counted adds at most one each.
LEMMA ChangeCommits ==
    ASSUME IInv, NEW u \in Users,
           NEW w \in Workers, CommitSession(w), tx[w].op = "change", tx[w].user = u
    PROVE  WithinReach(u)'
<1>1. /\ Stage(w) = "commit" /\ TypeOK /\ Sound(w)
      /\ LineagesOf(u) \subseteq tx[w].targets
  BY DEF CommitSession, IInv, Sound, Covers, Ender, Revoker, PastTokens
<1>2. PICK l \in Lineages : opened' = opened \union {l}
  BY DEF CommitSession
<1>3. ended' = ended \union tx[w].targets /\ tx' = [tx EXCEPT ![w] = Idle]
  BY DEF CommitSession, EndedSessions, Finish
<1>4. LiveSessions(u)' \subseteq {l}
  BY <1>1, <1>2, <1>3 DEF LiveSessions, LineagesOf
<1>5. Counted(u)' \subseteq Workers \ {w}
  BY <1>1, <1>3 DEF Counted, TypeOK, Idle, NewRequest
<1>6. SUFFICES ASSUME NEW S \in SUBSET Counted(u)'
               PROVE  Cardinality(Left(u, S)') + Cardinality(S) < Cap + Cardinality(Workers)
  BY <1>3, <1>1 DEF WithinReach
<1>7. Cardinality(Left(u, S)') <= 1 /\ Cardinality(Left(u, S)') \in Nat
  <2>1. Left(u, S)' \subseteq {l}
    BY <1>4 DEF Left
  <2>2. IsFiniteSet({l}) /\ Cardinality({l}) = 1
    BY FS_Singleton
  <2>3. \A X : X \subseteq {l} => Cardinality(X) <= 1 /\ Cardinality(X) \in Nat
    BY <2>2, FS_Subset, FS_CardinalityType
  <2> QED BY <2>1, <2>3
<1>8. Cardinality(S) < Cardinality(Workers) /\ Cardinality(S) \in Nat
  BY <1>5, Counting
<1> QED BY <1>7, <1>8, Counting

LEMMA InitCapInv == Init => CapInv
<1> SUFFICES ASSUME Init, NEW u \in Users PROVE WithinReach(u) /\ Numbered(u)
  BY DEF CapInv
<1>1. LiveSessions(u) = {} /\ LineagesOf(u) = {} /\ Counted(u) = {}
  BY DEF Init, LiveSessions, LineagesOf, Counted, Idle, NewRequest
<1>2. \A S \in SUBSET Counted(u) : Left(u, S) = {} /\ S = {}
  BY <1>1 DEF Left
<1>3. Cardinality({}) = 0
  BY FS_EmptySet
<1>4. Cardinality(Workers) \in Nat /\ Cap \in Nat /\ Cap >= 1
  BY Counting
<1>5. 0 + 0 < Cap + Cardinality(Workers)
  BY <1>4
<1> QED BY <1>1, <1>2, <1>3, <1>5 DEF WithinReach, Numbered

LEMMA NextCapInv == IInv /\ CapInv /\ [Next]_vars => CapInv'
<1> SUFFICES ASSUME IInv, CapInv, [Next]_vars, NEW u \in Users
             PROVE  WithinReach(u)' /\ Numbered(u)'
  BY DEF CapInv
<1>1. WithinReach(u) /\ Numbered(u) /\ TypeOK
  BY DEF CapInv, IInv
<1>2. ASSUME NEW w \in Workers, CommitSession(w)
      PROVE  WithinReach(u)' /\ Numbered(u)'
  <2>1. PICK l \in Lineages : IsNextLineage(l, tx[w].user) /\ opened' = opened \union {l}
    BY <1>2 DEF CommitSession
  <2>2. l \notin opened /\ Owner[l] = tx[w].user /\ tx[w].op \in {"login", "change"}
    BY <1>2, <2>1 DEF IsNextLineage, Unopened, CommitSession
  <2>3. Numbered(u)'
    <3> SUFFICES ASSUME NEW k \in LineagesOf(u)', NEW j \in Unopened(u)' PROVE k < j
      BY DEF Numbered
    <3>1. j \in Unopened(u) /\ j # l
      BY <2>1 DEF Unopened
    <3>2. CASE k = l
      <4>1. l <= j
        BY <2>1, <2>2, <3>1, <3>2 DEF IsNextLineage, LineagesOf
      <4> QED BY <3>1, <3>2, <4>1, Counting DEF Unopened
    <3>3. CASE k # l
      BY <1>1, <2>1, <3>1, <3>3 DEF Numbered, LineagesOf
    <3> QED BY <3>2, <3>3
  <2>4. CASE tx[w].user = u
    BY <1>1, <1>2, <2>2, <2>3, <2>4, LoginCommits, ChangeCommits
  <2>5. CASE tx[w].user # u
    <3>1. LiveSessions(u)' \subseteq LiveSessions(u)
      BY <1>2, <2>1, <2>2, <2>5 DEF LiveSessions, CommitSession, EndedSessions
    <3>2. \A v \in Workers : CountSessions(v) => tx[v].user # u
      BY <1>1, <1>2 DEF CountSessions, CommitSession, rows, TypeOK, IsNextLineage, Unopened
    <3> QED BY <1>1, <2>3, <3>1, <3>2, OtherSteps
  <2> QED BY <2>4, <2>5
<1>3. CASE \A w \in Workers : ~CommitSession(w)
  <2>1. opened' = opened /\ ended \subseteq ended'
    BY <1>3, SessionSteps
  <2>2. Numbered(u)'
    BY <1>1, <2>1 DEF Numbered, LineagesOf, Unopened
  <2>3. LiveSessions(u)' \subseteq LiveSessions(u)
    BY <2>1 DEF LiveSessions
  <2>4. CASE \E w \in Workers : CountSessions(w) /\ tx[w].user = u
    BY <1>1, <2>2, <2>4, CountStep
  <2>5. CASE \A w \in Workers : CountSessions(w) => tx[w].user # u
    BY <1>1, <2>2, <2>3, <2>5, OtherSteps
  <2> QED BY <2>4, <2>5
<1> QED BY <1>2, <1>3

\* What the logins of an account that overlap can add up to: see WithinReach.
THEOREM CapInvariance == Spec => []CapInv
  BY InitCapInv, NextCapInv, Invariance, PTL DEF Spec

\* An account has at most the cap and one live session for every worker but one, however
\* its logins overlap, fail or race password changes (DeviceSessionService.enforce_cap).
THEOREM CapIsNearlyKept == Spec => []SessionsBounded
<1>1. IInv /\ CapInv => SessionsBounded
  <2> SUFFICES ASSUME IInv, CapInv, NEW u \in Users
               PROVE  Cardinality(LiveSessions(u)) < Cap + Cardinality(Workers)
    BY DEF SessionsBounded
  <2>1. Left(u, {}) = LiveSessions(u)
    BY DEF Left
  <2>2. Cardinality(Left(u, {})) + Cardinality({}) < Cap + Cardinality(Workers)
    BY DEF CapInv, WithinReach
  <2>3. Cardinality({}) = 0
    BY FS_EmptySet
  <2>4. Cardinality(LiveSessions(u)) \in Nat
    <3>1. LiveSessions(u) \subseteq Lineages
      BY DEF LiveSessions, IInv, TypeOK
    <3> QED BY <3>1, Counting
  <2> QED BY <2>1, <2>2, <2>3, <2>4
<1> QED BY <1>1, Invariance, CapInvariance, PTL
=============================================================================
