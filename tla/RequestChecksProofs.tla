------------------------ MODULE RequestChecksProofs ------------------------
(***************************************************************************)
(* Proofs about RequestChecks: its inductive invariant, that roles and        *)
(* sessions fade and that sessions stop, for all lifetimes, leeways, clocks   *)
(* and request times.                                                        *)
(***************************************************************************)
EXTENDS RequestChecks, TLAPS

LEMMA Numbers ==
    /\ AccessLifetime \in Nat /\ AccessLifetime > 0
    /\ RefreshLifetime \in Nat /\ RefreshLifetime > 0
    /\ AbsoluteLifetime \in Nat /\ AbsoluteLifetime > 0
    /\ Leeway \in Nat /\ Skew \in Nat /\ RequestTime \in Nat
    /\ MaxTime \in Nat /\ MaxEdits \in Nat
  BY RequestAssumption

LEMMA IdleIsWork == Idle \in Work
  BY Numbers DEF Idle, Work, Versions, Clocks, Times

LEMMA InitCInv == Init => CInv
<1> SUFFICES ASSUME Init PROVE CInv
  OBVIOUS
<1> USE Numbers, RequestAssumption DEF Init
<1>1. TypeOK
  BY IdleIsWork DEF TypeOK, Account, Session, Times, Clocks, Versions, Fade
<1>2. \A w \in Workers : At(w) = "idle"
  BY DEF At, Idle
<1>3. (\A w \in Workers : Holds(w)) /\ Apart
  BY <1>2 DEF Holds, Apart
<1>4. VersionsFit /\ PairsFit
  BY DEF VersionsFit, PairsFit
<1> QED BY <1>1, <1>3, <1>4 DEF CInv

\* The fields of what is sent.
LEMMA Sent ==
    ASSUME now \in Nat, NEW p, NEW type, NEW s, NEW q \in AsMinted(p, type, s)
    PROVE  /\ q.pair = p /\ q.type = type /\ q.host = s
           /\ q.clock \in Nat /\ now <= q.clock /\ q.clock <= now + Skew
  BY Numbers DEF AsMinted

\* A rotation is granted or refused for its row only on the host of the token.
LEMMA Addressed ==
    ASSUME NEW checks, "schema" \in checks, NEW q, NEW type, Passes(checks, q, type)
    PROVE  Home[q.pair.sid] = q.host
<1>1. ~Fails("schema", q, type)
  BY DEF Passes
<1>2. ~Mismatch("schema", q, type)
  BY <1>1 DEF Fails, Dates, Accounts, Rows
<1> QED BY <1>2 DEF Mismatch

\* A rotation is granted in an open session, before the token is overdue.
LEMMA Granted ==
    ASSUME NEW q, Redeems(q)
    PROVE  /\ Home[q.pair.sid] = q.host
           /\ session[q.pair.sid].stage = "open"
           /\ ~(q.pair.refreshExp <= q.clock)
<1>1. Passes(Redeemed, q, "refresh")
  BY DEF Redeems
<1>2. Home[q.pair.sid] = q.host
  BY <1>1, Addressed DEF Redeemed, Decoded
<1>3. ~Fails("status", q, "refresh") /\ ~Fails("overdue", q, "refresh")
  BY <1>1 DEF Passes, Redeemed, Rows
<1>4. ~Spent("status", q) /\ ~Spent("overdue", q)
  BY <1>3 DEF Fails, Dates, Accounts, Rows
<1> QED BY <1>2, <1>4 DEF Spent

\* An access token that passes its dates was minted not long ago.
LEMMA Timely ==
    ASSUME NEW checks, "exp" \in checks, NEW q, q.type = "access", Passes(checks, q, "access")
    PROVE  ~(q.pair.iat + AccessLifetime <= q.clock - Leeway)
<1>1. ~Fails("exp", q, "access")
  BY DEF Passes
<1>2. ~Untimely("exp", q)
  BY <1>1 DEF Fails, Dates, Accounts, Rows, Untimely
<1> QED BY <1>2 DEF Untimely, Exp, AccessExp

-----------------------------------------------------------------------------
\* A step that only a worker takes, w, which then has work in hand.
Only(w, work) == /\ worker' = [worker EXCEPT ![w] = work]
                 /\ UNCHANGED <<now, account, session, pairs, denied, lost>>

LEMMA WorkerTypes ==
    ASSUME TypeOK, NEW w \in Workers, NEW work \in Work, Only(w, work),
           edits' \in {edits, edits + 1}, edits' <= MaxEdits
    PROVE  TypeOK' /\ worker'[w] = work /\ \A v \in Workers \ {w} : worker'[v] = worker[v]
<1> USE Numbers DEF Only, TypeOK
<1>1. edits' \in 0 .. MaxEdits
  OBVIOUS
<1>2. worker' \in [Workers -> Work]
  OBVIOUS
<1> QED BY <1>1, <1>2

\* It is enough to look at w.
LEMMA WorkerStep ==
    ASSUME CInv, NEW w \in Workers, NEW work \in Work, Only(w, work),
           edits' \in {edits, edits + 1}, edits' <= MaxEdits, Holds(w)',
           \A v \in Workers \ {w} :
              /\ work.stage # "idle" /\ At(v) # "idle" => Sid(v) # work.sid
              /\ work.stage = "minting" /\ At(v) = "minting" => HomeOf(v) # Home[work.sid]
    PROVE  CInv'
<1>1. TypeOK' /\ worker'[w] = work /\ \A v \in Workers \ {w} : worker'[v] = worker[v]
  BY WorkerTypes DEF CInv
<1>2. edits \in Int /\ edits' >= edits /\ TypeOK
  BY Numbers DEF CInv, TypeOK
<1>3. ASSUME NEW v \in Workers \ {w} PROVE Holds(v)'
  <2>1. Holds(v) /\ worker[v] \in Work
    BY <1>2 DEF CInv, TypeOK
  <2>2. worker[v].version \in Int
    BY <2>1, Numbers DEF Work, Versions
  <2> QED BY <1>1, <1>2, <2>1, <2>2 DEF Holds, At, Sid, HomeOf, Only
<1>4. Apart'
  BY <1>1 DEF CInv, Apart, At, Sid, HomeOf
<1>5. VersionsFit'
  BY <1>2, Numbers DEF CInv, VersionsFit, Only, TypeOK, Account, Versions
<1>6. PairsFit'
  BY DEF CInv, PairsFit, SessionFits, RolesFit, Only, Standing
<1> QED BY <1>1, <1>3, <1>4, <1>5, <1>6 DEF CInv

LEMMA BeginLoginKeeps ==
    ASSUME CInv, NEW w \in Workers, NEW sid \in Sessions, BeginLogin(w, sid)
    PROVE  CInv'
<1> DEFINE work == [stage |-> "account", kind |-> "login", sid |-> sid,
                    version |-> account[Home[sid]].version, roles |-> {}, created |-> 0,
                    since |-> 0, skew |-> 0]
<1>1. Home[sid] \in Schemas /\ account[Home[sid]] \in Account
  BY RequestAssumption DEF CInv, TypeOK
<1>2. work \in Work
  BY <1>1, Numbers DEF Work, Account, Versions, Clocks, Times
<1>3. Only(w, work) /\ edits' = edits /\ edits' <= MaxEdits
  BY Numbers DEF BeginLogin, Give, Only, CInv, TypeOK
<1>4. worker'[w] = work
  BY <1>3 DEF Only, CInv, TypeOK
<1>5. Holds(w)'
  BY <1>3, <1>4 DEF Holds, At, Sid, BeginLogin, Spare
<1>6. \A v \in Workers \ {w} : Sid(v) # sid
  BY DEF BeginLogin, Spare, Sid
<1> QED BY <1>2, <1>3, <1>5, <1>6, WorkerStep

\* Nobody holds the lock of an account that is free.
LEMMA Unlocked ==
    ASSUME NEW s, ~AccountLocked(s), NEW w \in Workers, At(w) = "minting"
    PROVE  HomeOf(w) # s
  BY DEF AccountLocked, Minting, At, HomeOf, Sid

LEMMA EstablishSessionKeeps ==
    ASSUME CInv, NEW w \in Workers, NEW skew \in 0 .. Skew, EstablishSession(w, skew)
    PROVE  CInv'
<1> DEFINE work == [worker[w] EXCEPT !.stage = "minting", !.created = now + skew, !.since = now,
                                     !.skew = skew, !.roles = account[HomeOf(w)].roles]
<1> USE DEF CInv
<1>1. worker[w] \in Work /\ now \in Times /\ At(w) = "account" /\ Holds(w)
  BY DEF TypeOK, EstablishSession, At
<1>2. Sid(w) \in Sessions /\ HomeOf(w) \in Schemas /\ account[HomeOf(w)] \in Account
  BY <1>1, RequestAssumption DEF TypeOK, Holds, HomeOf
<1>3. now + skew \in Clocks
  BY <1>1, Numbers DEF Clocks, Times
<1>4. work \in Work
  BY <1>1, <1>2, <1>3 DEF Work, Account
<1>5. Only(w, work) /\ edits' = edits /\ edits' <= MaxEdits
  BY Numbers DEF EstablishSession, Give, Only, TypeOK, HomeOf, Sid
<1>6. worker'[w] = work
  BY <1>5 DEF Only, TypeOK
<1>7. Sid(w)' = Sid(w) /\ worker'[w].kind = "login"
  BY <1>1, <1>6 DEF Sid, Work, Holds
<1>8. Holds(w)'
  BY <1>1, <1>5, <1>6, <1>7, <1>2, Numbers DEF Holds, At, Sid, Only, Work, HomeOf, Times
<1>9. \A v \in Workers \ {w} :
         /\ At(v) # "idle" => Sid(v) # work.sid
         /\ At(v) = "minting" => HomeOf(v) # Home[work.sid]
  <2>1. work.sid = Sid(w)
    BY <1>1 DEF Sid, Work
  <2>2. ~AccountLocked(HomeOf(w))
    BY DEF EstablishSession, HomeOf, Sid
  <2> QED BY <1>1, <2>1, <2>2, Unlocked DEF Apart, HomeOf
<1> QED BY <1>4, <1>5, <1>8, <1>9, WorkerStep

LEMMA DieKeeps ==
    ASSUME CInv, NEW w \in Workers, Die(w)
    PROVE  CInv'
<1>1. Only(w, Idle) /\ edits' = edits /\ edits' <= MaxEdits
  BY Numbers DEF Die, Release, Only, CInv, TypeOK
<1>2. worker'[w].stage = "idle" /\ Idle.stage = "idle"
  BY <1>1 DEF Only, CInv, TypeOK, Idle
<1>3. Holds(w)'
  BY <1>2 DEF Holds, At
<1> QED BY <1>1, <1>2, <1>3, IdleIsWork, WorkerStep

LEMMA RedeemKeeps ==
    ASSUME CInv, NEW w \in Workers, NEW p \in pairs, NEW s \in Schemas,
           NEW q \in AsMinted(p, "refresh", s), Redeem(w, q)
    PROVE  CInv'
<1> DEFINE work == [stage |-> "minting", kind |-> "rotation", sid |-> p.sid,
                    version |-> account[s].version, roles |-> account[s].roles,
                    created |-> session[p.sid].created, since |-> now, skew |-> q.clock - now]
<1> USE DEF CInv
<1>1. p \in Pair /\ now \in Nat /\ now \in Times /\ SessionFits(p)
  BY Numbers DEF TypeOK, Times, PairsFit
<1>2. /\ q.pair = p /\ q.host = s
      /\ q.clock \in Nat /\ now <= q.clock /\ q.clock <= now + Skew
  BY <1>1, Sent
<1>3. Home[p.sid] = s /\ session[p.sid].stage = "open" /\ ~(p.refreshExp <= q.clock)
  BY <1>2, Granted DEF Redeem
<1>4. p.sid \in Sessions /\ session[p.sid] \in Session /\ account[s] \in Account
  BY <1>1 DEF Pair, TypeOK
<1>5. work \in Work
  BY <1>1, <1>2, <1>4, Numbers DEF Work, Account, Session
<1>6. Only(w, work) /\ edits' = edits /\ edits' <= MaxEdits
  BY <1>2, Numbers DEF Redeem, Give, Only, TypeOK
<1>7. worker'[w] = work
  BY <1>6 DEF Only, TypeOK
<1>8. now + (q.clock - now) < session[p.sid].created + AbsoluteLifetime
  BY <1>1, <1>2, <1>3, <1>4, Numbers DEF SessionFits, Pair, Session, Clocks
<1>9. Holds(w)'
  <2>1. Sid(w)' = p.sid /\ HomeOf(w)' = s
    BY <1>3, <1>7 DEF Sid, HomeOf
  <2>2. worker'[w].roles = account[s].roles /\ worker'[w].kind = "rotation"
    BY <1>7
  <2>3. /\ worker'[w].since <= now /\ now <= worker'[w].since + RequestTime
        /\ worker'[w].since + worker'[w].skew < worker'[w].created + AbsoluteLifetime
    BY <1>1, <1>7, <1>8, Numbers
  <2> QED BY <1>3, <1>4, <1>6, <1>7, <2>1, <2>2, <2>3 DEF Holds, At, Only
<1>10. \A v \in Workers \ {w} :
          /\ At(v) # "idle" => Sid(v) # p.sid
          /\ At(v) = "minting" => HomeOf(v) # s
  <2> SUFFICES ASSUME NEW v \in Workers \ {w}, At(v) # "idle" PROVE
          Sid(v) # p.sid /\ (At(v) = "minting" => HomeOf(v) # s)
    OBVIOUS
  <2>1. At(v) = "minting" => HomeOf(v) # s
    BY <1>2, Unlocked DEF Redeem
  <2>2. At(v) = "account" => session[Sid(v)].stage = "unused"
    BY DEF Holds
  <2>3. At(v) \in {"idle", "account", "minting"}
    BY DEF At, TypeOK, Work
  <2> QED BY <1>3, <2>1, <2>2, <2>3 DEF HomeOf
<1> QED BY <1>3, <1>5, <1>6, <1>9, <1>10, WorkerStep

LEMMA BeginChangeKeeps ==
    ASSUME CInv, NEW w \in Workers, NEW p \in pairs, NEW s \in Schemas,
           NEW q \in AsMinted(p, "access", s), NEW sid \in Sessions, BeginChange(w, q, sid)
    PROVE  CInv'
<1> DEFINE work == [stage |-> "minting", kind |-> "change", sid |-> sid,
                    version |-> account[s].version + 1, roles |-> account[s].roles,
                    created |-> q.clock, since |-> now, skew |-> q.clock - now]
<1> USE DEF CInv
<1>1. now \in Nat /\ now <= MaxTime /\ edits \in Nat /\ account[s] \in Account
  BY Numbers DEF TypeOK, Times
<1>2. /\ q.host = s
      /\ q.clock \in Nat /\ now <= q.clock /\ q.clock <= now + Skew
  BY <1>1, Sent
<1>3. account[s].version \in Nat /\ account[s].version <= edits /\ edits' = edits + 1
      /\ edits' <= MaxEdits
  BY <1>1, Numbers DEF Account, Versions, VersionsFit, BeginChange
<1>4. account[s].version + 1 \in Versions /\ q.clock \in Clocks /\ now \in Times
      /\ q.clock - now \in 0 .. Skew
  BY <1>1, <1>2, <1>3, Numbers DEF Versions, Clocks, Times
<1>5. work \in Work
  BY <1>1, <1>4, Numbers DEF Work, Account
<1>6. Only(w, work)
  BY <1>2 DEF BeginChange, Give, Only
<1>7. worker'[w] = work
  BY <1>6 DEF Only, TypeOK
<1>8. Holds(w)'
  <2>1. Sid(w)' = sid /\ HomeOf(w)' = s
    BY <1>2, <1>7 DEF Sid, HomeOf, BeginChange
  <2>2. /\ worker'[w].roles = account[s].roles /\ worker'[w].kind = "change"
        /\ worker'[w].version = account[s].version + 1
    BY <1>7
  <2>3. /\ worker'[w].since <= now /\ now <= worker'[w].since + RequestTime
        /\ worker'[w].since + worker'[w].skew < worker'[w].created + AbsoluteLifetime
    BY <1>1, <1>2, <1>7, Numbers
  <2>4. session[sid].stage = "unused"
    BY DEF BeginChange, Spare
  <2>5. account[s].version + 1 <= edits'
    BY <1>1, <1>3
  <2> QED BY <1>6, <1>7, <2>1, <2>2, <2>3, <2>4, <2>5 DEF Holds, At, Only
<1>9. \A v \in Workers \ {w} :
          Sid(v) # sid /\ (At(v) = "minting" => HomeOf(v) # Home[sid])
  BY <1>2, Unlocked DEF BeginChange, Spare, Sid
<1> QED BY <1>3, <1>5, <1>6, <1>8, <1>9, WorkerStep

-----------------------------------------------------------------------------
\* What steps other than a mint do to a session: it stays as old, used or unused,
\* and if it ends, it ends now.
Evolves(sid) ==
    /\ session'[sid].created = session[sid].created
    /\ session'[sid].stage = "unused" <=> session[sid].stage = "unused"
    /\ \/ Standing(sid)'
       \/ Standing(sid) /\ session'[sid].endedAt = now
       \/ session'[sid].endedAt = session[sid].endedAt /\ ~Standing(sid)

LEMMA EndedEvolves ==
    ASSUME session \in [Sessions -> Session], now \in Times, NEW sids
    PROVE  /\ Ended(sids) \in [Sessions -> Session]
           /\ \A sid \in Sessions :
                 /\ Ended(sids)[sid].created = session[sid].created
                 /\ Ended(sids)[sid].gen = session[sid].gen
                 /\ Ended(sids)[sid].stage = "unused" <=> session[sid].stage = "unused"
                 /\ \/ Ended(sids)[sid] = session[sid]
                    \/ Standing(sid) /\ Ended(sids)[sid].endedAt = now
                 /\ sid \in sids /\ Standing(sid) => Ended(sids)[sid].endedAt = now
                 /\ ~Standing(sid) => Ended(sids)[sid] = session[sid]
<1>1. ASSUME NEW sid \in Sessions
      PROVE  [session[sid] EXCEPT !.stage = "ended", !.endedAt = now] \in Session
  BY DEF Session
<1> QED BY <1>1 DEF Ended, Session, Standing

\* Sessions end, nothing else moves that a worker or a pair depends on.
LEMMA SessionStep ==
    ASSUME CInv, session' \in [Sessions -> Session], \A sid \in Sessions : Evolves(sid),
           UNCHANGED <<now, pairs, worker, lost, account, edits>>, denied' \in SUBSET (Sessions \X Nat)
    PROVE  CInv'
<1> USE DEF CInv
<1>1. TypeOK'
  BY DEF TypeOK
<1>2. ASSUME NEW w \in Workers PROVE Holds(w)'
  BY DEF Holds, At, Sid, HomeOf, Evolves
<1>3. Apart' /\ VersionsFit'
  BY DEF Apart, At, Sid, HomeOf, VersionsFit
<1>4. ASSUME NEW p \in pairs PROVE p.iat <= now' + Skew /\ SessionFits(p)' /\ RolesFit(p)'
  <2>1. p \in Pair /\ Evolves(p.sid) /\ p.iat <= now + Skew /\ SessionFits(p) /\ RolesFit(p)
    BY DEF TypeOK, Pair, PairsFit
  <2>2. RolesFit(p)'
    BY <2>1 DEF RolesFit
  <2>3. SessionFits(p)'
    BY <2>1 DEF SessionFits, Evolves, Standing
  <2> QED BY <2>1, <2>2, <2>3
<1>5. PairsFit'
  BY <1>4 DEF PairsFit
<1> QED BY <1>1, <1>2, <1>3, <1>5

LEMMA EndKeeps ==
    ASSUME CInv, NEW sids, session' = Ended(sids),
           UNCHANGED <<now, pairs, worker, lost, account, edits>>, denied' \in SUBSET (Sessions \X Nat)
    PROVE  CInv'
<1>1. session' \in [Sessions -> Session] /\ \A sid \in Sessions : Evolves(sid)
  BY EndedEvolves DEF CInv, TypeOK, Evolves, Standing
<1> QED BY <1>1, SessionStep

LEMMA RefuseRedeemKeeps ==
    ASSUME CInv, NEW p \in pairs, NEW s \in Schemas,
           NEW q \in AsMinted(p, "refresh", s), RefuseRedeem(q)
    PROVE  CInv'
<1> USE DEF CInv
<1>1. p \in Pair /\ p.sid \in Sessions /\ q.pair = p /\ session[p.sid].stage # "unused"
  BY Sent, Numbers DEF TypeOK, Times, Pair, PairsFit, SessionFits
<1>2. session' \in [Sessions -> Session] /\ \A sid \in Sessions : Evolves(sid)
  <2>1. CASE session' = [session EXCEPT ![p.sid].stage = "lapsed"]
    BY <1>1, <2>1 DEF TypeOK, Session, Evolves, Standing
  <2>2. CASE session' = [Ended({p.sid}) EXCEPT ![p.sid].stage = "compromised"]
    <3> DEFINE ended == Ended({p.sid})
    <3>1. ended \in [Sessions -> Session]
      BY EndedEvolves DEF TypeOK
    <3>2. session' \in [Sessions -> Session]
      BY <1>1, <2>2, <3>1 DEF Session
    <3>3. \A sid \in Sessions \ {p.sid} : session'[sid] = ended[sid]
      BY <2>2, <3>1
    <3>4. /\ session'[p.sid].stage = "compromised"
          /\ session'[p.sid].created = ended[p.sid].created
          /\ session'[p.sid].endedAt = ended[p.sid].endedAt
      BY <1>1, <2>2, <3>1 DEF Session
    <3> QED BY <1>1, <3>2, <3>3, <3>4, EndedEvolves DEF TypeOK, Evolves, Standing
  <2> QED BY <1>1, <2>1, <2>2 DEF RefuseRedeem
<1> QED BY <1>2, SessionStep DEF RefuseRedeem, TypeOK

-----------------------------------------------------------------------------
\* A role that goes is remembered; the version moves when nobody holds the lock.
RolesEvolve(s) == \A r \in Roles :
    /\ r \in account[s].roles => r \in account'[s].roles \/ lost'[s][r] = now
    /\ lost'[s][r] = lost[s][r] \/ lost'[s][r] = now
VersionEvolves(s) ==
    \/ account'[s].version = account[s].version
    \/ account'[s].version = account[s].version + 1 /\ ~AccountLocked(s)

LEMMA RoleKept ==
    ASSUME now \in Int, lost \in [Schemas -> [Roles -> Int]],
           NEW s \in Schemas, NEW r \in Roles, RolesEvolve(s), NEW t \in Int, t <= now,
           r \in account[s].roles \/ t <= lost[s][r]
    PROVE  r \in account'[s].roles \/ t <= lost'[s][r]
  BY DEF RolesEvolve

LEMMA AccountStep ==
    ASSUME CInv, session' \in [Sessions -> Session], \A sid \in Sessions : Evolves(sid),
           account' \in [Schemas -> Account], lost' \in [Schemas -> [Roles -> Int]],
           \A s \in Schemas : RolesEvolve(s) /\ VersionEvolves(s),
           edits < MaxEdits, edits' = edits + 1, UNCHANGED <<now, pairs, worker>>,
           denied' \in SUBSET (Sessions \X Nat)
    PROVE  CInv'
<1> USE DEF CInv
<1>0. now \in Nat /\ edits \in Nat
  BY Numbers DEF TypeOK, Times
<1>1. TypeOK'
  BY <1>0, Numbers DEF TypeOK
<1>2. ASSUME NEW w \in Workers PROVE Holds(w)'
  <2> SUFFICES ASSUME At(w) # "idle" PROVE Holds(w)'
    BY DEF Holds, At
  <2>1. Holds(w) /\ worker[w] \in Work /\ Sid(w) \in Sessions
    BY DEF TypeOK, Holds
  <2>2. HomeOf(w) \in Schemas /\ worker[w].since \in Nat /\ worker[w].version \in Nat
    BY <2>1, Numbers, RequestAssumption DEF HomeOf, Work, Times, Versions
  <2>3. UNCHANGED <<At(w), Sid(w), HomeOf(w)>>
    BY DEF At, Sid, HomeOf
  <2>4. CASE At(w) = "account"
    BY <2>1, <2>3, <2>4 DEF Holds, Evolves, At
  <2>5. CASE At(w) = "minting"
    <3>1. \A r \in worker[w].roles :
             r \in account'[HomeOf(w)].roles \/ worker[w].since <= lost'[HomeOf(w)][r]
      BY <1>0, <2>1, <2>2, <2>5, RoleKept DEF Holds, Work, TypeOK
    <3>2. account'[HomeOf(w)].version = account[HomeOf(w)].version
      BY <2>2, <2>5, Unlocked DEF VersionEvolves
    <3> QED BY <1>0, <2>1, <2>2, <2>3, <2>5, <3>1, <3>2 DEF Holds, Evolves, At
  <2>6. At(w) \in {"idle", "account", "minting"}
    BY <2>1 DEF Work, At
  <2> QED BY <2>4, <2>5, <2>6
<1>3. Apart'
  BY DEF Apart, At, Sid, HomeOf
<1>4. VersionsFit'
  <2> SUFFICES ASSUME NEW s \in Schemas PROVE account'[s].version <= edits'
    BY DEF VersionsFit
  <2>1. account[s] \in Account /\ account[s].version <= edits
    BY DEF TypeOK, VersionsFit
  <2>2. account[s].version \in Nat
    BY <2>1, Numbers DEF Account, Versions
  <2> QED BY <1>0, <2>1, <2>2 DEF VersionEvolves
<1>5. ASSUME NEW p \in pairs PROVE p.iat <= now' + Skew /\ SessionFits(p)' /\ RolesFit(p)'
  <2>1. p \in Pair /\ Evolves(p.sid) /\ p.iat <= now + Skew /\ SessionFits(p) /\ RolesFit(p)
    BY DEF TypeOK, Pair, PairsFit
  <2>2. SessionFits(p)'
    BY <2>1 DEF SessionFits, Evolves, Standing
  <2>3. ASSUME NEW r \in p.roles
        PROVE  r \in account'[Home[p.sid]].roles
               \/ p.iat <= lost'[Home[p.sid]][r] + Skew + RequestTime
    <3>1. r \in Roles /\ Home[p.sid] \in Schemas /\ p.iat \in Nat
      BY <2>1, Numbers, RequestAssumption DEF Pair, Clocks
    <3>2. r \in account[Home[p.sid]].roles \/ p.iat <= lost[Home[p.sid]][r] + Skew + RequestTime
      BY <2>1 DEF RolesFit
    <3>3. lost[Home[p.sid]][r] \in Int /\ lost'[Home[p.sid]][r] \in Int
      BY <3>1 DEF TypeOK
    <3>4. RolesEvolve(Home[p.sid])
      BY <3>1
    <3> QED BY <1>0, <2>1, <3>1, <3>2, <3>3, <3>4, Numbers DEF RolesEvolve
  <2> QED BY <2>1, <2>2, <2>3 DEF RolesFit
<1>6. PairsFit'
  BY <1>5 DEF PairsFit
<1> QED BY <1>1, <1>2, <1>3, <1>4, <1>6

LEMMA RevokeAllKeeps ==
    ASSUME CInv, NEW s \in Schemas, NEW tokens \in SUBSET (Sessions \X Nat), RevokeAll(s, tokens)
    PROVE  CInv'
<1> USE DEF CInv
<1>1. session' \in [Sessions -> Session] /\ \A sid \in Sessions : Evolves(sid)
  BY EndedEvolves DEF TypeOK, Evolves, Standing, RevokeAll
<1>2. account[s] \in Account /\ account[s].version + 1 \in Versions
  BY Numbers DEF TypeOK, Account, Versions, VersionsFit, RevokeAll
<1>3. account' \in [Schemas -> Account] /\ \A t \in Schemas : RolesEvolve(t) /\ VersionEvolves(t)
  BY <1>2 DEF RevokeAll, TypeOK, Account, RolesEvolve, VersionEvolves
<1> QED BY <1>1, <1>3, AccountStep DEF RevokeAll, TypeOK

LEMMA EditKeeps ==
    ASSUME CInv, NEW s \in Schemas, NEW roles \in SUBSET Roles, NEW live \in BOOLEAN,
           account' = [account EXCEPT ![s].roles = roles, ![s].live = live],
           lost' = Lost(s, roles), edits < MaxEdits, edits' = edits + 1,
           UNCHANGED <<now, session, pairs, denied, worker>>
    PROVE  CInv'
<1> USE DEF CInv
<1>1. session' \in [Sessions -> Session] /\ \A sid \in Sessions : Evolves(sid)
  BY DEF TypeOK, Evolves, Standing
<1>2. account' \in [Schemas -> Account]
  BY DEF TypeOK, Account
<1>4. lost' \in [Schemas -> [Roles -> Int]]
  <2>1. now \in Int
    BY Numbers DEF TypeOK, Times
  <2> QED BY <2>1 DEF TypeOK, Lost
<1>3. ASSUME NEW t \in Schemas PROVE RolesEvolve(t) /\ VersionEvolves(t)
  <2>1. CASE t = s
    BY <2>1 DEF TypeOK, Account, RolesEvolve, VersionEvolves, Lost
  <2>2. CASE t # s
    BY <2>2 DEF TypeOK, Account, RolesEvolve, VersionEvolves, Lost
  <2> QED BY <2>1, <2>2
<1> QED BY <1>1, <1>2, <1>3, <1>4, AccountStep DEF TypeOK

LEMMA DeleteRoleKeeps ==
    ASSUME CInv, NEW s \in Schemas, NEW r \in Roles, DeleteRole(s, r)
    PROVE  CInv'
<1> DEFINE roles == account[s].roles \ {r}
           live == account[s].live
<1>1. account[s] \in Account
  BY DEF CInv, TypeOK
<1>2. roles \in SUBSET Roles /\ live \in BOOLEAN
  BY <1>1 DEF Account
<1>3. account' = [account EXCEPT ![s].roles = roles, ![s].live = live]
  BY <1>1 DEF DeleteRole, Account, CInv, TypeOK
<1> QED BY <1>2, <1>3, EditKeeps DEF DeleteRole

LEMMA TickKeeps ==
    ASSUME CInv, Tick
    PROVE  CInv'
<1> USE DEF CInv, Tick
<1>1. now \in Nat /\ now' = now + 1
  BY Numbers DEF TypeOK, Times
<1>2. TypeOK'
  BY <1>1, Numbers DEF TypeOK, Times
<1>3. ASSUME NEW w \in Workers PROVE Holds(w)'
  <2>1. Holds(w) /\ worker[w] \in Work
    BY DEF TypeOK
  <2>2. worker[w].since \in Nat
    BY <2>1, Numbers DEF Work, Times
  <2>3. At(w) = "minting" => worker[w].since <= now + 1 /\ now + 1 <= worker[w].since + RequestTime
    BY <1>1, <2>1, <2>2, Numbers DEF Holds, Minting, At
  <2>4. At(w)' = At(w) /\ Sid(w)' = Sid(w) /\ HomeOf(w)' = HomeOf(w)
    BY DEF At, Sid, HomeOf
  <2> QED BY <1>1, <2>1, <2>3, <2>4 DEF Holds
<1>4. Apart' /\ VersionsFit'
  BY DEF Apart, At, Sid, HomeOf, VersionsFit
<1>5. ASSUME NEW p \in pairs PROVE p.iat <= now' + Skew /\ SessionFits(p)' /\ RolesFit(p)'
  <2>1. p.iat \in Nat /\ p.iat <= now + Skew /\ SessionFits(p) /\ RolesFit(p)
    BY Numbers DEF TypeOK, Pair, PairsFit, Clocks
  <2> QED BY <1>1, <2>1, Numbers DEF SessionFits, RolesFit, Standing
<1>6. PairsFit'
  BY <1>5 DEF PairsFit
<1> QED BY <1>2, <1>3, <1>4, <1>6

-----------------------------------------------------------------------------
LEMMA MintKeeps ==
    ASSUME CInv, NEW w \in Workers, Mint(w)
    PROVE  CInv'
<1> DEFINE work == worker[w]
           home == Home[work.sid]
           pair == [sid |-> work.sid, gen |-> session[work.sid].gen + 1,
                    roles |-> work.roles, version |-> work.version, iat |-> Clock(w),
                    refreshExp |-> RefreshDeadline(w),
                    raced |-> work.kind = "login" /\ work.version # account[home].version]
           sessions == IF work.kind = "change" THEN Ended(SessionsOf(home)) ELSE session
           opened == [stage |-> "open", created |-> work.created,
                      gen |-> pair.gen, endedAt |-> sessions[work.sid].endedAt]
<1> USE DEF CInv
<1>1. /\ now \in Nat /\ now \in Times /\ work \in Work /\ Holds(w) /\ At(w) = "minting"
      /\ edits \in Nat /\ edits <= MaxEdits
  BY Numbers DEF TypeOK, Times, Mint, Minting, At
<1>2. work.sid \in Sessions /\ home \in Schemas /\ work.sid = Sid(w) /\ home = HomeOf(w)
  BY <1>1, RequestAssumption DEF Holds, Sid, HomeOf
<1>3. /\ work.since \in Nat /\ work.skew \in Nat /\ work.skew <= Skew /\ work.created \in Nat
      /\ work.version \in Versions /\ work.roles \in SUBSET Roles
  BY <1>1, Numbers DEF Work, Times, Clocks
<1>4. /\ work.since <= now /\ now <= work.since + RequestTime
      /\ work.since + work.skew < work.created + AbsoluteLifetime
      /\ \A r \in work.roles : r \in account[home].roles \/ work.since <= lost[home][r]
  BY <1>1, <1>2 DEF Holds
<1>5. /\ pairs' = pairs \union {pair}
      /\ session' = [sessions EXCEPT ![work.sid] = opened]
      /\ account' = IF work.kind = "change"
                    THEN [account EXCEPT ![home].version = work.version] ELSE account
      /\ worker' = [worker EXCEPT ![w] = Idle]
      /\ UNCHANGED <<now, edits, denied, lost>>
  BY DEF Mint, Release
<1>6. Clock(w) = now + work.skew /\ Clock(w) \in Clocks /\ Clock(w) \in Nat
  BY <1>1, <1>3, Numbers DEF Clock, Clocks, Times
<1>7. RefreshDeadline(w) \in Nat /\ RefreshDeadline(w) <= work.created + AbsoluteLifetime
  BY <1>3, <1>6, Numbers DEF RefreshDeadline, Lesser
<1>8. pair \in Pair
  <2>1. session[work.sid].gen \in Nat
    BY <1>2 DEF TypeOK, Session
  <2>2. pair.raced \in BOOLEAN
    OBVIOUS
  <2> QED BY <1>2, <1>3, <1>6, <1>7, <2>1 DEF Pair
<1>9. /\ sessions \in [Sessions -> Session]
      /\ \A sid \in Sessions :
            /\ sessions[sid].created = session[sid].created
            /\ sessions[sid].stage = "unused" <=> session[sid].stage = "unused"
            /\ sessions[sid] = session[sid] \/ sessions[sid].endedAt = now
  BY <1>1, EndedEvolves DEF TypeOK
<1>10. opened \in Session
  BY <1>1, <1>2, <1>8, <1>9 DEF Session, Pair, Work
<1> HIDE DEF sessions, opened, pair
<1>11. session' \in [Sessions -> Session] /\ session'[work.sid] = opened
       /\ \A sid \in Sessions \ {work.sid} : session'[sid] = sessions[sid]
  BY <1>2, <1>5, <1>9, <1>10
<1>12. opened.stage = "open" /\ opened.created = work.created
  BY DEF opened
<1>13. /\ account' \in [Schemas -> Account]
       /\ \A s \in Schemas : account'[s].roles = account[s].roles
       /\ \A s \in Schemas :
             \/ account'[s].version = account[s].version
             \/ s = home /\ account'[s].version = work.version /\ work.kind = "change"
  <2> DEFINE superseded == [account[home] EXCEPT !.version = work.version]
  <2>1. CASE work.kind = "change"
    <3>1. account[home] \in Account
      BY <1>2 DEF TypeOK
    <3>2. /\ superseded \in Account
          /\ superseded.roles = account[home].roles /\ superseded.version = work.version
      BY <1>3, <3>1 DEF Account
    <3>3. account' = [account EXCEPT ![home] = superseded]
      BY <1>5, <2>1, Zenon
    <3> HIDE DEF superseded
    <3> QED BY <1>2, <2>1, <3>2, <3>3 DEF TypeOK
  <2>2. CASE work.kind # "change"
    <3>1. account' = account
      BY <1>5, <2>2, Zenon
    <3> QED BY <3>1 DEF TypeOK
  <2> QED BY <2>1, <2>2
<1>14. TypeOK'
  <2>1. worker' \in [Workers -> Work]
    BY <1>5, IdleIsWork DEF TypeOK
  <2> QED BY <1>5, <1>8, <1>11, <1>13, <2>1 DEF TypeOK
<1>15. worker'[w].stage = "idle" /\ \A v \in Workers \ {w} : worker'[v] = worker[v]
  BY <1>5 DEF TypeOK, Idle
<1>16. ASSUME NEW v \in Workers PROVE Holds(v)'
  <2> SUFFICES ASSUME v # w, At(v) # "idle" PROVE Holds(v)'
    BY <1>15 DEF Holds, At
  <2>1. Holds(v) /\ Sid(v) \in Sessions \ {work.sid} /\ worker'[v] = worker[v]
    BY <1>1, <1>2, <1>15 DEF Holds, Apart
  <2>2. HomeOf(v) \in Schemas
    BY <2>1, RequestAssumption DEF HomeOf
  <2>3. /\ session'[Sid(v)].created = session[Sid(v)].created
        /\ session'[Sid(v)].stage = "unused" <=> session[Sid(v)].stage = "unused"
    BY <1>9, <1>11, <2>1
  <2>4. At(v) = "minting" => account'[HomeOf(v)].version = account[HomeOf(v)].version
    BY <1>1, <1>2, <1>13, <2>2 DEF Apart
  <2>5. At(v) \in {"account", "minting"}
    BY DEF At, TypeOK, Work
  <2>6. At(v)' = At(v) /\ Sid(v)' = Sid(v) /\ HomeOf(v)' = HomeOf(v)
    BY <2>1 DEF At, Sid, HomeOf
  <2>7. account'[HomeOf(v)].roles = account[HomeOf(v)].roles
    BY <1>13, <2>2
  <2>8. UNCHANGED <<now, edits, lost>>
    BY <1>5
  <2>9. CASE At(v) = "account"
    BY <2>1, <2>3, <2>6, <2>9 DEF Holds
  <2>10. CASE At(v) = "minting"
    BY <2>1, <2>3, <2>4, <2>6, <2>7, <2>8, <2>10 DEF Holds
  <2> QED BY <2>5, <2>9, <2>10
<1>17. Apart'
  BY <1>15 DEF Apart, At, Sid, HomeOf
<1>18. VersionsFit'
  <2>1. work.kind = "change" => work.version <= edits
    BY <1>1 DEF Holds, At
  <2> QED BY <1>5, <1>13, <2>1 DEF VersionsFit
<1>19. ASSUME NEW p \in pairs' PROVE p.iat <= now' + Skew /\ SessionFits(p)' /\ RolesFit(p)'
  <2>1. CASE p \in pairs
    <3>1. /\ p \in Pair /\ p.sid \in Sessions /\ p.iat \in Nat /\ p.iat <= now + Skew
          /\ SessionFits(p) /\ RolesFit(p) /\ Home[p.sid] \in Schemas
      BY <2>1, Numbers, RequestAssumption DEF TypeOK, Pair, PairsFit, Clocks
    <3>2. RolesFit(p)'
      BY <1>5, <1>13, <3>1 DEF RolesFit
    <3>3. CASE p.sid = work.sid
      <4>1. work.created = session[p.sid].created
        BY <1>1, <1>2, <3>1, <3>3 DEF Holds, SessionFits
      <4> QED BY <1>5, <1>11, <1>12, <3>1, <3>2, <3>3, <4>1 DEF SessionFits, Standing
    <3>4. CASE p.sid # work.sid
      <4>1. session'[p.sid] = sessions[p.sid]
        BY <1>11, <3>1, <3>4
      <4>2. SessionFits(p)'
        BY <1>1, <1>9, <3>1, <4>1, Numbers DEF SessionFits, Standing
      <4> QED BY <1>5, <3>1, <3>2, <4>2
    <3> QED BY <3>3, <3>4
  <2>2. CASE p = pair
    <3>1. /\ p.sid = work.sid /\ p.iat = now + work.skew /\ p.roles = work.roles
          /\ p.refreshExp <= work.created + AbsoluteLifetime
      BY <1>6, <1>7, <2>2 DEF pair
    <3>2. p.iat < work.created + AbsoluteLifetime + RequestTime
      BY <1>1, <1>3, <1>4, <3>1, Numbers
    <3>3. ASSUME NEW r \in p.roles
          PROVE  r \in account'[home].roles \/ p.iat <= lost'[home][r] + Skew + RequestTime
      <4>1. lost[home][r] \in Int
        BY <1>2, <1>3, <3>1, <3>3 DEF TypeOK
      <4>2. r \in account[home].roles \/ work.since <= lost[home][r]
        BY <1>4, <3>1
      <4> QED BY <1>1, <1>2, <1>3, <1>4, <1>5, <1>13, <3>1, <4>1, <4>2, Numbers
    <3>4. SessionFits(p)'
      BY <1>11, <1>12, <3>1, <3>2 DEF SessionFits, Standing
    <3>5. RolesFit(p)'
      BY <3>1, <3>3 DEF RolesFit
    <3> QED BY <1>1, <1>3, <1>5, <3>1, <3>4, <3>5, Numbers
  <2> QED BY <1>5, <2>1, <2>2
<1>20. PairsFit'
  BY <1>19 DEF PairsFit
<1> QED BY <1>14, <1>16, <1>17, <1>18, <1>20

-----------------------------------------------------------------------------
LEMMA StutterKeeps ==
    ASSUME CInv, UNCHANGED vars
    PROVE  CInv'
<1> USE DEF vars
<1>1. TypeOK'
  BY DEF CInv, TypeOK
<1>2. (\A w \in Workers : Holds(w)') /\ Apart' /\ VersionsFit'
  BY DEF CInv, Holds, Apart, VersionsFit, At, Sid, HomeOf
<1>3. PairsFit'
  BY DEF CInv, PairsFit, SessionFits, RolesFit, Standing
<1> QED BY <1>1, <1>2, <1>3 DEF CInv

LEMMA NextKeeps == CInv /\ [Next]_vars => CInv'
<1> SUFFICES ASSUME CInv, Next PROVE CInv'
  BY StutterKeeps
<1>1. ASSUME NEW w \in Workers, NEW sid \in Sessions, BeginLogin(w, sid) PROVE CInv'
  BY <1>1, BeginLoginKeeps
<1>2. ASSUME NEW w \in Workers, NEW skew \in 0 .. Skew, EstablishSession(w, skew) PROVE CInv'
  BY <1>2, EstablishSessionKeeps
<1>3. ASSUME NEW w \in Workers, Mint(w) \/ Die(w) PROVE CInv'
  BY <1>3, MintKeeps, DieKeeps
<1>4. ASSUME NEW p \in pairs, NEW s \in Schemas, NEW q \in AsMinted(p, "refresh", s),
             RefuseRedeem(q) \/ \E w \in Workers : Redeem(w, q)
      PROVE  CInv'
  BY <1>4, RefuseRedeemKeeps, RedeemKeeps
<1>5. ASSUME NEW p \in pairs, NEW s \in Schemas, NEW q \in AsMinted(p, "access", s),
             \/ Logout(q) \/ RevokeAll(s, {Id(p)})
             \/ \E sid \in Sessions :
                   RevokeSession(q, sid) \/ \E w \in Workers : BeginChange(w, q, sid)
      PROVE  CInv'
  <2>1. q.pair = p /\ Id(p) \in Sessions \X Nat
    BY Sent, Numbers DEF CInv, TypeOK, Times, Pair, Id
  <2>2. CASE Logout(q)
    BY <2>1, <2>2, EndKeeps DEF Logout, CInv, TypeOK
  <2>3. CASE RevokeAll(s, {Id(p)})
    BY <2>1, <2>3, RevokeAllKeeps
  <2>4. ASSUME NEW sid \in Sessions, RevokeSession(q, sid) PROVE CInv'
    BY <2>4, EndKeeps DEF RevokeSession, CInv, TypeOK
  <2>5. ASSUME NEW sid \in Sessions, NEW w \in Workers, BeginChange(w, q, sid) PROVE CInv'
    BY <2>5, BeginChangeKeeps
  <2> QED BY <1>5, <2>2, <2>3, <2>4, <2>5
<1>6. ASSUME NEW s \in Used,
             \/ RevokeAll(s, {})
             \/ \E roles \in SUBSET Roles, live \in BOOLEAN : EditAccount(s, roles, live)
             \/ \E r \in Roles : DeleteRole(s, r)
      PROVE  CInv'
  <2>1. s \in Schemas
    BY RequestAssumption DEF Used
  <2>2. CASE RevokeAll(s, {})
    BY <2>1, <2>2, RevokeAllKeeps
  <2>3. ASSUME NEW roles \in SUBSET Roles, NEW live \in BOOLEAN, EditAccount(s, roles, live)
        PROVE  CInv'
    BY <2>1, <2>3, EditKeeps DEF EditAccount
  <2>4. ASSUME NEW r \in Roles, DeleteRole(s, r) PROVE CInv'
    BY <2>1, <2>4, DeleteRoleKeeps
  <2> QED BY <1>6, <2>2, <2>3, <2>4
<1> QED BY <1>1, <1>2, <1>3, <1>4, <1>5, <1>6, TickKeeps DEF Next

\* Sessions, tokens, accounts and minting requests agree, whatever the bounds.
THEOREM Invariance == Spec => []CInv
<1> QED BY InitCInv, NextKeeps, PTL DEF Spec

\* Every variable keeps its type.
THEOREM TypeCorrect == Spec => []TypeOK
<1>1. CInv => TypeOK
  BY DEF CInv
<1> QED BY <1>1, Invariance, PTL

-----------------------------------------------------------------------------
\* More roles permit more.
LEMMA PermitsGrows ==
    ASSUME NEW view, NEW small \in SUBSET Roles, NEW large \in SUBSET Roles, small \subseteq large,
           NEW host, Permits(view, small, host)
    PROVE  Permits(view, large, host)
<1>1. ScopesFor(small) \subseteq ScopesFor(large)
  BY DEF ScopesFor
<1>2. \A scope : Covered(scope, ScopesFor(small)) => Covered(scope, ScopesFor(large))
  BY <1>1 DEF Covered
<1>3. view.need \intersect small # {} => view.need \intersect large # {}
  OBVIOUS
<1> QED BY <1>2, <1>3 DEF Permits

\* A pair whose access token still passes its dates was minted less than its
\* lifetime and the leeway ago.
LEMMA StillTimely ==
    ASSUME CInv, NEW p \in pairs, NEW s \in Schemas, NEW q \in AsMinted(p, "access", s),
           NEW checks, "exp" \in checks, Passes(checks, q, "access")
    PROVE  p.iat \in Nat /\ now \in Nat /\ now < p.iat + AccessLifetime + Leeway
<1>1. now \in Nat /\ p \in Pair /\ p.iat \in Nat
  BY Numbers DEF CInv, TypeOK, Times, Pair, Clocks
<1>2. q.pair = p /\ q.type = "access" /\ q.clock \in Nat /\ now <= q.clock
  BY <1>1, Sent
<1>3. ~(p.iat + AccessLifetime <= q.clock - Leeway)
  BY <1>2, Timely
<1> QED BY <1>1, <1>2, <1>3, Numbers

\* What a request may do on roles it lost, and what a session that ended still
\* counts for, is over after Fade, whatever the lifetimes and the clocks.
THEOREM AuthorityDoesFade == Spec => []AuthorityFades
<1>1. CInv => AuthorityFades
  <2> SUFFICES ASSUME CInv, NEW p \in pairs, NEW s \in Schemas, NEW q \in AsMinted(p, "access", s)
               PROVE  /\ Authenticates(q) => \A view \in Views :
                            Permits(view, p.roles, s) => Permits(view, RecentRoles(s), s)
                      /\ Passes(Introspected, q, "access") =>
                            Standing(p.sid) \/ Recently(session[p.sid].endedAt)
    BY DEF AuthorityFades
  <2>1. p \in Pair /\ SessionFits(p) /\ RolesFit(p)
    BY DEF CInv, TypeOK, PairsFit
  <2>2. ASSUME Authenticates(q) PROVE p.roles \subseteq RecentRoles(s)
    <3>1. Passes(Authenticated, q, "access") /\ {"exp", "schema"} \subseteq Authenticated
      BY <2>2 DEF Authenticates, Authenticated, Decoded, Dates
    <3>2. p.iat \in Nat /\ now \in Nat /\ now < p.iat + AccessLifetime + Leeway
      BY <3>1, StillTimely
    <3>3. Home[p.sid] = s
      BY <3>1, <3>2, Sent, Addressed
    <3> SUFFICES ASSUME NEW r \in p.roles PROVE r \in RecentRoles(s)
      OBVIOUS
    <3>4. r \in account[s].roles \/ p.iat <= lost[s][r] + Skew + RequestTime
      BY <2>1, <3>3 DEF RolesFit
    <3>5. r \in Roles /\ lost[s][r] \in Int
      BY <2>1 DEF CInv, TypeOK, Pair
    <3> QED BY <3>2, <3>4, <3>5, Numbers DEF RecentRoles, Recently, Fade
  <2>3. ASSUME Authenticates(q), NEW view \in Views, Permits(view, p.roles, s)
        PROVE  Permits(view, RecentRoles(s), s)
    <3>1. p.roles \in SUBSET Roles /\ account[s].roles \in SUBSET Roles
      BY <2>1 DEF Pair, CInv, TypeOK, Account
    <3>2. RecentRoles(s) \in SUBSET Roles
      BY <3>1 DEF RecentRoles
    <3> QED BY <2>2, <2>3, <3>1, <3>2, PermitsGrows
  <2>4. ASSUME Passes(Introspected, q, "access"), ~Standing(p.sid)
        PROVE  Recently(session[p.sid].endedAt)
    <3>1. "exp" \in Introspected
      BY DEF Introspected, Decoded, Dates
    <3>2. p.iat \in Nat /\ now \in Nat /\ now < p.iat + AccessLifetime + Leeway
      BY <2>4, <3>1, StillTimely
    <3>3. p.iat <= session[p.sid].endedAt + Skew
      BY <2>1, <2>4 DEF SessionFits
    <3>4. session[p.sid].endedAt \in Nat
      BY <2>1, Numbers DEF CInv, TypeOK, Pair, Session, Times
    <3> QED BY <3>2, <3>3, <3>4, Numbers DEF Recently, Fade
  <2> QED BY <2>3, <2>4
<1> QED BY <1>1, Invariance, PTL

\* A session stops at its absolute deadline, and its access tokens one lifetime,
\* the leeway and the time of a request later.
THEOREM SessionsDoStop == Spec => []SessionsStop
<1>1. CInv => SessionsStop
  <2> SUFFICES ASSUME CInv, NEW p \in pairs, NEW s \in Schemas
               PROVE  LET deadline == session[p.sid].created + AbsoluteLifetime IN
                      /\ \A q \in AsMinted(p, "refresh", s) : Redeems(q) => now < deadline
                      /\ \A q \in AsMinted(p, "access", s) : Authenticates(q) =>
                            now < deadline + AccessLifetime + Leeway + RequestTime
    BY DEF SessionsStop
  <2>1. /\ p \in Pair /\ SessionFits(p) /\ now \in Nat /\ session[p.sid].created \in Nat
        /\ p.refreshExp \in Nat /\ p.iat \in Nat
    BY Numbers DEF CInv, TypeOK, PairsFit, Times, Pair, Session, Clocks
  <2>2. ASSUME NEW q \in AsMinted(p, "refresh", s), Redeems(q)
        PROVE  now < session[p.sid].created + AbsoluteLifetime
    <3>1. q.pair = p /\ q.clock \in Nat /\ now <= q.clock
      BY <2>1, Sent
    <3>2. ~(p.refreshExp <= q.clock)
      BY <2>2, <3>1, Granted
    <3> QED BY <2>1, <3>1, <3>2, Numbers DEF SessionFits
  <2>3. ASSUME NEW q \in AsMinted(p, "access", s), Authenticates(q)
        PROVE  now < session[p.sid].created + AbsoluteLifetime + AccessLifetime + Leeway + RequestTime
    <3>1. Passes(Authenticated, q, "access") /\ "exp" \in Authenticated
      BY <2>3 DEF Authenticates, Authenticated, Decoded, Dates
    <3>2. now < p.iat + AccessLifetime + Leeway
      BY <3>1, StillTimely
    <3> QED BY <2>1, <3>2, Numbers DEF SessionFits
  <2> QED BY <2>2, <2>3
<1> QED BY <1>1, Invariance, PTL

-----------------------------------------------------------------------------
\* The versions that are compared are numbers.
LEMMA VersionNumbers ==
    ASSUME TypeOK
    PROVE  /\ \A s \in Schemas : account[s].version \in Nat
           /\ \A w \in Workers : worker[w].version \in Nat
           /\ \A p \in pairs : p.version \in Nat /\ p.sid \in Sessions /\ Home[p.sid] \in Schemas
  BY Numbers, RequestAssumption DEF TypeOK, Account, Work, Pair, Versions

LEMMA InitFInv == Init => FInv
  BY DEF Init, FInv, Fresh, At, Idle, DeniedAreOver

\* A request begins or gives up: only its own work has to be looked at.
LEMMA WorkerSettles ==
    ASSUME CInv, FInv, NEW w \in Workers, NEW work, Only(w, work), Fresh(w)'
    PROVE  FInv'
<1> USE DEF Only
<1>1. ASSUME NEW v \in Workers \ {w} PROVE Fresh(v)'
  <2>1. worker'[v] = worker[v]
    BY DEF CInv, TypeOK
  <2> QED BY <2>1 DEF FInv, Fresh, At, Sid, HomeOf
<1>2. DeniedAreOver' /\ \A p \in pairs' : Agrees(p)'
  BY DEF FInv, DeniedAreOver, Over, Agrees, Standing
<1> QED BY <1>1, <1>2 DEF FInv

LEMMA BeginLoginSettles ==
    ASSUME CInv, FInv, NEW w \in Workers, NEW sid \in Sessions, BeginLogin(w, sid)
    PROVE  FInv'
<1> DEFINE work == [stage |-> "account", kind |-> "login", sid |-> sid,
                    version |-> account[Home[sid]].version, roles |-> {}, created |-> 0,
                    since |-> 0, skew |-> 0]
<1>1. Only(w, work)
  BY DEF BeginLogin, Give, Only
<1>2. worker'[w] = work /\ account' = account
  BY <1>1 DEF Only, CInv, TypeOK
<1>3. account[Home[sid]].version \in Nat
  BY VersionNumbers, RequestAssumption DEF CInv
<1>4. Fresh(w)'
  BY <1>2, <1>3 DEF Fresh, At, Sid, HomeOf
<1> QED BY <1>1, <1>4, WorkerSettles

LEMMA EstablishSessionSettles ==
    ASSUME CInv, FInv, NEW w \in Workers, NEW skew, EstablishSession(w, skew)
    PROVE  FInv'
<1> DEFINE work == [worker[w] EXCEPT !.stage = "minting", !.created = now + skew, !.since = now,
                                     !.skew = skew, !.roles = account[Home[worker[w].sid]].roles]
<1>1. Only(w, work)
  BY DEF EstablishSession, Give, Only
<1>2. worker'[w] = work /\ account' = account
  BY <1>1 DEF Only, CInv, TypeOK
<1>3. worker[w] \in Work /\ At(w) = "account" /\ worker[w].kind = "login" /\ Fresh(w)
  BY DEF CInv, TypeOK, Holds, EstablishSession, At, FInv
<1>4. worker'[w].kind = "login" /\ worker'[w].version = worker[w].version
      /\ worker'[w].sid = worker[w].sid
  BY <1>2, <1>3 DEF Work
<1>5. Fresh(w)'
  BY <1>2, <1>3, <1>4 DEF Fresh, At, Sid, HomeOf
<1> QED BY <1>1, <1>5, WorkerSettles

LEMMA DieSettles ==
    ASSUME CInv, FInv, NEW w \in Workers, Die(w)
    PROVE  FInv'
<1>1. Only(w, Idle)
  BY DEF Die, Release, Only
<1>2. worker'[w].stage = "idle"
  BY <1>1 DEF Only, CInv, TypeOK, Idle
<1> QED BY <1>1, <1>2, WorkerSettles DEF Fresh, At

LEMMA RedeemSettles ==
    ASSUME CInv, FInv, NEW w \in Workers, NEW p \in pairs, NEW s \in Schemas,
           NEW q \in AsMinted(p, "refresh", s), Redeem(w, q)
    PROVE  FInv'
<1> DEFINE work == [stage |-> "minting", kind |-> "rotation", sid |-> q.pair.sid,
                    version |-> account[q.host].version, roles |-> account[q.host].roles,
                    created |-> session[q.pair.sid].created, since |-> now,
                    skew |-> q.clock - now]
<1>1. Only(w, work)
  BY DEF Redeem, Give, Only
<1>2. worker'[w] = work /\ account' = account /\ session' = session
  BY <1>1 DEF Only, CInv, TypeOK
<1>3. Home[q.pair.sid] = q.host /\ session[q.pair.sid].stage = "open"
  BY Granted DEF Redeem
<1>4. Fresh(w)'
  BY <1>2, <1>3 DEF Fresh, At, Sid, HomeOf
<1> QED BY <1>1, <1>4, WorkerSettles

LEMMA BeginChangeSettles ==
    ASSUME CInv, FInv, NEW w \in Workers, NEW q, NEW sid \in Sessions, BeginChange(w, q, sid)
    PROVE  FInv'
<1> DEFINE work == [stage |-> "minting", kind |-> "change", sid |-> sid,
                    version |-> account[q.host].version + 1, roles |-> account[q.host].roles,
                    created |-> q.clock, since |-> now, skew |-> q.clock - now]
<1>1. Only(w, work)
  BY DEF BeginChange, Give, Only
<1>2. worker'[w] = work
  BY <1>1 DEF Only, CInv, TypeOK
<1> QED BY <1>1, <1>2, WorkerSettles DEF Fresh, At

\* Whoever may lock a session locks its account.
LEMMA SessionLockIsInAccount ==
    ASSUME NEW sid, ~AccountLocked(Home[sid])
    PROVE  ~SessionLocked(sid)
  BY DEF AccountLocked, SessionLocked

\* What becomes of a session when nothing is minted: it stays, it ends or it
\* lapses, and then no transaction holds it.
Settles(sid) ==
    \/ session'[sid].stage = session[sid].stage
    \/ /\ ~SessionLocked(sid)
       /\ \/ Over(sid)' /\ session[sid].stage # "unused"
          \/ session[sid].stage = "open" /\ session'[sid].stage = "lapsed"

\* Sessions end, tokens are denied with them, and a version that moves leaves no
\* session of its account standing.
LEMMA SessionsSettle ==
    ASSUME CInv, FInv, UNCHANGED <<pairs, worker>>, \A sid \in Sessions : Settles(sid),
           \A s \in Schemas : \/ account'[s].version = account[s].version
                              \/ /\ account'[s].version = account[s].version + 1
                                 /\ ~AccountLocked(s)
                                 /\ \A sid \in SessionsOf(s) : ~Standing(sid)',
           \A id \in denied' \ denied : Over(id[1])'
    PROVE  FInv'
<1>1. ASSUME NEW w \in Workers PROVE Fresh(w)'
  <2> SUFFICES ASSUME At(w) # "idle" PROVE Fresh(w)'
    BY DEF Fresh, At
  <2>1. Sid(w) \in Sessions /\ HomeOf(w) \in Schemas /\ Fresh(w)
    BY RequestAssumption DEF CInv, Holds, HomeOf, FInv
  <2>2. account[HomeOf(w)].version \in Nat /\ worker[w].version \in Nat
    BY <2>1, VersionNumbers DEF CInv
  <2>3. UNCHANGED <<At(w), Sid(w), HomeOf(w), worker[w]>>
    BY DEF At, Sid, HomeOf
  <2>4. ASSUME At(w) = "minting"
        PROVE  /\ session'[Sid(w)].stage = session[Sid(w)].stage
               /\ account'[HomeOf(w)].version = account[HomeOf(w)].version
    <3>1. SessionLocked(Sid(w)) /\ AccountLocked(HomeOf(w))
      BY <2>4 DEF SessionLocked, AccountLocked, Minting, At, Sid, HomeOf
    <3> QED BY <2>1, <3>1 DEF Settles
  <2> QED BY <2>1, <2>2, <2>3, <2>4 DEF Fresh
<1>2. DeniedAreOver'
  <2> SUFFICES ASSUME NEW id \in denied PROVE Over(id[1])'
    BY DEF DeniedAreOver
  <2>1. id[1] \in Sessions /\ Over(id[1])
    BY DEF CInv, TypeOK, FInv, DeniedAreOver
  <2> QED BY <2>1 DEF Settles, Over
<1>3. ASSUME NEW p \in pairs PROVE Agrees(p)'
  <2>1. /\ p.sid \in Sessions /\ Home[p.sid] \in Schemas /\ Agrees(p)
        /\ p.version \in Nat /\ account[Home[p.sid]].version \in Nat
    BY VersionNumbers DEF CInv, FInv
  <2>2. session[p.sid].stage # "unused" /\ p.sid \in SessionsOf(Home[p.sid])
    BY <2>1 DEF CInv, PairsFit, SessionFits, SessionsOf
  <2>3. Standing(p.sid)' => Standing(p.sid)
    BY <2>1, <2>2 DEF Settles, Standing, Over
  <2> QED BY <2>1, <2>2, <2>3 DEF Agrees
<1> QED BY <1>1, <1>2, <1>3 DEF FInv

\* Ending sessions leaves them as they were or over.
LEMMA EndedSettles ==
    ASSUME TypeOK, NEW sids, NEW sid \in Sessions
    PROVE  /\ \/ Ended(sids)[sid].stage = session[sid].stage
              \/ Standing(sid) /\ Ended(sids)[sid].stage = "ended"
           /\ sid \notin sids => Ended(sids)[sid] = session[sid]
           /\ sid \in sids => Ended(sids)[sid].stage \notin {"open", "lapsed"}
           /\ sid \in sids /\ session[sid].stage # "unused" =>
                 Ended(sids)[sid].stage \in {"ended", "compromised"}
<1> DEFINE ended == [session[sid] EXCEPT !.stage = "ended", !.endedAt = now]
<1>1. session[sid] \in Session
  BY DEF TypeOK
<1>2. session[sid].stage \in {"unused", "open", "lapsed", "ended", "compromised"}
      /\ ended.stage = "ended"
  BY <1>1 DEF Session
<1> HIDE DEF ended
<1>3. Ended(sids)[sid] = IF sid \in sids /\ Standing(sid) THEN ended ELSE session[sid]
  BY DEF Ended, ended
<1>4. CASE sid \in sids /\ Standing(sid)
  BY <1>2, <1>3, <1>4
<1>5. CASE ~(sid \in sids /\ Standing(sid))
  <2>1. Ended(sids)[sid] = session[sid]
    BY <1>3, <1>5, Zenon
  <2> QED BY <1>2, <1>5, <2>1 DEF Standing
<1> QED BY <1>4, <1>5

LEMMA RefuseRedeemSettles ==
    ASSUME CInv, FInv, NEW p \in pairs, NEW s \in Schemas,
           NEW q \in AsMinted(p, "refresh", s), RefuseRedeem(q)
    PROVE  FInv'
<1>1. /\ p.sid \in Sessions /\ q.pair = p /\ session[p.sid].stage # "unused"
      /\ session \in [Sessions -> Session]
  BY Sent, Numbers DEF CInv, TypeOK, Times, Pair, PairsFit, SessionFits
<1>2. UNCHANGED <<pairs, worker, account, denied>>
  BY DEF RefuseRedeem
<1>3. Home[p.sid] = q.host
  <2>1. CASE Passes(Redeemed \ {"overdue", "account"}, q, "refresh")
    BY <1>1, <2>1, Addressed DEF Redeemed, Decoded
  <2>2. CASE Passes(Redeemed \ {"rotated", "status", "overdue", "account"}, q, "refresh")
    BY <1>1, <2>2, Addressed DEF Redeemed, Decoded
  <2> QED BY <2>1, <2>2 DEF RefuseRedeem
<1>4. ~SessionLocked(p.sid)
  BY <1>3, SessionLockIsInAccount DEF RefuseRedeem
<1>5. \A sid \in Sessions : Settles(sid)
  <2>1. CASE /\ Passes(Redeemed \ {"overdue", "account"}, q, "refresh")
             /\ session' = [session EXCEPT ![p.sid].stage = "lapsed"]
    <3>1. ~Fails("status", q, "refresh")
      BY <2>1 DEF Passes, Redeemed, Rows
    <3>2. session[p.sid].stage = "open"
      BY <1>1, <3>1 DEF Fails, Spent, Dates, Accounts, Rows
    <3> QED BY <1>1, <1>4, <2>1, <3>2 DEF Settles, Session
  <2>2. CASE session' = [Ended({p.sid}) EXCEPT ![p.sid].stage = "compromised"]
    <3> DEFINE ended == Ended({p.sid})
    <3>1. ended \in [Sessions -> Session] /\ \A sid \in Sessions \ {p.sid} : ended[sid] = session[sid]
      BY EndedEvolves, EndedSettles DEF CInv, TypeOK
    <3> HIDE DEF ended
    <3>2. session' = [ended EXCEPT ![p.sid].stage = "compromised"]
      BY <2>2 DEF ended
    <3>3. \A sid \in Sessions \ {p.sid} : session'[sid] = session[sid]
      BY <3>1, <3>2
    <3>4. session'[p.sid].stage = "compromised"
      BY <1>1, <3>1, <3>2 DEF Session
    <3> QED BY <1>1, <1>4, <3>3, <3>4 DEF Settles, Over
  <2> QED BY <1>1, <2>1, <2>2 DEF RefuseRedeem
<1> QED BY <1>2, <1>5, SessionsSettle

\* A logout, of the token's session or of another one.
LEMMA EndSettles ==
    ASSUME CInv, FInv, NEW sid \in Sessions, ~SessionLocked(sid), session' = Ended({sid}),
           UNCHANGED <<pairs, worker, account>>,
           \A id \in denied' \ denied : id[1] = sid /\ session[sid].stage # "unused"
    PROVE  FInv'
<1>1. \A other \in Sessions : Settles(other)
  BY EndedSettles DEF CInv, Settles, Over, Standing
<1>2. \A id \in denied' \ denied : Over(id[1])'
  BY EndedSettles DEF CInv, Over
<1> QED BY <1>1, <1>2, SessionsSettle

LEMMA RevokeAllSettles ==
    ASSUME CInv, FInv, NEW s \in Schemas, NEW tokens, RevokeAll(s, tokens),
           \A id \in tokens : /\ id[1] \in Sessions /\ Home[id[1]] = s
                              /\ session[id[1]].stage # "unused"
    PROVE  FInv'
<1>1. /\ session' = Ended(SessionsOf(s)) /\ denied' = denied \union tokens
      /\ UNCHANGED <<pairs, worker>> /\ ~AccountLocked(s)
  BY DEF RevokeAll
<1>2. ASSUME NEW sid \in Sessions PROVE Settles(sid)
  <2>1. CASE Home[sid] = s
    BY <1>1, <2>1, EndedSettles, SessionLockIsInAccount DEF CInv, Settles, Over, Standing
  <2>2. CASE Home[sid] # s
    BY <1>1, <2>2, EndedSettles DEF CInv, Settles, SessionsOf
  <2> QED BY <2>1, <2>2
<1>3. \A sid \in SessionsOf(s) : ~Standing(sid)'
  BY <1>1, EndedSettles DEF CInv, Standing, SessionsOf
<1>4. \A id \in denied' \ denied : Over(id[1])'
  BY <1>1, EndedSettles DEF CInv, Over, SessionsOf
<1>5. /\ account'[s].version = account[s].version + 1
      /\ \A t \in Schemas \ {s} : account'[t] = account[t]
  BY DEF RevokeAll, CInv, TypeOK, Account
<1> QED BY <1>1, <1>2, <1>3, <1>4, <1>5, SessionsSettle

\* Roles and the active flag do not matter here.
LEMMA EditSettles ==
    ASSUME CInv, FInv, UNCHANGED <<session, pairs, denied, worker>>,
           \A s \in Schemas : account'[s].version = account[s].version
    PROVE  FInv'
  BY SessionsSettle DEF Settles

LEMMA EditsKeepVersions ==
    ASSUME CInv, NEW t \in Schemas,
           \/ \E roles, live : EditAccount(t, roles, live)
           \/ \E r : DeleteRole(t, r)
    PROVE  /\ UNCHANGED <<session, pairs, denied, worker>>
           /\ \A s \in Schemas : account'[s].version = account[s].version
<1>1. ASSUME NEW roles, NEW live, EditAccount(t, roles, live)
      PROVE  \A s \in Schemas : account'[s].version = account[s].version
  <2>1. account' = [account EXCEPT ![t].roles = roles, ![t].live = live]
    BY <1>1 DEF EditAccount
  <2> QED BY <2>1 DEF CInv, TypeOK, Account
<1>2. ASSUME NEW r, DeleteRole(t, r)
      PROVE  \A s \in Schemas : account'[s].version = account[s].version
  <2>1. account' = [account EXCEPT ![t].roles = @ \ {r}]
    BY <1>2 DEF DeleteRole
  <2> QED BY <2>1 DEF CInv, TypeOK, Account
<1> QED BY <1>1, <1>2 DEF EditAccount, DeleteRole

\* What a mint leaves: one pair more, its session open, the account at the
\* version of the pair or, if a login was overtaken, past it; and a password
\* change leaves nothing else of the account standing.
LEMMA Minted ==
    ASSUME CInv, FInv, NEW w \in Workers, Mint(w)
    PROVE  \E pair \in Pair :
           /\ pairs' = pairs \union {pair} /\ pair.sid = Sid(w)
           /\ session'[Sid(w)].stage = "open"
           /\ \A sid \in Sessions \ {Sid(w)} :
                 /\ session'[sid] = session[sid] \/ (Over(sid)' /\ Home[sid] = HomeOf(w))
                 /\ worker[w].kind = "change" /\ Home[sid] = HomeOf(w) => ~Standing(sid)'
                 /\ Over(sid) => Over(sid)'
           /\ \A s \in Schemas \ {HomeOf(w)} : account'[s].version = account[s].version
           /\ \/ /\ worker[w].kind # "change"
                 /\ account'[HomeOf(w)].version = account[HomeOf(w)].version
              \/ /\ worker[w].kind = "change"
                 /\ account'[HomeOf(w)].version = account[HomeOf(w)].version + 1
           /\ IF pair.raced THEN pair.version < account'[HomeOf(w)].version
                            ELSE pair.version = account'[HomeOf(w)].version
           /\ UNCHANGED denied
           /\ worker' = [worker EXCEPT ![w] = Idle]
<1> DEFINE work == worker[w]
           home == Home[work.sid]
           pair == [sid |-> work.sid, gen |-> session[work.sid].gen + 1,
                    roles |-> work.roles, version |-> work.version, iat |-> Clock(w),
                    refreshExp |-> RefreshDeadline(w),
                    raced |-> work.kind = "login" /\ work.version # account[home].version]
           sessions == IF work.kind = "change" THEN Ended(SessionsOf(home)) ELSE session
           opened == [stage |-> "open", created |-> work.created,
                      gen |-> pair.gen, endedAt |-> sessions[work.sid].endedAt]
<1> USE DEF CInv
<1>1. CInv'
  BY MintKeeps
<1>2. /\ work \in Work /\ Holds(w) /\ Fresh(w) /\ At(w) = "minting"
      /\ work.kind \in {"login", "rotation", "change"}
  BY DEF TypeOK, Mint, Minting, At, FInv, Work
<1>3. /\ work.sid \in Sessions /\ home \in Schemas /\ work.sid = Sid(w) /\ home = HomeOf(w)
      /\ work.version \in Nat /\ account[home].version \in Nat
  BY <1>2, RequestAssumption, VersionNumbers DEF Holds, Sid, HomeOf
<1>4. /\ pairs' = pairs \union {pair}
      /\ session' = [sessions EXCEPT ![work.sid] = opened]
      /\ account' = IF work.kind = "change"
                    THEN [account EXCEPT ![home].version = work.version] ELSE account
      /\ worker' = [worker EXCEPT ![w] = Idle]
      /\ UNCHANGED denied
  BY DEF Mint, Release
<1>5. pair \in Pair
  BY <1>1, <1>4 DEF TypeOK
<1>6. /\ pair.sid = work.sid /\ pair.version = work.version
      /\ pair.raced = (work.kind = "login" /\ work.version # account[home].version)
  OBVIOUS
<1>7. opened.stage = "open"
  OBVIOUS
<1>8. /\ sessions \in [Sessions -> Session]
      /\ \A sid \in Sessions :
            /\ sessions[sid] = session[sid] \/ (sessions[sid].stage = "ended" /\ Home[sid] = home)
            /\ work.kind = "change" /\ Home[sid] = home =>
                  sessions[sid].stage \notin {"open", "lapsed"}
            /\ Over(sid) => sessions[sid].stage \in {"ended", "compromised"}
  <2>1. CASE work.kind = "change"
    <3>1. sessions = Ended(SessionsOf(home))
      BY <2>1
    <3>2. sessions \in [Sessions -> Session]
      BY <3>1, EndedEvolves DEF TypeOK
    <3>3. ASSUME NEW sid \in Sessions, Home[sid] = home
          PROVE  /\ sessions[sid] = session[sid] \/ sessions[sid].stage = "ended"
                 /\ sessions[sid].stage \notin {"open", "lapsed"}
                 /\ Over(sid) => sessions[sid].stage \in {"ended", "compromised"}
      <4>1. sid \in SessionsOf(home) /\ (Over(sid) => session[sid].stage # "unused")
        BY <3>3 DEF SessionsOf, Over
      <4>2. sessions[sid] = session[sid] \/ sessions[sid].stage = "ended"
        BY <3>1 DEF Ended, TypeOK, Session
      <4> QED BY <3>1, <4>1, <4>2, EndedSettles
    <3>4. ASSUME NEW sid \in Sessions, Home[sid] # home
          PROVE  sessions[sid] = session[sid]
      BY <3>1, <3>4, EndedSettles DEF SessionsOf
    <3> HIDE DEF sessions
    <3> QED BY <3>2, <3>3, <3>4 DEF Over
  <2>2. CASE work.kind # "change"
    BY <2>2 DEF TypeOK, Over
  <2> QED BY <2>1, <2>2
<1> HIDE DEF sessions, opened, pair
<1>9. /\ session'[work.sid] = opened
      /\ \A sid \in Sessions \ {work.sid} : session'[sid] = sessions[sid]
  BY <1>3, <1>4, <1>8
<1>10. /\ \A s \in Schemas \ {home} : account'[s].version = account[s].version
       /\ work.kind = "change" => account'[home].version = work.version
       /\ work.kind # "change" => account'[home].version = account[home].version
  BY <1>3, <1>4 DEF TypeOK, Account
<1>11. work.kind = "change" => work.version = account[home].version + 1
  BY <1>2, <1>3 DEF Holds, At
<1>12. work.kind = "rotation" => work.version = account[home].version
  BY <1>2, <1>3 DEF Fresh, At
<1>13. work.kind = "login" => work.version <= account[home].version
  BY <1>2, <1>3 DEF Fresh, At
<1>14. IF pair.raced THEN pair.version < account'[home].version
                     ELSE pair.version = account'[home].version
  <2>1. pair.raced <=> work.kind = "login" /\ work.version # account[home].version
    BY <1>6
  <2>2. CASE pair.raced
    BY <1>3, <1>6, <1>10, <1>13, <2>1, <2>2
  <2>3. CASE ~pair.raced
    BY <1>2, <1>3, <1>6, <1>10, <1>11, <1>12, <2>1, <2>3
  <2> QED BY <2>2, <2>3
<1>15. \A sid \in Sessions \ {work.sid} :
          /\ session'[sid] = session[sid] \/ (Over(sid)' /\ Home[sid] = home)
          /\ work.kind = "change" /\ Home[sid] = home => ~Standing(sid)'
          /\ Over(sid) => Over(sid)'
  BY <1>8, <1>9 DEF Over, Standing
<1>16. WITNESS pair \in Pair
<1> QED BY <1>3, <1>4, <1>6, <1>7, <1>9, <1>10, <1>11, <1>14, <1>15

LEMMA MintSettles ==
    ASSUME CInv, FInv, NEW w \in Workers, Mint(w)
    PROVE  FInv'
<1>1. PICK pair \in Pair :
         /\ pairs' = pairs \union {pair} /\ pair.sid = Sid(w)
         /\ session'[Sid(w)].stage = "open"
         /\ \A sid \in Sessions \ {Sid(w)} :
               /\ session'[sid] = session[sid] \/ (Over(sid)' /\ Home[sid] = HomeOf(w))
               /\ worker[w].kind = "change" /\ Home[sid] = HomeOf(w) => ~Standing(sid)'
               /\ Over(sid) => Over(sid)'
         /\ \A s \in Schemas \ {HomeOf(w)} : account'[s].version = account[s].version
         /\ \/ /\ worker[w].kind # "change"
               /\ account'[HomeOf(w)].version = account[HomeOf(w)].version
            \/ /\ worker[w].kind = "change"
               /\ account'[HomeOf(w)].version = account[HomeOf(w)].version + 1
         /\ IF pair.raced THEN pair.version < account'[HomeOf(w)].version
                          ELSE pair.version = account'[HomeOf(w)].version
         /\ UNCHANGED denied
         /\ worker' = [worker EXCEPT ![w] = Idle]
  BY Minted
<1>2. At(w) = "minting" /\ Holds(w) /\ Fresh(w) /\ Sid(w) \in Sessions /\ HomeOf(w) \in Schemas
  BY RequestAssumption DEF Mint, Minting, At, CInv, FInv, Holds, HomeOf
<1>3. \/ session[Sid(w)].stage = "unused"
      \/ worker[w].kind = "rotation" /\ session[Sid(w)].stage = "open"
  BY <1>2 DEF Holds, Fresh
<1>4. worker'[w].stage = "idle" /\ \A v \in Workers \ {w} : worker'[v] = worker[v]
  BY <1>1 DEF CInv, TypeOK, Idle
<1>5. ASSUME NEW v \in Workers PROVE Fresh(v)'
  <2> SUFFICES ASSUME v # w, At(v) # "idle" PROVE Fresh(v)'
    BY <1>4 DEF Fresh, At
  <2>1. /\ Sid(v) \in Sessions \ {Sid(w)} /\ HomeOf(v) \in Schemas /\ Fresh(v)
        /\ At(v) = "minting" => HomeOf(v) # HomeOf(w)
    BY <1>2, RequestAssumption DEF CInv, Apart, Holds, HomeOf, FInv
  <2>2. account[HomeOf(v)].version \in Nat /\ worker[v].version \in Nat
    BY <2>1, VersionNumbers DEF CInv
  <2>3. UNCHANGED <<At(v), Sid(v), HomeOf(v), worker[v]>>
    BY <1>4 DEF At, Sid, HomeOf
  <2>4. At(v) = "minting" => session'[Sid(v)] = session[Sid(v)]
    BY <1>1, <2>1 DEF HomeOf
  <2>5. \/ account'[HomeOf(v)].version = account[HomeOf(v)].version
        \/ HomeOf(v) = HomeOf(w) /\ account'[HomeOf(v)].version = account[HomeOf(v)].version + 1
    BY <1>1, <2>1
  <2> QED BY <2>1, <2>2, <2>3, <2>4, <2>5 DEF Fresh
<1>6. DeniedAreOver'
  <2> SUFFICES ASSUME NEW id \in denied PROVE Over(id[1])'
    BY <1>1 DEF DeniedAreOver
  <2>1. id[1] \in Sessions /\ Over(id[1])
    BY DEF CInv, TypeOK, FInv, DeniedAreOver
  <2> QED BY <1>1, <1>3, <2>1 DEF Over
<1>7. ASSUME NEW p \in pairs' PROVE Agrees(p)'
  <2>1. CASE p = pair
    BY <1>1, <2>1 DEF Agrees, HomeOf
  <2>2. CASE p \in pairs
    <3>1. /\ p.sid \in Sessions /\ Home[p.sid] \in Schemas /\ Agrees(p)
          /\ p.version \in Nat /\ account[Home[p.sid]].version \in Nat
      BY <2>2, VersionNumbers DEF CInv, FInv
    <3>2. session[p.sid].stage # "unused"
      BY <2>2 DEF CInv, PairsFit, SessionFits
    <3>3. Standing(p.sid)' => Standing(p.sid)
      BY <1>1, <1>3, <3>1, <3>2 DEF Standing, Over
    <3>4. CASE Home[p.sid] # HomeOf(w) \/ worker[w].kind # "change"
      <4>1. account'[Home[p.sid]].version = account[Home[p.sid]].version
        BY <1>1, <3>1, <3>4
      <4> QED BY <3>1, <3>3, <4>1 DEF Agrees
    <3>5. CASE Home[p.sid] = HomeOf(w) /\ worker[w].kind = "change"
      <4>1. p.sid # Sid(w)
        BY <1>3, <3>2, <3>5
      <4>2. ~Standing(p.sid)'
        BY <1>1, <3>1, <3>5, <4>1
      <4>3. account'[Home[p.sid]].version = account[Home[p.sid]].version + 1
        BY <1>1, <3>5
      <4> QED BY <3>1, <4>2, <4>3 DEF Agrees
    <3> QED BY <3>4, <3>5
  <2> QED BY <1>1, <2>1, <2>2
<1> QED BY <1>5, <1>6, <1>7 DEF FInv

LEMMA NextSettles == CInv /\ FInv /\ [Next]_vars => FInv'
<1> SUFFICES ASSUME CInv, FInv, [Next]_vars PROVE FInv'
  OBVIOUS
<1>1. ASSUME NEW w \in Workers, NEW sid \in Sessions, BeginLogin(w, sid) PROVE FInv'
  BY <1>1, BeginLoginSettles
<1>2. ASSUME NEW w \in Workers, NEW skew \in 0 .. Skew, EstablishSession(w, skew) PROVE FInv'
  BY <1>2, EstablishSessionSettles
<1>3. ASSUME NEW w \in Workers, Mint(w) \/ Die(w) PROVE FInv'
  BY <1>3, MintSettles, DieSettles
<1>4. ASSUME NEW p \in pairs, NEW s \in Schemas, NEW q \in AsMinted(p, "refresh", s),
             RefuseRedeem(q) \/ \E w \in Workers : Redeem(w, q)
      PROVE  FInv'
  BY <1>4, RefuseRedeemSettles, RedeemSettles
<1>5. ASSUME NEW p \in pairs, NEW s \in Schemas, NEW q \in AsMinted(p, "access", s),
             Authenticates(q),
             \/ Logout(q) \/ RevokeAll(s, {Id(p)})
             \/ \E sid \in Sessions :
                   RevokeSession(q, sid) \/ \E w \in Workers : BeginChange(w, q, sid)
      PROVE  FInv'
  <2>1. /\ q.pair = p /\ q.host = s /\ p.sid \in Sessions /\ session[p.sid].stage # "unused"
        /\ Id(p)[1] = p.sid
    BY Sent, Numbers DEF CInv, TypeOK, Times, Pair, Id, PairsFit, SessionFits
  <2>2. Home[p.sid] = s
    BY <1>5, <2>1, Addressed DEF Authenticates, Authenticated, Decoded
  <2>3. CASE Logout(q)
    BY <2>1, <2>3, EndSettles DEF Logout
  <2>4. CASE RevokeAll(s, {Id(p)})
    BY <2>1, <2>2, <2>4, RevokeAllSettles
  <2>5. ASSUME NEW sid \in Sessions, RevokeSession(q, sid) PROVE FInv'
    BY <2>5, EndSettles DEF RevokeSession
  <2>6. ASSUME NEW sid \in Sessions, NEW w \in Workers, BeginChange(w, q, sid) PROVE FInv'
    BY <2>6, BeginChangeSettles
  <2> QED BY <1>5, <2>3, <2>4, <2>5, <2>6
<1>6. ASSUME NEW s \in Used,
             \/ RevokeAll(s, {})
             \/ \E roles \in SUBSET Roles, live \in BOOLEAN : EditAccount(s, roles, live)
             \/ \E r \in Roles : DeleteRole(s, r)
      PROVE  FInv'
  <2>1. s \in Schemas
    BY RequestAssumption DEF Used
  <2>2. CASE RevokeAll(s, {})
    BY <2>1, <2>2, RevokeAllSettles
  <2>3. CASE \/ \E roles \in SUBSET Roles, live \in BOOLEAN : EditAccount(s, roles, live)
             \/ \E r \in Roles : DeleteRole(s, r)
    BY <2>1, <2>3, EditsKeepVersions, EditSettles
  <2> QED BY <1>6, <2>2, <2>3
<1>7. ASSUME Tick \/ UNCHANGED vars PROVE FInv'
  BY <1>7, EditSettles DEF Tick, vars
<1> QED BY <1>1, <1>2, <1>3, <1>4, <1>5, <1>6, <1>7 DEF Next

\* The second invariant, relative to the first.
THEOREM Finality == Spec => []FInv
<1> QED BY InitFInv, Invariance, NextSettles, PTL DEF Spec

-----------------------------------------------------------------------------
LEMMA OrderLength == DOMAIN Order = 1 .. 22
  BY SMT DEF Order

\* A check that fails, with none failing before it, is the one that is answered.
LEMMA FirstDecides ==
    ASSUME NEW checks, NEW q, NEW expected, NEW i \in 1 .. 22,
           Order[i] \in checks, Fails(Order[i], q, expected),
           \A j \in 1 .. i - 1 : ~(Order[j] \in checks /\ Fails(Order[j], q, expected))
    PROVE  Answer(checks, q, expected) = Error(Order[i])
<1> DEFINE Stops(k) == Order[k] \in checks /\ Fails(Order[k], q, expected)
           First(k) == Stops(k) /\ \A j \in 1 .. k - 1 : ~Stops(j)
           first == CHOOSE k \in DOMAIN Order : First(k)
<1>1. DOMAIN Order = 1 .. 22
  BY OrderLength
<1>2. First(i)
  OBVIOUS
<1>3. \A k \in DOMAIN Order : First(k) => k = i
  <2> SUFFICES ASSUME NEW k \in 1 .. 22, First(k) PROVE k = i
    BY <1>1
  <2>1. Stops(k) /\ Stops(i)
    BY <1>2
  <2>2. \A j \in 1 .. k - 1 : ~Stops(j)
    OBVIOUS
  <2>3. \A j \in 1 .. i - 1 : ~Stops(j)
    BY <1>2
  <2> HIDE DEF Stops
  <2>4. ~(i < k) /\ ~(k < i)
    BY <2>1, <2>2, <2>3
  <2> QED BY <2>4
<1>4. first = i
  <2> HIDE DEF First
  <2> QED BY <1>1, <1>2, <1>3
<1>5. ~Passes(checks, q, expected)
  BY DEF Passes
<1>6. Answer(checks, q, expected) =
         IF Passes(checks, q, expected) THEN "passed" ELSE Error(Order[first])
  BY DEF Answer
<1> QED BY <1>4, <1>5, <1>6

LEMMA Places ==
    /\ Order[1] = "header" /\ Order[2] = "kid" /\ Order[3] = "algorithm"
    /\ Order[4] = "signature" /\ Order[5] = "claims" /\ Order[6] = "iat" /\ Order[7] = "exp"
    /\ Order[8] = "issuer" /\ Order[9] = "audience"
  BY DEF Order

\* What is sent as it was minted fails no check of its form, and none of its dates
\* but the last, whichever worker minted it and whichever reads it.
LEMMA WellMade ==
    ASSUME CInv, NEW p \in pairs, NEW type, NEW s, NEW q \in AsMinted(p, type, s), NEW expected
    PROVE  /\ \A check \in Forgeries \union {"claims", "issuer", "version", "iat"} :
                 ~Fails(check, q, expected)
           /\ q.reachable /\ q.defect = "none"
<1>1. q.reachable /\ q.defect = "none"
  BY DEF AsMinted
<1>2. \A check \in Forgeries \union {"claims", "issuer", "version"} : ~Fails(check, q, expected)
  <2> SUFFICES ASSUME NEW check \in Forgeries \union {"claims", "issuer", "version"}
               PROVE  ~Fails(check, q, expected)
    OBVIOUS
  <2>1. check # "none"
    BY DEF Forgeries
  <2>2. Fails(check, q, expected) = Mismatch(check, q, expected)
    BY DEF Fails, Forgeries, Dates, Accounts, Rows
  <2>3. Mismatch(check, q, expected) = (q.defect = check)
    BY DEF Mismatch, Forgeries
  <2> QED BY <1>1, <2>1, <2>2, <2>3
<1>3. ~Fails("iat", q, expected)
  <2>1. now \in Nat /\ p.iat \in Nat /\ p.iat <= now + Skew
    BY Numbers DEF CInv, TypeOK, Times, PairsFit, Pair, Clocks
  <2>2. q.pair = p /\ q.clock \in Nat /\ now <= q.clock
    BY <2>1, Sent
  <2>3. ~(p.iat > q.clock + Leeway)
    BY <2>1, <2>2, Numbers, RequestAssumption
  <2>4. ~Untimely("iat", q)
    BY <2>2, <2>3 DEF Untimely
  <2> QED BY <2>4 DEF Fails, Dates, Accounts, Rows
<1> QED BY <1>1, <1>2, <1>3

\* The checks before the dates, in order.
LEMMA Forgery ==
    ASSUME NEW p, NEW s, NEW q \in Forged(p, s), NEW checks, Forgeries \subseteq checks,
           NEW expected
    PROVE  Answer(checks, q, expected) = Error(q.defect)
<1>1. q.defect \in Forgeries
  BY DEF Forged
<1>2. \A check \in Forgeries : Fails(check, q, expected) <=> q.defect = check
  <2> SUFFICES ASSUME NEW check \in Forgeries
               PROVE  Fails(check, q, expected) <=> q.defect = check
    OBVIOUS
  <2>1. Fails(check, q, expected) = Mismatch(check, q, expected)
    BY DEF Fails, Forgeries, Dates, Accounts, Rows
  <2>2. Mismatch(check, q, expected) = (q.defect = check)
    BY DEF Mismatch, Forgeries
  <2> QED BY <2>1, <2>2
<1>3. \A i \in 1 .. 4 : Order[i] \in Forgeries
  BY Places DEF Forgeries
<1>4. \A i, j \in 1 .. 4 : i # j => Order[i] # Order[j]
  BY Places
<1>5. PICK i \in 1 .. 4 : Order[i] = q.defect
  BY <1>1, Places DEF Forgeries
<1>6. i \in 1 .. 22 /\ \A j \in 1 .. i - 1 : j \in 1 .. 4 /\ j # i
  OBVIOUS
<1>7. Fails(Order[i], q, expected)
  BY <1>2, <1>3, <1>5
<1>8. \A j \in 1 .. i - 1 : ~Fails(Order[j], q, expected)
  BY <1>2, <1>3, <1>4, <1>5, <1>6
<1>9. Answer(checks, q, expected) = Error(Order[i])
  BY <1>3, <1>6, <1>7, <1>8, FirstDecides
<1> QED BY <1>5, <1>9

\* A live token of the other kind stops at its audience.
LEMMA OtherKind ==
    ASSUME CInv, NEW p \in pairs, NEW type, NEW s, NEW q \in AsMinted(p, type, s),
           Exp(q) > q.clock, Exp(q) \in Nat,
           NEW checks, "audience" \in checks, NEW expected, expected # type
    PROVE  Answer(checks, q, expected) = "token_invalid_audience"
<1>1. q.type = type /\ q.clock \in Nat
  BY Sent, Numbers DEF CInv, TypeOK, Times
<1>2. ~Fails("exp", q, expected)
  <2>1. ~Untimely("exp", q)
    BY <1>1, Numbers DEF Untimely
  <2> QED BY <2>1 DEF Fails, Dates, Accounts, Rows
<1>3. \A j \in 1 .. 8 : ~Fails(Order[j], q, expected)
  <2>1. \A j \in 1 .. 8 : \/ Order[j] \in Forgeries \union {"claims", "issuer", "version", "iat"}
                          \/ Order[j] = "exp"
    BY Places DEF Forgeries
  <2> QED BY <1>2, <2>1, WellMade
<1>4. Fails("audience", q, expected)
  BY <1>1 DEF Fails, Mismatch, Dates, Accounts, Rows
<1>5. Answer(checks, q, expected) = Error(Order[9])
  <2>1. 9 \in 1 .. 22 /\ 9 - 1 = 8
    OBVIOUS
  <2> QED BY <1>3, <1>4, <2>1, Places, FirstDecides
<1> QED BY <1>5, Places DEF Error

\* A forgery is named by its defect and the misuse of a live token by its
\* audience, whatever the clocks, as long as they differ by no more than the leeway.
THEOREM MisuseIsAlwaysNamed == Spec => []MisuseIsNamed
<1>1. CInv => MisuseIsNamed
  <2> SUFFICES ASSUME CInv, NEW p \in pairs, NEW s \in Schemas
               PROVE  /\ \A q \in Forged(p, s) :
                            /\ Answer(Authenticated, q, "access") = Error(q.defect)
                            /\ Answer(Redeemed, q, "refresh") = Error(q.defect)
                      /\ \A q \in AsMinted(p, "refresh", s) : Exp(q) > q.clock =>
                            Answer(Authenticated, q, "access") = "token_invalid_audience"
                      /\ \A q \in AsMinted(p, "access", s) : Exp(q) > q.clock =>
                            Answer(Redeemed, q, "refresh") = "token_invalid_audience"
    BY DEF MisuseIsNamed
  <2>1. /\ Forgeries \subseteq Authenticated /\ "audience" \in Authenticated
        /\ Forgeries \subseteq Redeemed /\ "audience" \in Redeemed
    BY DEF Authenticated, Redeemed, Decoded, Defects
  <2>2. now \in Nat /\ p.iat \in Nat /\ p.refreshExp \in Nat
    BY Numbers DEF CInv, TypeOK, Times, Pair, Clocks
  <2>3. ASSUME NEW type \in {"access", "refresh"}, NEW q \in AsMinted(p, type, s)
        PROVE  Exp(q) \in Nat
    <3>1. q.pair = p
      BY <2>2, Sent
    <3> QED BY <2>2, <3>1, Numbers DEF Exp, AccessExp
  <2> QED BY <2>1, <2>3, Forgery, OtherKind
<1> QED BY <1>1, Invariance, PTL

-----------------------------------------------------------------------------
\* While the refresh token of a session is worth something, the access tokens of
\* the session are refused for their age or not at all.
LEMMA OnlyAge ==
    ASSUME CInv, FInv, NEW newest \in pairs, NEW host,
           NEW r \in AsMinted(newest, "refresh", host), Redeems(r),
           NEW p \in pairs, p.sid = newest.sid, ~p.raced,
           NEW q \in AsMinted(p, "access", host),
           NEW check \in Authenticated \ {"exp"}
    PROVE  ~Fails(check, q, "access")
<1>1. now \in Nat
  BY Numbers DEF CInv, TypeOK, Times
<1>2. /\ r.pair = newest /\ r.host = host
      /\ q.pair = p /\ q.type = "access" /\ q.host = host /\ q.defect = "none" /\ q.reachable
  BY <1>1, Sent, WellMade
<1>3. session[p.sid].stage = "open" /\ Home[p.sid] = host
  BY <1>2, Granted
<1>4. ~Fails("account", r, "refresh")
  BY DEF Redeems, Passes, Redeemed
<1>5. account[host].live
  BY <1>2, <1>4 DEF Fails, Withdrawn, Dates, Accounts, Rows
<1>6. p.version = account[host].version
  BY <1>3 DEF FInv, Agrees, Standing
<1>7. Id(p) \notin denied
  BY <1>3 DEF FInv, DeniedAreOver, Over, Id
<1>8. CASE check \in Forgeries \union {"claims", "issuer", "version", "iat"}
  BY <1>8, WellMade
<1>9. CASE check \in {"audience", "type", "own claims", "schema", "tenant"}
  <2>1. Fails(check, q, "access") = Mismatch(check, q, "access")
    BY <1>9 DEF Fails, Dates, Accounts, Rows
  <2>2. ~Mismatch(check, q, "access")
    BY <1>2, <1>3, <1>9 DEF Mismatch
  <2> QED BY <2>1, <2>2
<1>10. CASE check \in {"outage", "denied", "account", "superseded"}
  <2>1. Fails(check, q, "access") = Withdrawn(check, q)
    BY <1>10 DEF Fails, Dates, Accounts, Rows
  <2>2. ~Withdrawn(check, q)
    BY <1>2, <1>5, <1>6, <1>7, <1>10 DEF Withdrawn
  <2> QED BY <2>1, <2>2
<1> QED BY <1>8, <1>9, <1>10 DEF Authenticated, Decoded, Defects, Forgeries, Dates, Accounts

\* A client that refreshes only on token_expired never gives up a session that a
\* refresh would have kept, whatever the interleaving of logins, rotations and
\* revocations: the exception is a login that a revocation overtook.
THEOREM RefusalsAreFinal == Spec => []OtherRefusalsAreFinal
<1>1. CInv /\ FInv => OtherRefusalsAreFinal
  <2> SUFFICES ASSUME CInv, FInv, NEW newest \in pairs,
                      NEW r \in AsMinted(newest, "refresh", Home[newest.sid]), Redeems(r),
                      NEW p \in pairs, p.sid = newest.sid, ~p.raced,
                      NEW q \in AsMinted(p, "access", r.host)
               PROVE  Answer(Authenticated, q, "access") \in {"passed", "token_expired"}
    BY DEF OtherRefusalsAreFinal
  <2>1. r.host = Home[newest.sid]
    BY Sent, Numbers DEF CInv, TypeOK, Times
  <2>2. \A check \in Authenticated \ {"exp"} : ~Fails(check, q, "access")
    BY <2>1, OnlyAge
  <2>3. CASE Fails("exp", q, "access")
    <3>1. "exp" \in Authenticated /\ 7 \in 1 .. 22 /\ 7 - 1 = 6
      BY DEF Authenticated, Decoded, Dates
    <3>2. \A j \in 1 .. 6 : Order[j] # "exp"
      BY Places
    <3>3. Answer(Authenticated, q, "access") = Error(Order[7])
      BY <2>2, <2>3, <3>1, <3>2, Places, FirstDecides
    <3> QED BY <3>3, Places DEF Error
  <2>4. CASE ~Fails("exp", q, "access")
    <3>1. Passes(Authenticated, q, "access")
      BY <2>2, <2>4 DEF Passes
    <3> QED BY <3>1 DEF Answer
  <2> QED BY <2>3, <2>4
<1> QED BY <1>1, Invariance, Finality, PTL

\* The token of an overtaken login stays behind its account for ever.
THEOREM OvertakenLoginsDoFail == Spec => []OvertakenLoginsFailClosed
<1>1. CInv /\ FInv => OvertakenLoginsFailClosed
  <2> SUFFICES ASSUME CInv, FInv, NEW p \in pairs, p.raced, NEW s \in Schemas,
                      NEW q \in AsMinted(p, "access", s), Authenticates(q)
               PROVE  FALSE
    BY DEF OvertakenLoginsFailClosed
  <2>1. q.pair = p /\ q.host = s
    BY Sent, Numbers DEF CInv, TypeOK, Times
  <2>2. Passes(Authenticated, q, "access")
        /\ {"schema", "superseded"} \subseteq Authenticated
    BY DEF Authenticates, Authenticated, Decoded, Accounts
  <2>3. Home[p.sid] = s
    BY <2>1, <2>2, Addressed
  <2>4. ~Fails("superseded", q, "access")
    BY <2>2 DEF Passes
  <2>5. p.version = account[s].version
    BY <2>1, <2>4 DEF Fails, Withdrawn, Dates, Accounts, Rows
  <2>6. p.version < account[s].version /\ p.version \in Nat
    BY <2>3, VersionNumbers DEF CInv, FInv, Agrees
  <2> QED BY <2>5, <2>6
<1> QED BY <1>1, Invariance, Finality, PTL

=============================================================================
