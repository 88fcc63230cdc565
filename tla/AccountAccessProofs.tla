------------------------ MODULE AccountAccessProofs ------------------------
(***************************************************************************)
(* Proofs about AccountAccess: its inductive invariant, and the safety       *)
(* properties that follow from it.                                         *)
(***************************************************************************)
EXTENDS AccountAccess, TLAPS

LEMMA IdleIsRequest == Idle \in Request
  BY AccessAssumption DEF Idle, Request, Ops, Stages, RowStates, Versions, Standings

LEMMA InitAInv == Init => AInv
<1> SUFFICES ASSUME Init PROVE AInv
  OBVIOUS
<1>1. TypeOK
  BY AccessAssumption, IdleIsRequest DEF Init, TypeOK, Versions, Standings, Ages
<1>2. \A w \in Workers : AtOwnStage(w) /\ HoldsBump(w) /\ StillBarred(w)
  BY DEF Init, Idle, AtOwnStage, HoldsBump, StillBarred, Stage
<1> QED BY <1>1, <1>2 DEF AInv

\* What every request relies on outlives a step that leaves its record alone, the
\* version unless it has the row locked, and ages tokens only as it drops them from
\* the denylist.
LEMMA Bystander ==
    ASSUME NEW v \in Workers, AtOwnStage(v), HoldsBump(v), StillBarred(v), req'[v] = req[v],
           lock = v => lock' = v /\ version' = version,
           \A t \in Tokens : age[t] # "live" => age'[t] # "live",
           \A t \in Tokens : t \in denied /\ t \notin denied' => age'[t] # "live"
    PROVE  AtOwnStage(v)' /\ HoldsBump(v)' /\ StillBarred(v)'
<1>1. AtOwnStage(v)'
  BY DEF AtOwnStage, Stage
<1>2. HoldsBump(v)'
  BY DEF HoldsBump, Stage, Seen
<1>3. StillBarred(v)'
  BY DEF StillBarred, Stage, AtOwnStage
<1> QED BY <1>1, <1>2, <1>3

\* A request that takes on a new record leaves the others theirs.
LEMMA OwnRecord ==
    ASSUME TypeOK, NEW w \in Workers, NEW r \in Request, req' = [req EXCEPT ![w] = r]
    PROVE  /\ req' \in [Workers -> Request]
           /\ req'[w] = r
           /\ \A v \in Workers \ {w} : req'[v] = req[v]
  BY DEF TypeOK

\* A worker that has finished relies on nothing.
LEMMA Finished ==
    ASSUME NEW w \in Workers, TypeOK, Finish(w)
    PROVE  /\ req' \in [Workers -> Request]
           /\ AtOwnStage(w)' /\ HoldsBump(w)' /\ StillBarred(w)'
           /\ \A v \in Workers \ {w} : req'[v] = req[v]
<1>1. req'[w] = Idle
  BY DEF Finish, TypeOK
<1> QED BY <1>1, IdleIsRequest DEF Finish, TypeOK, Idle, AtOwnStage, HoldsBump, StillBarred, Stage

\* One worker's step: it has to see to its own part and to leave the others theirs.
LEMMA Alone ==
    ASSUME AInv, NEW w \in Workers, TypeOK',
           \A v \in Workers \ {w} : req'[v] = req[v],
           AtOwnStage(w)' /\ HoldsBump(w)' /\ StillBarred(w)',
           \A v \in Workers \ {w} : lock = v => lock' = v /\ version' = version,
           age' = age, denied \subseteq denied'
    PROVE  AInv'
<1>1. ASSUME NEW v \in Workers \ {w} PROVE AtOwnStage(v)' /\ HoldsBump(v)' /\ StillBarred(v)'
  BY <1>1, Bystander DEF AInv
<1> QED BY <1>1 DEF AInv

-----------------------------------------------------------------------------
LEMMA CallAInv ==
    ASSUME AInv, NEW w \in Workers,
           \/ \E t \in Tokens : BeginCall(w, t)
           \/ CheckDenylist(w) \/ LookUp(w) \/ ReadRow(w) \/ Fill(w) \/ Decide(w) \/ Dispatch(w)
    PROVE  AInv'
<1> USE DEF AInv
<1>1. CASE \E t \in Tokens : BeginCall(w, t)
  <2>1. PICK t \in Tokens : BeginCall(w, t)
    BY <1>1
  <2>2. PICK b \in BOOLEAN : b = (t \in denied)
    <3>1. (t \in denied) \in BOOLEAN
      OBVIOUS
    <3> WITNESS (t \in denied) \in BOOLEAN
    <3> QED OBVIOUS
  <2>3. req' = [req EXCEPT ![w] = [Idle EXCEPT !.op = "call", !.stage = "decoded",
                                               !.token = t, !.barred = b]]
    BY <2>1, <2>2, Zenon DEF BeginCall
  <2>4. [Idle EXCEPT !.op = "call", !.stage = "decoded", !.token = t, !.barred = b] \in Request
    BY <2>2, IdleIsRequest DEF Request, Ops, Stages
  <2>5. TypeOK' /\ \A v \in Workers \ {w} : req'[v] = req[v]
    BY <2>1, <2>3, <2>4, OwnRecord DEF BeginCall, TypeOK, account, tokens
  <2>6. /\ req'[w].op = "call" /\ req'[w].stage = "decoded" /\ req'[w].token = t
        /\ req'[w].barred = b
    BY <2>3, <2>4, OwnRecord DEF Idle
  <2>7. b => t \in denied'
    BY <2>1, <2>2, Zenon DEF BeginCall
  <2>8. AtOwnStage(w)' /\ HoldsBump(w)' /\ StillBarred(w)'
    <3>1. AtOwnStage(w)' /\ HoldsBump(w)'
      BY <2>6 DEF AtOwnStage, HoldsBump, Stage
    <3>2. StillBarred(w)'
      BY <2>6, <2>7 DEF StillBarred, Stage
    <3> QED BY <3>1, <3>2
  <2> QED BY <2>1, <2>5, <2>8, Alone DEF BeginCall, account, tokens
<1>2. CASE CheckDenylist(w)
  <2>1. CASE req[w].token \in denied
    BY <1>2, <2>1, Finished, Alone DEF CheckDenylist, TypeOK, account, tokens
  <2>2. CASE req[w].token \notin denied
    <3>1. /\ req'[w] = [req[w] EXCEPT !.stage = "clear"]
          /\ \A v \in Workers \ {w} : req'[v] = req[v]
      BY <1>2, <2>2 DEF CheckDenylist, Goto, TypeOK
    <3>2. TypeOK'
      BY <1>2, <2>2 DEF CheckDenylist, Goto, TypeOK, Request, Stages, account, tokens
    <3>3. AtOwnStage(w)' /\ HoldsBump(w)' /\ StillBarred(w)'
      BY <1>2, <2>2, <3>1 DEF CheckDenylist, TypeOK, Request, AtOwnStage, HoldsBump,
         StillBarred, Stage, account, tokens
    <3> QED BY <1>2, <3>1, <3>2, <3>3, Alone DEF CheckDenylist, account, tokens
  <2> QED BY <2>1, <2>2
<1>3. CASE LookUp(w)
  <2>1. /\ \/ req'[w] = [req[w] EXCEPT !.stage = "missed"]
           \/ /\ cached # NoEntry
              /\ req'[w] = [req[w] EXCEPT !.stage = "resolved", !.seen = cached]
        /\ req' = [req EXCEPT ![w] = req'[w]]
    BY <1>3 DEF LookUp, Goto, TypeOK
  <2>2. TypeOK'
    BY <1>3, <2>1 DEF LookUp, TypeOK, Request, Stages, account, tokens
  <2>3. AtOwnStage(w)' /\ HoldsBump(w)' /\ StillBarred(w)'
    BY <1>3, <2>1 DEF LookUp, TypeOK, Request, AtOwnStage, HoldsBump, StillBarred, Stage,
       account, tokens
  <2> QED BY <1>3, <2>1, <2>2, <2>3, Alone DEF LookUp, TypeOK, account, tokens
<1>4. CASE ReadRow(w)
  <2>1. CASE standing = "deleted"
    BY <1>4, <2>1, Finished, Alone DEF ReadRow, TypeOK, account, tokens
  <2>2. CASE standing # "deleted"
    <3>1. req'[w] = [req[w] EXCEPT !.stage = "fill", !.seen = Row]
          /\ req' = [req EXCEPT ![w] = req'[w]]
      BY <1>4, <2>2 DEF ReadRow, TypeOK
    <3>2. TypeOK'
      <4>1. Row \in RowStates /\ "fill" \in Stages
        BY DEF TypeOK, Row, RowStates, Stages
      <4>2. [req[w] EXCEPT !.stage = "fill", !.seen = Row] \in Request
        BY <4>1, IdleIsRequest DEF TypeOK, Request
      <4> QED BY <1>4, <3>1, <4>2, OwnRecord DEF ReadRow, TypeOK, account, tokens
    <3>3. AtOwnStage(w)' /\ HoldsBump(w)' /\ StillBarred(w)'
      BY <1>4, <3>1 DEF ReadRow, TypeOK, Request, AtOwnStage, HoldsBump, StillBarred, Stage,
         account, tokens
    <3> QED BY <1>4, <3>1, <3>2, <3>3, Alone DEF ReadRow, TypeOK, account, tokens
  <2> QED BY <2>1, <2>2
<1>5. CASE Fill(w)
  <2>1. req'[w] = [req[w] EXCEPT !.stage = "resolved"] /\ req' = [req EXCEPT ![w] = req'[w]]
    BY <1>5 DEF Fill, Goto, TypeOK
  <2>2. TypeOK'
    BY <1>5, <2>1 DEF Fill, Seen, TypeOK, Request, Stages, account, tokens
  <2>3. AtOwnStage(w)' /\ HoldsBump(w)' /\ StillBarred(w)'
    BY <1>5, <2>1 DEF Fill, TypeOK, Request, AtOwnStage, HoldsBump, StillBarred, Stage,
       account, tokens
  <2> QED BY <1>5, <2>1, <2>2, <2>3, Alone DEF Fill, TypeOK, account, tokens
<1>6. CASE Decide(w)
  <2>1. CASE ~Accepts(w)
    BY <1>6, <2>1, Finished, Alone DEF Decide, TypeOK, account, tokens
  <2>2. CASE Accepts(w)
    <3>1. /\ req'[w] = [req[w] EXCEPT !.stage = "view", !.seen = Idle.seen]
          /\ req' = [req EXCEPT ![w] = req'[w]]
      BY <1>6, <2>2 DEF Decide, TypeOK
    <3>2. TypeOK'
      <4>1. Idle.seen \in RowStates /\ "view" \in Stages
        BY IdleIsRequest DEF Request, Stages
      <4>2. [req[w] EXCEPT !.stage = "view", !.seen = Idle.seen] \in Request
        BY <4>1 DEF TypeOK, Request
      <4> QED BY <1>6, <3>1, <4>2, OwnRecord DEF Decide, TypeOK, account, tokens
    <3>3. AtOwnStage(w)' /\ HoldsBump(w)' /\ StillBarred(w)'
      BY <1>6, <3>1 DEF Decide, TypeOK, Request, AtOwnStage, HoldsBump, StillBarred, Stage,
         account, tokens
    <3> QED BY <1>6, <3>1, <3>2, <3>3, Alone DEF Decide, TypeOK, account, tokens
  <2> QED BY <2>1, <2>2
<1>7. CASE Dispatch(w)
  <2>1. CASE Finish(w)
    BY <1>7, <2>1, Finished, Alone DEF Dispatch, TypeOK, account, tokens
  <2>2. CASE ~Finish(w)
    <3>1. PICK op \in {"logout", "logout_all", "change"}, stage \in {"deny", "bump"} :
             /\ op = "logout" <=> stage = "deny"
             /\ Become(w, op, stage)
      BY <1>7, <2>2 DEF Dispatch
    <3>2. /\ req'[w] = [req[w] EXCEPT !.op = op, !.stage = stage]
          /\ req' = [req EXCEPT ![w] = req'[w]]
      BY <3>1 DEF Become, TypeOK
    <3>3. TypeOK'
      <4>1. op \in Ops /\ stage \in Stages
        BY DEF Ops, Stages
      <4>2. [req[w] EXCEPT !.op = op, !.stage = stage] \in Request
        BY <4>1 DEF TypeOK, Request
      <4> QED BY <1>7, <3>2, <4>2, OwnRecord DEF Dispatch, TypeOK, account, tokens
    <3>4. AtOwnStage(w)' /\ HoldsBump(w)' /\ StillBarred(w)'
      BY <1>7, <3>1, <3>2 DEF Dispatch, TypeOK, Request, AtOwnStage, HoldsBump, StillBarred,
         Stage, account, tokens
    <3> QED BY <1>7, <3>2, <3>3, <3>4, Alone DEF Dispatch, TypeOK, account, tokens
  <2> QED BY <2>1, <2>2
<1> QED BY <1>1, <1>2, <1>3, <1>4, <1>5, <1>6, <1>7

-----------------------------------------------------------------------------
\* Minting only fills a slot of minted.
LEMMA MintTypes ==
    ASSUME TypeOK, NEW jtv \in Versions, Mint(jtv)
    PROVE  minted' \in [Tokens -> Versions \union {-1}]
  BY DEF Mint, TypeOK

LEMMA RevokeAInv ==
    ASSUME AInv, NEW w \in Workers,
           \/ BeginCommand(w) \/ Bump(w) \/ Invalidate(w) \/ DenyPresented(w) \/ CommitChange(w)
    PROVE  AInv'
<1> USE DEF AInv
<1>1. CASE BeginCommand(w)
  <2>1. /\ req'[w] = [req[w] EXCEPT !.op = "command", !.stage = "bump"]
        /\ req' = [req EXCEPT ![w] = req'[w]]
    BY <1>1 DEF BeginCommand, Become, TypeOK
  <2>2. TypeOK'
    <3>1. "command" \in Ops /\ "bump" \in Stages
      BY DEF Ops, Stages
    <3>2. [req[w] EXCEPT !.op = "command", !.stage = "bump"] \in Request
      BY <3>1 DEF TypeOK, Request
    <3> QED BY <1>1, <2>1, <3>2, OwnRecord DEF BeginCommand, TypeOK, account, tokens
  <2>3. AtOwnStage(w)' /\ HoldsBump(w)' /\ StillBarred(w)'
    BY <1>1, <2>1 DEF BeginCommand, TypeOK, Request, AtOwnStage, HoldsBump, StillBarred, Stage,
       account, tokens
  <2> QED BY <1>1, <2>1, <2>2, <2>3, Alone DEF BeginCommand, TypeOK, account, tokens
<1>2. CASE Bump(w)
  <2>1. /\ req'[w] = [req[w] EXCEPT !.stage = "invalidate",
                                    !.seen = [Row EXCEPT !.version = version + 1]]
        /\ req' = [req EXCEPT ![w] = req'[w]]
        /\ version + 1 \in Versions
    <3>1. version + 1 \in Versions
      BY <1>2, AccessAssumption DEF Bump, TypeOK, Versions
    <3>2. req' = [req EXCEPT ![w].stage = "invalidate",
                             ![w].seen = [Row EXCEPT !.version = version + 1]]
      BY <1>2 DEF Bump
    <3> QED BY <3>1, <3>2 DEF TypeOK
  <2>2. [Row EXCEPT !.version = version + 1] \in RowStates
    BY <2>1 DEF Row, RowStates, TypeOK
  <2>3. req'[w] \in Request
    BY <2>1, <2>2 DEF TypeOK, Request, Stages
  <2>4. /\ version' \in Versions /\ lock' \in Workers \union {NoWorker}
        /\ UNCHANGED <<standing, cached, denied, minted, age>>
    BY <1>2, <2>1 DEF Bump, TypeOK, tokens
  <2>5. TypeOK'
    BY <2>1, <2>3, <2>4 DEF TypeOK
  <2>6. AtOwnStage(w)' /\ HoldsBump(w)' /\ StillBarred(w)'
    BY <1>2, <2>1 DEF Bump, TypeOK, Request, AtOwnStage, HoldsBump, StillBarred, Stage, Seen, Row
  <2> QED BY <1>2, <2>1, <2>4, <2>5, <2>6, Alone, AccessAssumption DEF Bump, TypeOK, Unlocked
<1>3. CASE Invalidate(w)
  <2>0. cached' \in {NoEntry, cached} /\ UNCHANGED <<version, standing, lock, denied, minted, age>>
    BY <1>3 DEF Invalidate, account, tokens
  <2>1. CASE Finish(w)
    BY <2>0, <2>1, Finished, Alone DEF TypeOK
  <2>2. CASE ~Finish(w)
    <3>1. PICK stage \in {"deny", "mint"} :
             /\ stage = "mint" => req[w].op = "change"
             /\ stage = "deny" => req[w].op = "logout_all"
             /\ Goto(w, stage)
      BY <1>3, <2>2 DEF Invalidate, AtOwnStage
    <3>2. req'[w] = [req[w] EXCEPT !.stage = stage] /\ req' = [req EXCEPT ![w] = req'[w]]
      BY <3>1 DEF Goto, TypeOK
    <3>3. TypeOK'
      BY <2>0, <3>2 DEF TypeOK, Request, Stages
    <3>4. AtOwnStage(w)' /\ HoldsBump(w)' /\ StillBarred(w)'
      BY <1>3, <2>0, <3>1, <3>2 DEF Invalidate, TypeOK, Request, AtOwnStage, HoldsBump,
         StillBarred, Stage, Seen
    <3> QED BY <2>0, <3>2, <3>3, <3>4, Alone DEF TypeOK
  <2> QED BY <2>1, <2>2
<1>4. CASE DenyPresented(w)
  <2>1. /\ Finish(w) /\ denied \subseteq denied' /\ denied' \subseteq Tokens
        /\ UNCHANGED <<version, standing, lock, cached, minted, age>>
    BY <1>4 DEF DenyPresented, AtOwnStage, TypeOK, account, tokens
  <2> QED BY <2>1, Finished, Alone DEF TypeOK
<1>5. CASE CommitChange(w)
  <2>1. /\ Finish(w) /\ lock' = NoWorker /\ version' = Seen(w).version /\ Mint(Seen(w).version)
        /\ UNCHANGED <<standing, cached, denied, age>>
    BY <1>5 DEF CommitChange
  <2>2. Seen(w).version \in Versions
    BY DEF TypeOK, Request, RowStates, Seen
  <2>3. TypeOK'
    BY <2>1, <2>2, MintTypes, Finished DEF TypeOK
  <2>4. lock = w
    BY <1>5 DEF CommitChange, HoldsBump, AtOwnStage
  <2> QED BY <2>1, <2>3, <2>4, Finished, Alone
<1> QED BY <1>1, <1>2, <1>3, <1>4, <1>5

LEMMA IssueAInv ==
    ASSUME AInv, NEW w \in Workers,
           BeginLogin(w) \/ CommitLogin(w) \/ Refresh(w) \/ BeginEdit(w) \/ SaveEdit(w)
    PROVE  AInv'
<1> USE DEF AInv
<1>1. CASE BeginLogin(w) \/ BeginEdit(w)
  <2>1. PICK op \in {"login", "edit"}, stage \in {"open", "form"} :
           /\ op = "login" <=> stage = "open"
           /\ req' = [req EXCEPT ![w] = [Idle EXCEPT !.op = op, !.stage = stage, !.seen = Row]]
    BY <1>1 DEF BeginLogin, BeginEdit
  <2>2. UNCHANGED <<version, standing, lock, cached, denied, minted, age>>
    BY <1>1 DEF BeginLogin, BeginEdit, account, tokens
  <2>3. req'[w] \in Request
    BY <2>1, IdleIsRequest DEF TypeOK, Request, Ops, Stages, Idle, Row, RowStates
  <2>4. TypeOK'
    BY <2>1, <2>2, <2>3 DEF TypeOK
  <2>5. AtOwnStage(w)' /\ HoldsBump(w)' /\ StillBarred(w)'
    BY <2>1 DEF TypeOK, Idle, AtOwnStage, HoldsBump, StillBarred, Stage
  <2> QED BY <2>1, <2>2, <2>4, <2>5, Alone DEF TypeOK
<1>2. CASE CommitLogin(w)
  <2>1. Seen(w).version \in Versions
    BY DEF TypeOK, Request, RowStates, Seen
  <2>2. TypeOK'
    BY <1>2, <2>1, MintTypes, Finished DEF CommitLogin, TypeOK, account
  <2> QED BY <1>2, <2>2, Finished, Alone DEF CommitLogin, account
<1>3. CASE Refresh(w)
  <2>1. TypeOK'
    BY <1>3, MintTypes DEF Refresh, TypeOK, account
  <2> QED BY <1>3, <2>1, Bystander DEF Refresh, account
<1>4. CASE SaveEdit(w)
  <2>1. Seen(w).version \in Versions
    BY DEF TypeOK, Request, RowStates, Seen
  <2>2. TypeOK'
    BY <1>4, <2>1, Finished DEF SaveEdit, TypeOK, Standings, tokens
  <2> QED BY <1>4, <2>2, Finished, Alone, AccessAssumption DEF SaveEdit, Unlocked, tokens
<1> QED BY <1>1, <1>2, <1>3, <1>4

LEMMA OutsideAInv ==
    ASSUME AInv, \/ \E w \in Workers : Fail(w)
                 \/ \E t \in Tokens : Age(t)
                 \/ SoftDelete \/ CacheExpire
                 \/ UNCHANGED vars
    PROVE  AInv'
<1> USE DEF AInv
<1>1. CASE \E w \in Workers : Fail(w)
  <2>1. PICK w \in Workers : Fail(w)
    BY <1>1
  <2>2. TypeOK'
    BY <2>1, Finished DEF Fail, TypeOK, account, tokens
  <2> QED BY <2>1, <2>2, Finished, Alone DEF Fail, account, tokens
<1>2. CASE \E t \in Tokens : Age(t)
  <2>1. PICK t \in Tokens : Age(t)
    BY <1>2
  <2>2. TypeOK'
    BY <2>1 DEF Age, TypeOK, Ages, account
  <2>3. \A s \in Tokens : /\ age[s] # "live" => age'[s] # "live"
                          /\ s \in denied /\ s \notin denied' => age'[s] # "live"
    BY <2>1 DEF Age, TypeOK
  <2> QED BY <2>1, <2>2, <2>3, Bystander DEF Age, account
<1>3. CASE SoftDelete \/ CacheExpire \/ UNCHANGED vars
  <2>1. TypeOK'
    BY <1>3 DEF SoftDelete, CacheExpire, TypeOK, Standings, account, tokens, vars
  <2>2. UNCHANGED <<version, lock, denied, age, req>>
    BY <1>3 DEF SoftDelete, CacheExpire, account, tokens, vars
  <2> QED BY <2>1, <2>2, Bystander
<1> QED BY <1>1, <1>2, <1>3

\* Requests hold the row across a password change's bump, and a denied token is
\* refused while its entry lives.
THEOREM AccessInvariance == Spec => []AInv
<1>1. AInv /\ [Next]_vars => AInv'
  BY CallAInv, RevokeAInv, IssueAInv, OutsideAInv DEF Next, Begin, Continue
<1> QED BY <1>1, InitAInv, PTL DEF Spec

\* The account, its cached copy and the requests keep their shapes.
THEOREM AccessTypeCorrect == Spec => []TypeOK
  BY AccessInvariance, PTL DEF AInv

\* A token denied when its request arrived is never accepted before its exp
\* (is_denylisted in _authenticate).
THEOREM DeniedStaysRefused == Spec => []DeniedIsRefused
<1>1. AInv => DeniedIsRefused
  BY DEF AInv, StillBarred, DeniedIsRefused
<1> QED BY <1>1, AccessInvariance, PTL

-----------------------------------------------------------------------------
\* No revocation takes token_version back, whatever runs between the bump of a
\* password change and its commit (the F() update and its row lock).
THEOREM NoRevocationIsLost == Spec => RevocationsOnlyRaise
<1> DEFINE Raise == version' < version =>
                       \E w \in Workers : req[w].op = "edit" /\ req'[w] # req[w]
<1>1. AInv /\ [Next]_vars => Raise
  <2> SUFFICES ASSUME AInv, [Next]_vars, version' < version
               PROVE  \E w \in Workers : req[w].op = "edit" /\ req'[w] # req[w]
    OBVIOUS
  <2>0. version \in Int
    BY AccessAssumption DEF AInv, TypeOK, Versions
  <2>1. PICK w \in Workers : Bump(w) \/ CommitChange(w) \/ SaveEdit(w)
    <3>1. CASE UNCHANGED vars
      BY <2>0, <3>1 DEF vars
    <3>2. ASSUME NEW w \in Workers, Begin(w) \/ Fail(w) PROVE version' = version
      BY <3>2 DEF Begin, account, BeginCall, BeginCommand, BeginLogin, Refresh, BeginEdit, Fail
    <3>3. ASSUME NEW w \in Workers, Continue(w), version' # version
          PROVE  Bump(w) \/ CommitChange(w) \/ SaveEdit(w)
      BY <3>3 DEF Continue, account, CheckDenylist, LookUp, ReadRow, Fill, Decide, Dispatch,
         Invalidate, DenyPresented, CommitLogin
    <3>4. ASSUME SoftDelete \/ CacheExpire \/ \E t \in Tokens : Age(t) PROVE version' = version
      BY <3>4 DEF SoftDelete, CacheExpire, Age, account
    <3> QED BY <2>0, <3>1, <3>2, <3>3, <3>4 DEF Next
  <2>2. CASE Bump(w)
    BY <2>0, <2>2 DEF Bump
  <2>3. CASE CommitChange(w)
    BY <2>0, <2>3 DEF CommitChange, AInv, AtOwnStage, HoldsBump
  <2>4. CASE SaveEdit(w)
    <3>1. req[w].op = "edit" /\ req'[w] = Idle
      BY <2>4 DEF SaveEdit, Finish, AInv, TypeOK, AtOwnStage
    <3> QED BY <3>1 DEF Idle
  <2> QED BY <2>1, <2>2, <2>3, <2>4
<1>2. Spec => [][Raise]_vars
  BY <1>1, AccessInvariance, PTL DEF Spec
<1> QED BY <1>2, PTL DEF RevocationsOnlyRaise

\* A refresh or a password change never hands out a token that its own commit has
\* superseded (refresh_from_db, the locked read of _redeem).
THEOREM MintsAreCurrent == Spec => MintsCurrent
<1> DEFINE Current == \A t \in Tokens : minted'[t] # minted[t] =>
                         \/ minted'[t] = version'
                         \/ \E w \in Workers : req[w].op = "login" /\ req'[w] # req[w]
<1>1. AInv /\ [Next]_vars => Current
  <2> SUFFICES ASSUME AInv, [Next]_vars, NEW t \in Tokens, minted'[t] # minted[t]
               PROVE  \/ minted'[t] = version'
                      \/ \E w \in Workers : req[w].op = "login" /\ req'[w] # req[w]
    OBVIOUS
  <2>1. PICK w \in Workers : CommitChange(w) \/ CommitLogin(w) \/ Refresh(w)
    BY DEF Next, Begin, Continue, vars, tokens, BeginCall, CheckDenylist, LookUp, ReadRow,
       Fill, Decide, Dispatch, BeginCommand, Bump, Invalidate, DenyPresented, BeginLogin,
       BeginEdit, SaveEdit, Fail, Age, SoftDelete, CacheExpire
  <2>2. CASE CommitChange(w)
    BY <2>2 DEF CommitChange, Mint, AInv, TypeOK
  <2>3. CASE CommitLogin(w)
    <3>1. req[w].op = "login" /\ req'[w] = Idle
      BY <2>3 DEF CommitLogin, Finish, AInv, TypeOK, AtOwnStage
    <3> QED BY <3>1 DEF Idle
  <2>4. CASE Refresh(w)
    BY <2>4 DEF Refresh, Mint, AInv, TypeOK, account
  <2> QED BY <2>1, <2>2, <2>3, <2>4
<1>2. Spec => [][Current]_vars
  BY <1>1, AccessInvariance, PTL DEF Spec
<1> QED BY <1>2, PTL DEF MintsCurrent
=============================================================================
