----------------------- MODULE TokenLineageRefinement -----------------------
(***************************************************************************)
(* The transactions of TokenLineage implement SingleUseLineages: every step *)
(* of a request either leaves the heads alone or is one exchange, one login, *)
(* one closing of lineages or one expiry of the abstract specification.     *)
(***************************************************************************)
EXTENDS TokenLineageProofs

\* TheOnly picks the element of a set that has one, and tells when there is none.
LEMMA TheOnlyIsIt ==
    ASSUME NEW H \in SUBSET Tokens, \A s, t \in H : s = t
    PROVE  /\ TheOnly(H) \in Tokens \union {NoToken}
           /\ \A t \in Tokens : TheOnly(H) = t <=> t \in H
<1>1. CASE H = {}
  BY <1>1, ConstantsAssumption DEF TheOnly
<1>2. CASE H # {}
  <2>1. TheOnly(H) \in H
    BY <1>2 DEF TheOnly
  <2> QED BY <2>1
<1> QED BY <1>1, <1>2

\* What the heads are, in a state where a lineage has at most one.
HeadsKnown ==
    \A l \in Lineages :
        /\ LineageHead[l] \in Tokens \union {NoToken}
        /\ \A t \in Tokens : LineageHead[l] = t <=> t \in HeadsOf(l)

LEMMA HeadsAreKnown == OneLiveHead => HeadsKnown
<1> SUFFICES ASSUME OneLiveHead, NEW l \in Lineages
             PROVE  /\ LineageHead[l] \in Tokens \union {NoToken}
                    /\ \A t \in Tokens : LineageHead[l] = t <=> t \in HeadsOf(l)
  BY DEF HeadsKnown
<1>1. HeadsOf(l) \in SUBSET Tokens /\ \A s, t \in HeadsOf(l) : s = t
  BY DEF HeadsOf, OneLiveHead
<1>2. LineageHead[l] = TheOnly(HeadsOf(l))
  BY DEF LineageHead
<1> QED BY <1>1, <1>2, TheOnlyIsIt

LEMMA InitRefines == Init => Promise!Init
<1> SUFFICES ASSUME Init PROVE Promise!Init
  OBVIOUS
<1>1. \A l \in Lineages : HeadsOf(l) = {}
  BY DEF Init, HeadsOf
<1>2. LineageHead = [l \in Lineages |-> NoToken]
  BY <1>1 DEF LineageHead, TheOnly
<1>3. SpentTokens = {}
  BY DEF Init, SpentTokens
<1>4. LineageStage = [l \in Lineages |-> "unopened"]
  BY DEF Init, LineageStage
<1> QED BY <1>2, <1>3, <1>4 DEF Promise!Init

\* A step that leaves the active tokens, their families and the sessions alone.
LEMMA QuietRefines ==
    ASSUME UNCHANGED <<opened, revoked>>,
           \A l \in Lineages : HeadsOf(l)' = HeadsOf(l),
           \A t \in Tokens : status'[t] # "unminted" <=> status[t] # "unminted"
    PROVE  UNCHANGED Promise!vars
<1>1. LineageStage' = LineageStage
  BY DEF LineageStage
<1>2. LineageHead' = LineageHead
  BY DEF LineageHead
<1>3. SpentTokens' = SpentTokens
  BY DEF SpentTokens
<1> QED BY <1>1, <1>2, <1>3 DEF Promise!vars

\* A token that leaves ACTIVE without a successor lapses if it was a head.
LEMMA LapseRefines ==
    ASSUME TypeOK, RowsLinked, HeadsKnown, HeadsKnown', UNCHANGED <<opened, revoked>>,
           NEW t \in Tokens, status[t] = "active",
           status'[t] \notin {"active", "unminted"},
           \A s \in Tokens \ {t} : status'[s] = status[s] /\ family'[s] = family[s]
    PROVE  [Promise!Next]_(Promise!vars)
<1> DEFINE l == family[t]
<1>1. l \in opened /\ l \in Lineages
  BY DEF RowsLinked, Exists, TypeOK
<1>2. \A k \in Lineages, s \in Tokens : s \in HeadsOf(k)' <=> s \in HeadsOf(k) /\ s # t
  BY DEF HeadsOf
<1>3. CASE l \in revoked
  <2>1. \A k \in Lineages : HeadsOf(k)' = HeadsOf(k)
    BY <1>2, <1>3 DEF HeadsOf
  <2> QED BY <2>1, QuietRefines
<1>4. CASE l \notin revoked
  <2>1. t \in HeadsOf(l)
    BY <1>4 DEF HeadsOf
  <2>2. LineageHead[l] = t /\ LineageHead[l] # NoToken
    BY <1>1, <2>1, ConstantsAssumption DEF HeadsKnown
  <2>3. LineageHead'[l] = NoToken
    BY <1>1, <1>2, <2>2 DEF HeadsKnown
  <2>4. \A k \in Lineages \ {l} : HeadsOf(k)' = HeadsOf(k)
    BY <1>2 DEF HeadsOf
  <2>5. LineageHead' = [LineageHead EXCEPT ![l] = NoToken]
    BY <2>3, <2>4 DEF LineageHead
  <2>6. SpentTokens' = SpentTokens \union {LineageHead[l]}
    BY <1>1, <1>2, <2>1, <2>2 DEF SpentTokens
  <2>7. LineageStage' = LineageStage
    BY DEF LineageStage
  <2>8. Promise!Lapse(l)
    BY <2>2, <2>5, <2>6, <2>7 DEF Promise!Lapse
  <2> QED BY <1>1, <2>8 DEF Promise!Next
<1> QED BY <1>3, <1>4

\* An unminted token is no head and not spent: the abstract step may take it.
LEMMA UnmintedIsFresh ==
    ASSUME HeadsKnown, NEW n \in Tokens, status[n] = "unminted"
    PROVE  Promise!Fresh(n)
<1>1. n \notin SpentTokens
  BY DEF SpentTokens
<1>2. \A l \in Lineages : LineageHead[l] # n
  BY DEF HeadsKnown, HeadsOf
<1> QED BY <1>1, <1>2 DEF Promise!Fresh

\* A redemption is the exchange of a head.
LEMMA RotateRefines ==
    ASSUME IInv, HeadsKnown, HeadsKnown', NEW w \in Workers, CommitRedeem(w)
    PROVE  Promise!Next
<1>0. PICK t \in Tokens, l \in Lineages : t = tx[w].token /\ l = family[t]
  BY RedeemedRows DEF IInv, TypeOK
<1>1. PICK n \in Unminted :
         /\ n # t
         /\ status' = [status EXCEPT ![t] = "rotated", ![n] = "active"]
         /\ family' = [family EXCEPT ![n] = l]
  BY <1>0, RedeemedRows
<1>2. /\ status[t] = "active" /\ family[t] = l /\ l \in opened /\ l \notin revoked
      /\ n \in Tokens /\ status[n] = "unminted"
  BY <1>0, RedeemedRows DEF Unminted
<1>3. UNCHANGED <<opened, revoked>>
  BY DEF CommitRedeem
<1>4. \A s \in Tokens : /\ s = n => status'[s] = "active" /\ family'[s] = l
                        /\ s = t => status'[s] = "rotated" /\ family'[s] = l
                        /\ s \notin {n, t} => status'[s] = status[s] /\ family'[s] = family[s]
  BY <1>1, <1>2 DEF IInv, TypeOK
<1>5. t \in HeadsOf(l) /\ n \in HeadsOf(l)'
  BY <1>2, <1>3, <1>4 DEF HeadsOf
<1>6. LineageHead[l] = t /\ LineageHead'[l] = n /\ LineageHead[l] # NoToken
  BY <1>2, <1>5, ConstantsAssumption DEF HeadsKnown
<1>7. \A k \in Lineages \ {l} : HeadsOf(k)' = HeadsOf(k)
  <2> SUFFICES ASSUME NEW k \in Lineages, k # l, NEW s \in Tokens
               PROVE  s \in HeadsOf(k)' <=> s \in HeadsOf(k)
    BY DEF HeadsOf
  <2> QED BY <1>2, <1>3, <1>4 DEF HeadsOf
<1>8. LineageHead' = [LineageHead EXCEPT ![l] = n]
  BY <1>6, <1>7 DEF LineageHead
<1>9. SpentTokens' = SpentTokens \union {LineageHead[l]}
  <2>1. \A s \in Tokens : s \in SpentTokens' <=> s \in SpentTokens \/ s = t
    <3>1. \A k \in Lineages : t \notin HeadsOf(k)'
      BY <1>1, <1>2, <1>4 DEF HeadsOf
    <3>2. \A s \in Tokens \ {t, n} : s \in SpentTokens' <=> s \in SpentTokens
      <4> SUFFICES ASSUME NEW s \in Tokens \ {t, n}
                   PROVE  \A k \in Lineages : s \in HeadsOf(k)' <=> s \in HeadsOf(k)
        BY <1>4 DEF SpentTokens
      <4> QED BY <1>3, <1>4 DEF HeadsOf
    <3>3. n \notin SpentTokens /\ n \notin SpentTokens'
      BY <1>2, <1>5 DEF SpentTokens
    <3>4. t \in SpentTokens'
      BY <1>1, <1>2, <1>4, <3>1 DEF SpentTokens
    <3> QED BY <3>2, <3>3, <3>4, <1>1
  <2>2. SpentTokens \subseteq Tokens /\ SpentTokens' \subseteq Tokens
    BY DEF SpentTokens
  <2> QED BY <2>1, <2>2, <1>2, <1>6
<1>10. LineageStage' = LineageStage /\ LineageStage[l] = "open"
  BY <1>2, <1>3 DEF LineageStage
<1>11. Promise!Fresh(n)
  BY <1>2, UnmintedIsFresh
<1>12. Promise!Rotate(l, n)
  BY <1>6, <1>8, <1>9, <1>10, <1>11 DEF Promise!Rotate
<1> QED BY <1>2, <1>12 DEF Promise!Next

\* The commit of a revocation closes the lineages it targets: their heads are
\* spent, the others keep theirs.
LEMMA ClosedHeads ==
    ASSUME IInv, NEW w \in Workers, Stage(w) = "commit"
    PROVE  \A t \in Tokens : RevokedStatus(w)[t] # status[t] =>
              family[t] \in tx[w].targets /\ RevokedStatus(w)[t] \in {"revoked", "compromised"}
<1>1. Sound(w)
  BY DEF IInv
<1> QED BY <1>1, CommitFacts DEF Sound, WellFormed, RevokedStatus

LEMMA CloseRefines ==
    ASSUME IInv, HeadsKnown, HeadsKnown', NEW w \in Workers, CommitRevocation(w)
    PROVE  Promise!Next
<1> DEFINE C == tx[w].targets
<1>1. /\ UNCHANGED <<opened, family>> /\ revoked' = revoked \union C
      /\ status' = RevokedStatus(w) /\ Stage(w) = "commit"
  BY DEF CommitRevocation
<1>2. /\ C \subseteq opened /\ C \subseteq Lineages
      /\ \A t \in Tokens : status'[t] # status[t] =>
            /\ family[t] \in C /\ status'[t] \in {"revoked", "compromised"} /\ Exists(t)
  BY <1>1, ClosedHeads, CommitFacts DEF IInv, TypeOK
<1>3. \A k \in Lineages, s \in Tokens : s \in HeadsOf(k)' <=> s \in HeadsOf(k) /\ k \notin C
  BY <1>1, <1>2 DEF HeadsOf
<1>4. LineageStage' = [k \in Lineages |-> IF k \in C THEN "closed" ELSE LineageStage[k]]
  BY <1>1, <1>2 DEF LineageStage
<1>5. LineageHead' = [k \in Lineages |-> IF k \in C THEN NoToken ELSE LineageHead[k]]
  <2> SUFFICES ASSUME NEW k \in Lineages
               PROVE  LineageHead'[k] = IF k \in C THEN NoToken ELSE LineageHead[k]
    BY DEF LineageHead
  <2>1. CASE k \in C
    BY <1>3, <2>1 DEF HeadsKnown
  <2>2. CASE k \notin C
    <3>1. HeadsOf(k)' = HeadsOf(k)
      BY <1>3, <2>2 DEF HeadsOf
    <3> QED BY <2>2, <3>1 DEF LineageHead
  <2> QED BY <2>1, <2>2
<1>6. SpentTokens' = SpentTokens \union Promise!Heads(C)
  <2>1. Promise!Heads(C) = {s \in Tokens : \E k \in C : s \in HeadsOf(k)}
    BY <1>2, ConstantsAssumption DEF Promise!Heads, HeadsKnown, HeadsOf
  <2>2. \A s \in Tokens : s \in SpentTokens' <=>
           s \in SpentTokens \/ \E k \in C : s \in HeadsOf(k)
    <3> SUFFICES ASSUME NEW s \in Tokens
                 PROVE  s \in SpentTokens' <=>
                           s \in SpentTokens \/ \E k \in C : s \in HeadsOf(k)
      OBVIOUS
    <3>1. status'[s] = "unminted" <=> status[s] = "unminted"
      BY <1>2 DEF Exists
    <3>2. \A j, k \in Lineages : s \in HeadsOf(j) /\ s \in HeadsOf(k) => j = k
      BY DEF HeadsOf
    <3>3. \A k \in Lineages : s \in HeadsOf(k) => status[s] # "unminted"
      BY DEF HeadsOf
    <3> QED BY <1>2, <1>3, <3>1, <3>2, <3>3 DEF SpentTokens
  <2>3. SpentTokens \subseteq Tokens /\ SpentTokens' \subseteq Tokens
    BY DEF SpentTokens
  <2> QED BY <2>1, <2>2, <2>3
<1>7. Promise!Close(C)
  BY <1>4, <1>5, <1>6 DEF Promise!Close
<1>8. C \in SUBSET Promise!Opened
  BY <1>2 DEF Promise!Opened, LineageStage
<1> QED BY <1>7, <1>8 DEF Promise!Next

\* A login, or the session a password change keeps, opens a lineage and closes those
\* it targets in one step.
LEMMA OpenRefines ==
    ASSUME IInv, HeadsKnown, HeadsKnown', NEW w \in Workers, CommitSession(w)
    PROVE  Promise!Next
<1> DEFINE C == tx[w].targets
<1>1. PICK l \in Lineages, n \in Unminted :
         /\ l \notin opened
         /\ opened' = opened \union {l}
         /\ status' = [RevokedStatus(w) EXCEPT ![n] = "active"]
         /\ family' = [family EXCEPT ![n] = l]
  BY DEF CommitSession, IsNextLineage, Unopened
<1>2. Stage(w) = "commit" /\ revoked' = revoked \union C
  BY DEF CommitSession
<1>3. /\ C \subseteq opened /\ C \subseteq Lineages /\ revoked \subseteq opened
      /\ RevokedStatus(w) \in [Tokens -> Status \union {"unminted", "pruned"}]
      /\ \A t \in Tokens : RevokedStatus(w)[t] # status[t] =>
            /\ family[t] \in C /\ RevokedStatus(w)[t] \in {"revoked", "compromised"}
            /\ Exists(t)
      /\ n \in Tokens /\ status[n] = "unminted"
  BY <1>2, ClosedHeads, CommitFacts DEF IInv, TypeOK, Unminted
<1>4. \A s \in Tokens :
         /\ s = n => status'[s] = "active" /\ family'[s] = l
         /\ s # n => status'[s] = RevokedStatus(w)[s] /\ family'[s] = family[s]
  BY <1>1, <1>3 DEF IInv, TypeOK
<1>5. \A s \in Tokens : status[s] = "active" => family[s] # l
  BY <1>1 DEF IInv, RowsLinked, Exists
<1>6. \A k \in Lineages, s \in Tokens :
         s \in HeadsOf(k)' <=> IF k = l THEN s = n ELSE s \in HeadsOf(k) /\ k \notin C
  <2> SUFFICES ASSUME NEW k \in Lineages, NEW s \in Tokens
               PROVE  s \in HeadsOf(k)' <=>
                         IF k = l THEN s = n ELSE s \in HeadsOf(k) /\ k \notin C
    OBVIOUS
  <2>1. CASE s = n
    BY <1>1, <1>2, <1>3, <1>4, <2>1 DEF HeadsOf
  <2>2. CASE s # n
    BY <1>2, <1>3, <1>4, <1>5, <2>2 DEF HeadsOf
  <2> QED BY <2>1, <2>2
<1>7. LineageStage' = [k \in Lineages |-> IF k = l THEN "open"
                                          ELSE IF k \in C THEN "closed" ELSE LineageStage[k]]
  BY <1>1, <1>2, <1>3 DEF LineageStage
<1>8. LineageHead' = [k \in Lineages |-> IF k = l THEN n
                                         ELSE IF k \in C THEN NoToken ELSE LineageHead[k]]
  <2> SUFFICES ASSUME NEW k \in Lineages
               PROVE  LineageHead'[k] = IF k = l THEN n
                                        ELSE IF k \in C THEN NoToken ELSE LineageHead[k]
    BY DEF LineageHead
  <2>1. CASE k = l
    BY <1>3, <1>6, <2>1 DEF HeadsKnown
  <2>2. CASE k # l /\ k \in C
    BY <1>6, <2>2 DEF HeadsKnown
  <2>3. CASE k # l /\ k \notin C
    <3>1. HeadsOf(k)' = HeadsOf(k)
      BY <1>6, <2>3 DEF HeadsOf
    <3> QED BY <2>3, <3>1 DEF LineageHead
  <2> QED BY <2>1, <2>2, <2>3
<1>9. SpentTokens' = SpentTokens \union Promise!Heads(C)
  <2>1. Promise!Heads(C) = {s \in Tokens : \E k \in C : s \in HeadsOf(k)}
    BY <1>3, ConstantsAssumption DEF Promise!Heads, HeadsKnown, HeadsOf
  <2>2. ASSUME NEW s \in Tokens
        PROVE  s \in SpentTokens' <=> s \in SpentTokens \/ \E k \in C : s \in HeadsOf(k)
    <3>1. s # n => (status'[s] = "unminted" <=> status[s] = "unminted")
      BY <1>3, <1>4 DEF Exists
    <3>2. \A j, k \in Lineages : s \in HeadsOf(j) /\ s \in HeadsOf(k) => j = k
      BY DEF HeadsOf
    <3>3. \A k \in Lineages : s \in HeadsOf(k) => status[s] # "unminted" /\ k # l
      BY <1>5 DEF HeadsOf
    <3>4. CASE s = n
      BY <1>3, <1>6, <3>3, <3>4 DEF SpentTokens
    <3>5. CASE s # n
      BY <1>3, <1>6, <3>1, <3>2, <3>3, <3>5 DEF SpentTokens
    <3> QED BY <3>4, <3>5
  <2>3. SpentTokens \subseteq Tokens /\ SpentTokens' \subseteq Tokens
    BY DEF SpentTokens
  <2> QED BY <2>1, <2>2, <2>3
<1>10. Promise!Fresh(n)
  BY <1>3, UnmintedIsFresh
<1>11. LineageStage[l] = "unopened"
  BY <1>1 DEF LineageStage
<1>12. Promise!Open(l, n, C)
  BY <1>7, <1>8, <1>9, <1>10, <1>11 DEF Promise!Open
<1>13. C \in SUBSET Promise!Opened
  BY <1>3 DEF Promise!Opened, LineageStage
<1> QED BY <1>3, <1>12, <1>13 DEF Promise!Next

-----------------------------------------------------------------------------

LEMMA StepRefines ==
    ASSUME IInv, HeadsKnown, HeadsKnown', [Next]_vars
    PROVE  [Promise!Next]_(Promise!vars)
<1>1. CASE UNCHANGED rows
  <2>1. \A l \in Lineages : HeadsOf(l)' = HeadsOf(l)
    BY <1>1 DEF HeadsOf, rows
  <2> QED BY <1>1, <2>1, QuietRefines DEF rows
<1>2. ASSUME NEW w \in Workers, StampExpired(w)
      PROVE  [Promise!Next]_(Promise!vars)
  <2>1. PICK t \in Tokens : t = tx[w].token
    BY <1>2 DEF StampExpired, IInv, Sound, WellFormed, AtOwnStage
  <2>2. /\ UNCHANGED <<opened, revoked, family>>
        /\ status' = [status EXCEPT ![t] = "expired"] /\ status[t] = "active"
    BY <1>2, <2>1 DEF StampExpired, IInv, Sound, LockDiscipline
  <2>3. /\ TypeOK /\ RowsLinked /\ status'[t] = "expired"
        /\ \A s \in Tokens \ {t} : status'[s] = status[s] /\ family'[s] = family[s]
    BY <2>2 DEF IInv, TypeOK
  <2> QED BY <2>2, <2>3, LapseRefines
<1>3. ASSUME NEW w \in Workers, CommitRedeem(w) \/ CommitRevocation(w) \/ CommitSession(w)
      PROVE  Promise!Next
  BY <1>3, RotateRefines, CloseRefines, OpenRefines
<1>4. ASSUME NEW t \in Tokens, Prune(t)
      PROVE  [Promise!Next]_(Promise!vars)
  <2>1. /\ UNCHANGED <<opened, revoked>> /\ status'[t] = "pruned" /\ Exists(t)
        /\ TypeOK /\ RowsLinked
        /\ \A s \in Tokens \ {t} : status'[s] = status[s] /\ family'[s] = family[s]
    BY <1>4 DEF Prune, IInv, TypeOK
  <2>2. CASE status[t] = "active"
    BY <2>1, <2>2, LapseRefines
  <2>3. CASE status[t] # "active"
    <3>1. ASSUME NEW l \in Lineages PROVE HeadsOf(l)' = HeadsOf(l)
      BY <2>1, <2>3 DEF HeadsOf
    <3> QED BY <2>1, <3>1, QuietRefines DEF Exists
  <2> QED BY <2>2, <2>3
<1> QED BY <1>1, <1>2, <1>3, <1>4, WritingSteps

\* Whatever the requests, the locks and the failures do, the rows of the schema
\* behave like lineages whose one head is exchanged at most once.
THEOREM Refinement == Spec => ImplementsSingleUse
<1>1. IInv => HeadsKnown
  BY HeadsAreKnown DEF IInv
<1>2. IInv /\ HeadsKnown /\ HeadsKnown' /\ [Next]_vars => [Promise!Next]_(Promise!vars)
  BY StepRefines
<1>3. Spec => [][Promise!Next]_(Promise!vars)
  BY <1>1, <1>2, Invariance, PTL DEF Spec
<1> QED BY <1>3, InitRefines, PTL DEF Spec, ImplementsSingleUse, Promise!Spec
=============================================================================
