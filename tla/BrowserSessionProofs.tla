------------------------ MODULE BrowserSessionProofs ------------------------
(***************************************************************************)
(* Proofs about BrowserSession: tabs that share a cookie raise no alarm of    *)
(* their own and lose no live session but in the ways the model names, and    *)
(* the rows behind the cookies implement SingleUseLineages.                  *)
(***************************************************************************)
EXTENDS BrowserSession, FiniteSetTheorems, TLAPS

-----------------------------------------------------------------------------
LEMMA Values ==
    /\ NoRequest \in Request
    /\ {Keep, Clear, ClearBlindly} \subseteq Answer
    /\ \A n \in Cookies : Set(n) \in Answer
    /\ \A n \in Cookies : Set(n).cookies = "set" /\ Set(n).pair = n
    /\ NoRequest.cookie = 0 /\ NoRequest.access = 0 /\ NoRequest.kind = "login"
    /\ Keep.cookies = "keep" /\ Clear.cookies = "clear" /\ ClearBlindly.cookies = "clear"
    /\ ClearBlindly.blind /\ ~Clear.blind
    /\ Keep.pair = 0 /\ Clear.pair = 0 /\ ClearBlindly.pair = 0
  BY BrowserAssumption
  DEF NoRequest, Request, Keep, Clear, ClearBlindly, Set, Answer, Cookies

LEMMA InitBInv == Init => BInv
<1> SUFFICES ASSUME Init PROVE BInv
  OBVIOUS
<1>1. \A t \in Tabs : /\ At(t) = "prompt" /\ tab[t].req = NoRequest
                      /\ tab[t] \in Tab
  BY BrowserAssumption, Values DEF Init, At, Tab, Cookies
<1>2. TypeOK
  BY BrowserAssumption, Values, <1>1 DEF Init, TypeOK, Tokens, Cookies, Tab
<1>3. Undecided = {}
  BY <1>1 DEF Undecided
<1>4. Budget
  <2>1. IsFiniteSet(stray) /\ Cardinality(stray) = 0 /\ Cardinality(Undecided) = 0
    BY <1>3, FS_EmptySet DEF Init
  <2> QED BY <2>1, BrowserAssumption DEF Budget, Init
<1>5. Numbered /\ Known /\ Cookieless /\ Signed
  BY <1>1, Values DEF Numbered, Known, Cookieless, Signed, Init, Tokens
<1>6. \A t \in Tabs : Unseen(t) /\ Cleared(t)
  BY <1>1 DEF Unseen, Promised, Cleared
<1>7. AlarmsHaveCause /\ LiveSessionsAreHeld
  BY DEF Init, AlarmsHaveCause, LiveSessionsAreHeld
<1> QED BY <1>2, <1>4, <1>5, <1>6, <1>7 DEF BInv

-----------------------------------------------------------------------------
(***************************************************************************)
(* The reservation.                                                        *)
(***************************************************************************)
LEMMA Counted ==
    ASSUME NEW t \in Tabs, \A u \in Tabs \ {t} : tab'[u] = tab[u]
    PROVE  /\ Cardinality(Undecided) \in Nat /\ Cardinality(Undecided') \in Nat
           /\ t \in Undecided => Cardinality(Undecided) >= 1
           /\ Cardinality(Undecided') =
                 Cardinality(Undecided) + (IF t \in Undecided' THEN 1 ELSE 0)
                                        - (IF t \in Undecided THEN 1 ELSE 0)
<1> DEFINE Others == Undecided \ {t}
<1>1. Undecided \subseteq Tabs /\ Undecided' \subseteq Tabs
  BY DEF Undecided
<1>2. IsFiniteSet(Undecided) /\ IsFiniteSet(Undecided')
  BY <1>1, FS_Subset, BrowserAssumption
<1>3. Undecided' \ {t} = Others
  BY DEF Undecided, At
<1>4. /\ Cardinality(Others) = IF t \in Undecided THEN Cardinality(Undecided) - 1
                               ELSE Cardinality(Undecided)
      /\ IsFiniteSet(Others)
  BY <1>2, FS_RemoveElement
<1>5. Cardinality(Others) = IF t \in Undecided' THEN Cardinality(Undecided') - 1
                            ELSE Cardinality(Undecided')
  BY <1>2, <1>3, FS_RemoveElement
<1>6. /\ Cardinality(Undecided) \in Nat /\ Cardinality(Undecided') \in Nat
      /\ Cardinality(Others) \in Nat
  BY <1>2, <1>4, FS_CardinalityType
<1> HIDE DEF Others
<1> QED BY <1>4, <1>5, <1>6

LEMMA Strayed ==
    ASSUME IsFiniteSet(stray)
    PROVE  /\ Cardinality(stray) \in Nat
           /\ stray # {} => Cardinality(stray) >= 1
           /\ \A r : /\ IsFiniteSet(stray \union {r})
                     /\ Cardinality(stray \union {r}) \in Nat
                     /\ Cardinality(stray \union {r}) <= Cardinality(stray) + 1
           /\ \A r \in stray : /\ IsFiniteSet(stray \ {r})
                               /\ Cardinality(stray \ {r}) = Cardinality(stray) - 1
<1>1. Cardinality(stray) \in Nat
  BY FS_CardinalityType
<1>2. stray # {} => Cardinality(stray) # 0
  BY FS_EmptySet
<1>3. ASSUME NEW r
      PROVE  /\ IsFiniteSet(stray \union {r}) /\ Cardinality(stray \union {r}) \in Nat
             /\ Cardinality(stray \union {r}) <= Cardinality(stray) + 1
  BY <1>1, FS_AddElement
<1>4. ASSUME NEW r \in stray
      PROVE  IsFiniteSet(stray \ {r}) /\ Cardinality(stray \ {r}) = Cardinality(stray) - 1
  BY FS_RemoveElement
<1>5. stray # {} => Cardinality(stray) >= 1
  BY <1>1, <1>2
<1> QED BY <1>1, <1>3, <1>4, <1>5, Zenon

\* A step of tab t, and perhaps of the requests nobody waits for.
LEMMA TabBudget ==
    ASSUME TypeOK, TypeOK', Budget, NEW t \in Tabs, \A u \in Tabs \ {t} : tab'[u] = tab[u],
           stray' = stray,
           \/ Room /\ minted' = minted /\ losses' = losses
           \/ minted' = minted /\ losses' = losses + 1
           \/ minted' = minted /\ losses' = losses /\ t \in Undecided
           \/ minted' = minted /\ losses' = losses /\ t \notin Undecided'
           \/ minted' = minted + 1 /\ losses' = losses /\ t \in Undecided /\ t \notin Undecided'
    PROVE  Budget'
<1>1. /\ minted \in Nat /\ losses \in Nat /\ losses' \in Nat /\ Cardinality(stray) \in Nat
  BY Strayed, BrowserAssumption DEF TypeOK, Cookies, Budget
<1> QED BY <1>1, Counted, BrowserAssumption DEF Budget, Room

-----------------------------------------------------------------------------
(***************************************************************************)
(* Steps of a tab that is not answered before or after.                     *)
(***************************************************************************)
LEMMA Quiet ==
    ASSUME BInv, TypeOK', Budget', NEW t \in Tabs,
           \A u \in Tabs \ {t} : tab'[u] = tab[u],
           At(t) # "answered", tab'[t].at # "answered",
           tab'[t].req.cookie \in {0, jar, tab[t].req.cookie},
           tab'[t].req.kind = "login" => tab'[t].at # "armed" /\ tab'[t].req.cookie = 0,
           tab'[t].at # "ready" /\ tab'[t].access = tab[t].access,
           tab'[t].req.access \in {0, tab[t].access, tab[t].req.access},
           tab'[t].req.kind = "logout" => tab[t].access # 0 /\ tab'[t].req.access # 0,
           UNCHANGED <<jar, stray, server, lost, stranded>>
    PROVE  BInv'
<1> USE DEF BInv
<1>0. /\ jar' = jar /\ stray' = stray /\ minted' = minted /\ status' = status
      /\ line' = line /\ lost' = lost /\ stranded' = stranded
  BY DEF server
<1>1. \A u \in Tabs : Promised(u)' <=> u # t /\ Promised(u)
  BY DEF Promised, At
<1>2. \A u \in Tabs : tab'[u].req.cookie \in {0, jar, tab[u].req.cookie}
  OBVIOUS
<1>3. Numbered' /\ Known' /\ Cookieless'
  BY <1>0, <1>2 DEF Numbered, Known, Cookieless, At, TypeOK, Cookies
<1>3a. Signed'
  <2> SUFFICES ASSUME NEW u \in Tabs
               PROVE  /\ tab'[u].access <= minted /\ tab'[u].req.access <= minted
                      /\ tab'[u].at = "ready" => tab'[u].access # 0
                      /\ tab'[u].req.kind = "logout" => tab'[u].access # 0 /\ tab'[u].req.access # 0
    BY <1>0 DEF Signed, At
  <2>1. CASE u = t
    BY <2>1 DEF Signed, TypeOK, Cookies
  <2>2. CASE u # t
    BY <2>2 DEF Signed, At
  <2> QED BY <2>1, <2>2
<1>4. ASSUME NEW u \in Tabs PROVE Unseen(u)'
  <2> SUFFICES ASSUME Promised(u)' PROVE Unseen(u)'
    BY DEF Unseen
  <2>1. u # t /\ Promised(u) /\ tab'[u] = tab[u]
    BY <1>1
  <2>2. \A v \in Tabs : tab'[v].req.cookie # tab[u].answer.pair
    BY <2>1, <1>2 DEF Unseen
  <2> QED BY <2>1, <2>2, <1>0, <1>1 DEF Unseen
<1>5. ASSUME NEW u \in Tabs PROVE Cleared(u)'
  <2>1. CASE u = t
    BY <2>1 DEF Cleared, At
  <2>2. CASE u # t
    BY <2>2, <1>0 DEF Cleared, At
  <2> QED BY <2>1, <2>2
<1>6. AlarmsHaveCause'
  BY <1>0, At(t) # "answered" DEF AlarmsHaveCause, Awaited, At
<1>7. LiveSessionsAreHeld'
  BY <1>0, At(t) # "answered" DEF LiveSessionsAreHeld, Promised, At
<1> QED BY <1>3, <1>3a, <1>4, <1>5, <1>6, <1>7

\* What a step writes to a tab that sends nothing yet has its type.
LEMMA QuietTypes ==
    ASSUME TypeOK, NEW t \in Tabs, NEW x \in Tab, tab' = [tab EXCEPT ![t] = x],
           UNCHANGED <<jar, stray, server, losses, lost, stranded>>
    PROVE  TypeOK' /\ tab'[t] = x /\ \A u \in Tabs \ {t} : tab'[u] = tab[u]
  BY DEF TypeOK, server

LEMMA ExpireKeeps == ASSUME BInv, NEW t \in Tabs, Expire(t) PROVE BInv'
<1> DEFINE x == [tab[t] EXCEPT !.at = "hungry"]
<1>1. x \in Tab /\ x.at = "hungry" /\ x.req = tab[t].req /\ x.access = tab[t].access /\ tab' = [tab EXCEPT ![t] = x]
  BY DEF BInv, TypeOK, Expire, Goto, Tab
<1>2. UNCHANGED <<jar, stray, server, losses, lost, stranded>> /\ At(t) = "ready" /\ Room
  BY DEF Expire
<1> HIDE DEF x
<1>3. TypeOK' /\ tab'[t] = x /\ \A u \in Tabs \ {t} : tab'[u] = tab[u]
  BY <1>1, <1>2, QuietTypes DEF BInv
<1>4. Budget'
  BY <1>2, <1>3, TabBudget DEF BInv, server
<1> QED BY <1>1, <1>2, <1>3, <1>4, Quiet DEF BInv, Cookieless, Signed

LEMMA ArmKeeps ==
    ASSUME BInv, NEW t \in Tabs, NEW kind \in {"refresh", "logout"}, Arm(t, kind),
           \/ At(t) = "ready" /\ Room
           \/ At(t) = "hungry" /\ kind = "refresh",
           UNCHANGED <<jar, stray, server, losses, lost, stranded>>
    PROVE  BInv'
<1> DEFINE r == [kind |-> kind, header |-> jar, cookie |-> 0, access |-> tab[t].access]
           x == [tab[t] EXCEPT !.at = "armed", !.req = r]
<1>1. r \in Request /\ r.cookie = 0 /\ r.kind = kind /\ r.access = tab[t].access
  BY BrowserAssumption DEF BInv, TypeOK, Request, Tab, Cookies
<1>2. x \in Tab /\ x.at = "armed" /\ x.req = r /\ x.access = tab[t].access /\ tab' = [tab EXCEPT ![t] = x]
  BY <1>1 DEF BInv, TypeOK, Arm, Tab
<1> HIDE DEF x, r
<1>3. TypeOK' /\ tab'[t] = x /\ \A u \in Tabs \ {t} : tab'[u] = tab[u]
  BY <1>2, QuietTypes DEF BInv
<1>4. Budget'
  BY <1>3, TabBudget DEF BInv, server, Undecided
<1> QED BY <1>1, <1>2, <1>3, <1>4, Quiet DEF BInv, Cookieless, Signed

LEMMA ReadCsrfKeeps == ASSUME BInv, NEW t \in Tabs, ReadCsrf(t) PROVE BInv'
<1>1. UNCHANGED <<jar, stray, server, losses, lost, stranded>> /\ At(t) = "hungry"
  BY DEF ReadCsrf
<1>2. CASE jar # 0
  BY <1>1, <1>2, ArmKeeps DEF ReadCsrf
<1>3. CASE jar = 0
  <2> DEFINE x == [tab[t] EXCEPT !.at = "prompt"]
  <2>1. x \in Tab /\ x.at = "prompt" /\ x.req = tab[t].req /\ x.access = tab[t].access /\ tab' = [tab EXCEPT ![t] = x]
    BY <1>3 DEF BInv, TypeOK, ReadCsrf, Goto, Tab
  <2> HIDE DEF x
  <2>2. TypeOK' /\ tab'[t] = x /\ \A u \in Tabs \ {t} : tab'[u] = tab[u]
    BY <2>1, <1>1, QuietTypes DEF BInv
  <2>3. Budget'
    BY <1>1, <2>2, TabBudget DEF BInv, server, Undecided
  <2> QED BY <1>1, <2>1, <2>2, <2>3, Quiet DEF BInv, Cookieless, Signed
<1> QED BY <1>2, <1>3

LEMMA SendKeeps == ASSUME BInv, NEW t \in Tabs, Send(t) PROVE BInv'
<1> DEFINE r == [tab[t].req EXCEPT !.cookie = jar]
           x == [tab[t] EXCEPT !.at = "sent", !.req = r]
<1>1. /\ r \in Request /\ r.cookie = jar /\ r.kind # "login"
      /\ r.kind = tab[t].req.kind /\ r.access = tab[t].req.access
  BY DEF BInv, TypeOK, Request, Tab, Cookieless, Send
<1>2. x \in Tab /\ x.at = "sent" /\ x.req = r /\ x.access = tab[t].access /\ tab' = [tab EXCEPT ![t] = x]
  BY <1>1 DEF BInv, TypeOK, Send, Tab
<1>3. UNCHANGED <<jar, stray, server, losses, lost, stranded>> /\ At(t) = "armed"
  BY DEF Send
<1> HIDE DEF x, r
<1>4. TypeOK' /\ tab'[t] = x /\ \A u \in Tabs \ {t} : tab'[u] = tab[u]
  BY <1>2, <1>3, QuietTypes DEF BInv
<1>5. Budget'
  BY <1>3, <1>4, TabBudget DEF BInv, server, Undecided
<1> QED BY <1>1, <1>2, <1>3, <1>4, <1>5, Quiet DEF BInv, Cookieless, Signed

LEMMA BeginLoginKeeps == ASSUME BInv, NEW t \in Tabs, BeginLogin(t) PROVE BInv'
<1> DEFINE x == [tab[t] EXCEPT !.at = "sent", !.req = NoRequest]
<1>1. x \in Tab /\ x.at = "sent" /\ x.req = NoRequest /\ x.access = tab[t].access /\ tab' = [tab EXCEPT ![t] = x]
  BY Values DEF BInv, TypeOK, BeginLogin, Tab
<1>2. UNCHANGED <<jar, stray, server, losses, lost, stranded>> /\ At(t) = "prompt" /\ Room
  BY DEF BeginLogin
<1> HIDE DEF x
<1>3. TypeOK' /\ tab'[t] = x /\ \A u \in Tabs \ {t} : tab'[u] = tab[u]
  BY <1>1, <1>2, QuietTypes DEF BInv
<1>4. Budget'
  BY <1>2, <1>3, TabBudget DEF BInv, server
<1> QED BY <1>1, <1>2, <1>3, <1>4, Values, Quiet DEF BInv, Cookieless, Signed

-----------------------------------------------------------------------------
(***************************************************************************)
(* The server.                                                             *)
(***************************************************************************)
LEMMA Replied ==
    ASSUME BInv, NEW t \in Tabs \union {NoTab}, NEW r, Arrived(t, r), NEW a \in Answer,
           Reply(t, r, a)
    PROVE  /\ r \in Request /\ r.cookie <= minted /\ (r.kind = "login" => r.cookie = 0)
           /\ tab' \in [Tabs -> Tab] /\ stray' \in SUBSET Request
           /\ lost' \in SUBSET Cookies /\ stranded' \in SUBSET Cookies
           /\ lost \subseteq lost' /\ stranded \subseteq stranded' /\ stray' \subseteq stray
           /\ \A u \in Tabs : tab'[u].req = tab[u].req
           /\ \A u \in Tabs \ {t} : tab'[u] = tab[u]
           /\ t \in Tabs => /\ tab[t].at = "sent" /\ tab[t].req = r
                            /\ tab'[t].at = "answered" /\ tab'[t].answer = a
                            /\ stray' = stray
           /\ t \notin Tabs => /\ tab' = tab /\ r \in stray /\ stray' = stray \ {r}
                               /\ (a.cookies = "set" => r.cookie \in lost')
                               /\ a.pair \in stranded'
<1> USE DEF BInv, TypeOK
<1>1. CASE t \in Tabs
  <2>1. t # NoTab
    BY <1>1, BrowserAssumption
  <2>2. /\ tab[t] \in Tab /\ tab[t].at = "sent" /\ tab[t].req = r
        /\ UNCHANGED <<stray, lost, stranded>>
        /\ tab' = [tab EXCEPT ![t].at = "answered", ![t].answer = a]
    BY <1>1, <2>1 DEF Arrived, At, Reply
  <2>3. /\ tab' \in [Tabs -> Tab] /\ tab'[t].at = "answered" /\ tab'[t].answer = a
        /\ tab'[t].req = r /\ \A u \in Tabs \ {t} : tab'[u] = tab[u]
    BY <1>1, <2>2 DEF Tab
  <2>4. r \in Request /\ r.cookie <= minted /\ (r.kind = "login" => r.cookie = 0)
    BY <1>1, <2>2 DEF Tab, Known, Cookieless
  <2> QED BY <1>1, <2>2, <2>3, <2>4
<1>2. CASE t \notin Tabs
  <2>1. /\ r \in stray /\ stray' = stray \ {r} /\ tab' = tab
        /\ lost' = IF a.cookies = "set" THEN lost \union {r.cookie} ELSE lost
        /\ stranded' = stranded \union {a.pair}
    BY <1>2 DEF Arrived, Reply
  <2>2. r \in Request /\ r.cookie \in Cookies /\ a.pair \in Cookies
    BY <2>1 DEF Request, Answer
  <2>3. r.cookie <= minted /\ (r.kind = "login" => r.cookie = 0)
    BY <2>1 DEF Known, Cookieless
  <2> QED BY <1>2, <2>1, <2>2, <2>3
<1> QED BY <1>1, <1>2

LEMMA HasRoom ==
    ASSUME BInv, NEW t \in Tabs \union {NoTab}, NEW r, Arrived(t, r)
    PROVE  minted + 1 \in Tokens
<1>1. /\ minted \in Nat /\ losses \in Nat /\ losses <= MaxLost
      /\ Cardinality(stray) \in Nat
  BY Strayed, BrowserAssumption DEF BInv, TypeOK, Cookies, Budget
<1>2. IsFiniteSet(Undecided) /\ Cardinality(Undecided) \in Nat
  BY FS_Subset, FS_CardinalityType, BrowserAssumption DEF Undecided
<1>3. Cardinality(Undecided) >= 1 \/ Cardinality(stray) >= 1
  <2>1. CASE t \in Tabs
    <3>1. Undecided # {}
      BY <2>1, BrowserAssumption DEF Arrived, Undecided
    <3> QED BY <3>1, <1>2, FS_EmptySet
  <2>2. CASE t \notin Tabs
    BY <2>2, Strayed DEF Arrived, BInv, Budget
  <2> QED BY <2>1, <2>2
<1> QED BY <1>1, <1>2, <1>3, BrowserAssumption DEF BInv, Budget, Tokens

LEMMA ReplyBudget ==
    ASSUME BInv, TypeOK', NEW t \in Tabs \union {NoTab}, NEW r, Arrived(t, r),
           NEW a \in Answer, Reply(t, r, a), losses' = losses,
           \/ minted' = minted
           \/ minted' = minted + 1 /\ a.cookies = "set"
    PROVE  Budget'
<1>1. CASE t \in Tabs
  <2>1. /\ At(t) = "sent" /\ tab'[t].at = "answered" /\ tab'[t].answer = a /\ stray' = stray
        /\ \A u \in Tabs \ {t} : tab'[u] = tab[u]
    BY <1>1, Replied DEF At
  <2>2. t \in Undecided /\ (a.cookies = "set" => t \notin Undecided')
    BY <1>1, <2>1 DEF Undecided, At
  <2> QED BY <1>1, <2>1, <2>2, TabBudget DEF BInv
<1>2. CASE t \notin Tabs
  <2>1. r \in stray /\ stray' = stray \ {r} /\ Undecided' = Undecided
    BY <1>2, Replied DEF Undecided, At
  <2>2. Cardinality(stray') = Cardinality(stray) - 1 /\ IsFiniteSet(stray')
        /\ Cardinality(stray) \in Nat
    BY <2>1, Strayed DEF BInv, Budget
  <2>3. Cardinality(Undecided) \in Nat
    BY FS_Subset, FS_CardinalityType, BrowserAssumption DEF Undecided
  <2>4. minted \in Nat /\ losses \in Nat
    BY BrowserAssumption DEF BInv, TypeOK, Cookies
  <2> QED BY <2>1, <2>2, <2>3, <2>4, BrowserAssumption DEF BInv, Budget
<1> QED BY <1>1, <1>2

\* The server answers without minting: tokens at most die.
LEMMA Unminting ==
    ASSUME BInv, NEW t \in Tabs \union {NoTab}, NEW r, Arrived(t, r), NEW a \in Answer,
           Reply(t, r, a), a.cookies # "set", UNCHANGED <<jar, losses, minted, line>>,
           status' \in [Tokens -> {"unminted", "active", "rotated", "dead"}],
           \A n \in Tokens : status'[n] = status[n] \/ (status[n] # "unminted" /\ status'[n] = "dead"),
           a.cookies = "clear" /\ ~a.blind =>
              /\ r.cookie # 0
              /\ status'[r.cookie] = "active" =>
                    r.kind = "logout" /\ line[r.cookie] # line[r.access]
    PROVE  BInv'
<1> USE DEF BInv
<1>0. /\ \A u \in Tabs : tab'[u].req = tab[u].req
      /\ \A u \in Tabs : u # t => tab'[u] = tab[u]
      /\ t \in Tabs => /\ tab[t].at = "sent" /\ tab'[t].at = "answered"
                       /\ tab[t].req = r /\ tab'[t].answer = a
      /\ stray' \subseteq stray
  BY Replied
<1>1. TypeOK'
  BY Replied DEF TypeOK
<1>2. Budget'
  BY <1>1, ReplyBudget
<1>3. /\ minted \in Nat /\ jar \in Nat
      /\ \A u \in Tabs : /\ tab'[u].req = tab[u].req /\ tab'[u].req.cookie \in Nat
                         /\ tab'[u].access = tab[u].access
      /\ stray' \subseteq stray
  <2>1. \A u \in Tabs : tab'[u].access = tab[u].access
    BY BrowserAssumption DEF Reply, TypeOK, Tab
  <2>2. \A u \in Tabs : tab[u].req.cookie \in Nat
    BY BrowserAssumption DEF TypeOK, Cookies, Tab, Request
  <2>3. minted \in Nat /\ jar \in Nat
    BY BrowserAssumption DEF TypeOK, Cookies
  <2> QED BY <2>1, <2>2, <2>3, <1>0
<1>4. Numbered' /\ Known' /\ Cookieless' /\ Signed'
  <2>1. Numbered'
    BY DEF Numbered
  <2>2. Known'
    BY <1>3 DEF Known
  <2>3. \A u \in Tabs : u # t => tab'[u] = tab[u]
    BY <1>0
  <2>4. t \in Tabs => tab'[t].at = "answered"
    BY <1>0
  <2>5. Cookieless'
    BY <1>3, <2>3, <2>4 DEF Cookieless, At
  <2>6. Signed'
    BY <1>3, <2>3, <2>4 DEF Signed, At
  <2> QED BY <2>1, <2>2, <2>5, <2>6
<1>5. \A u \in Tabs : Promised(u)' => u # t /\ Promised(u) /\ tab'[u] = tab[u]
  BY <1>0 DEF Promised, At
<1>6. ASSUME NEW u \in Tabs PROVE Unseen(u)'
  <2> SUFFICES ASSUME Promised(u)' PROVE Unseen(u)'
    BY DEF Unseen
  <2> DEFINE p == tab[u].answer.pair
             c == tab[u].req.cookie
  <2>1. Unseen(u) /\ Promised(u) /\ tab'[u] = tab[u]
    BY <1>5
  <2>2. /\ p \in 1 .. minted /\ p # jar /\ status[p] # "rotated"
        /\ \A v \in Tabs : tab[v].req.cookie # p
        /\ \A v \in Tabs \ {u} : Promised(v) => tab[v].answer.pair # p
        /\ \A q \in stray : q.cookie # p
        /\ c # 0 => status[c] # "active"
    BY <2>1 DEF Unseen
  <2>3. p \in Tokens /\ c \in Cookies
    BY <2>2, BrowserAssumption DEF TypeOK, Tab, Request, Tokens, Cookies
  <2>4. c # 0 => c \in Tokens
    BY <2>3, BrowserAssumption DEF Tokens, Cookies
  <2>5. status'[p] # "rotated" /\ (c # 0 => status'[c] # "active")
    BY <2>2, <2>3, <2>4
  <2> HIDE DEF p, c
  <2>6. \A v \in Tabs \ {u} : Promised(v)' => tab'[v].answer.pair # p
    BY <1>5, <2>2
  <2> QED BY <2>1, <2>2, <2>5, <2>6, <1>3 DEF Unseen, p, c
<1>7. ASSUME NEW u \in Tabs PROVE Cleared(u)'
  <2>1. CASE u = t
    <3>1. tab'[u].answer = a /\ tab'[u].req = r
      BY <2>1, Replied
    <3> QED BY <3>1 DEF Cleared
  <2>2. CASE u # t
    <3>1. tab'[u] = tab[u] /\ Cleared(u)
      BY <2>2, Replied
    <3>2. tab[u].req.cookie # 0 => tab[u].req.cookie \in Tokens
      BY BrowserAssumption DEF TypeOK, Tab, Request, Tokens, Cookies
    <3> QED BY <3>1, <3>2 DEF Cleared, At
  <2> QED BY <2>1, <2>2
<1>8. AlarmsHaveCause'
  <2> SUFFICES ASSUME jar # 0, status'[jar] = "rotated" PROVE Awaited(jar)' \/ jar \in lost'
    BY DEF AlarmsHaveCause
  <2>1. jar \in Tokens
    BY BrowserAssumption DEF TypeOK, Tokens, Cookies
  <2>2. Awaited(jar) \/ jar \in lost
    BY <2>1 DEF AlarmsHaveCause
  <2>3. ASSUME Awaited(jar) PROVE Awaited(jar)'
    <3>1. PICK u \in Tabs : Promised(u) /\ tab[u].req.cookie = jar
      BY <2>3 DEF Awaited, Promised
    <3>2. tab'[u] = tab[u]
      BY <3>1, Replied DEF Promised, At
    <3> QED BY <3>1, <3>2 DEF Awaited, Promised, At
  <2> QED BY <2>2, <2>3, Replied
<1>9. LiveSessionsAreHeld'
  <2> SUFFICES ASSUME NEW n \in Tokens, status'[n] = "active"
               PROVE  \/ n = jar \/ n \in stranded'
                      \/ \E u \in Tabs : Promised(u)' /\ tab'[u].answer.pair = n
    BY DEF LiveSessionsAreHeld, Promised, At
  <2>1. \/ n = jar \/ n \in stranded
        \/ \E u \in Tabs : Promised(u) /\ tab[u].answer.pair = n
    BY DEF LiveSessionsAreHeld, Promised, At
  <2>2. \A u \in Tabs : tab[u].at = "answered" => tab'[u] = tab[u]
    BY Replied
  <2> QED BY <2>1, <2>2, Replied DEF Promised, At
<1> QED BY <1>1, <1>2, <1>4, <1>6, <1>7, <1>8, <1>9

\* The server answers with a new pair; the cookie presented is spent by then.
LEMMA Minting ==
    ASSUME BInv, NEW t \in Tabs \union {NoTab}, NEW r, Arrived(t, r), NEW l \in Cookies,
           NEW before \in [Tokens -> {"unminted", "active", "rotated", "dead"}],
           Mint(l, before), Reply(t, r, Set(minted + 1)), UNCHANGED <<jar, losses>>,
           \A n \in Tokens : before[n] = status[n] \/ (n = r.cookie /\ status[n] = "active" /\ before[n] = "rotated"),
           r.cookie # 0 => before[r.cookie] # "active"
    PROVE  BInv'
<1> USE DEF BInv
<1> DEFINE m == minted + 1
           a == Set(m)
<1>1. /\ m \in Tokens /\ minted \in Nat /\ minted' = m /\ jar \in Nat /\ jar' = jar
      /\ status' = [before EXCEPT ![m] = "active"] /\ line' = [line EXCEPT ![m] = l]
  BY HasRoom, BrowserAssumption DEF TypeOK, Cookies, Mint
<1>2. a \in Answer /\ a.cookies = "set" /\ a.pair = m
  BY <1>1, Values DEF Tokens, Cookies
<1> HIDE DEF a
<1>3. Reply(t, r, a)
  BY DEF a
<1>4. /\ r \in Request /\ r.cookie <= minted
      /\ tab' \in [Tabs -> Tab] /\ stray' \in SUBSET Request
      /\ lost' \in SUBSET Cookies /\ stranded' \in SUBSET Cookies
      /\ lost \subseteq lost' /\ stranded \subseteq stranded' /\ stray' \subseteq stray
      /\ \A u \in Tabs : tab'[u].req = tab[u].req
      /\ \A u \in Tabs : u # t => tab'[u] = tab[u]
  BY <1>2, <1>3, Replied
<1>5. t \in Tabs => /\ tab[t].at = "sent" /\ tab'[t].at = "answered"
                    /\ tab[t].req = r /\ tab'[t].answer = a
  BY <1>2, <1>3, Replied
<1>6. t \notin Tabs => r \in stray /\ r.cookie \in lost' /\ m \in stranded'
  BY <1>2, <1>3, Replied
<1>7. /\ status \in [Tokens -> {"unminted", "active", "rotated", "dead"}]
      /\ status' \in [Tokens -> {"unminted", "active", "rotated", "dead"}]
      /\ line \in [Tokens -> Cookies] /\ line' \in [Tokens -> Cookies]
  BY <1>1 DEF TypeOK
<1>8. TypeOK'
  BY <1>1, <1>4, <1>7 DEF TypeOK, Tokens, Cookies
<1>9. Budget'
  BY <1>1, <1>2, <1>3, <1>8, ReplyBudget
<1>10. /\ \A n \in Tokens : n # m => status'[n] = before[n] /\ line'[n] = line[n]
       /\ status'[m] = "active" /\ status[m] = "unminted"
  BY <1>1, <1>7 DEF Numbered
<1>11. \A u \in Tabs : /\ tab[u].req.cookie \in Cookies /\ tab[u].req.access \in Cookies
                       /\ tab[u].access \in Cookies /\ tab'[u].access = tab[u].access
                       /\ tab[u].req.cookie <= minted /\ tab[u].req.access <= minted
                       /\ tab[u].access <= minted
  <2>1. \A u \in Tabs : tab[u] \in Tab /\ tab[u].req \in Request
    BY DEF TypeOK, Tab
  <2>2. \A u \in Tabs : tab'[u].access = tab[u].access
    BY <1>3, BrowserAssumption DEF Reply, TypeOK, Tab
  <2> QED BY <2>1, <2>2 DEF Tab, Request, Known, Signed
<1>12. Numbered'
  <2> SUFFICES ASSUME NEW n \in Tokens PROVE status'[n] = "unminted" <=> n > m
    BY <1>1 DEF Numbered
  <2>1. CASE n = m
    BY <2>1, <1>1, <1>10
  <2>2. CASE n # m
    <3>1. status'[n] = "unminted" <=> status[n] = "unminted"
      BY <2>2, <1>10
    <3>2. status[n] = "unminted" <=> n > minted
      BY DEF Numbered
    <3> QED BY <3>1, <3>2, <2>2, <1>1 DEF Tokens
  <2> QED BY <2>1, <2>2
<1>13. Known' /\ Cookieless' /\ Signed'
  <2>1. Known'
    <3>1. \A q \in stray : q.cookie \in Cookies /\ q.cookie <= minted
      BY DEF TypeOK, Request, Known
    <3> QED BY <3>1, <1>1, <1>4, <1>11 DEF Known, Cookies
  <2>2. Cookieless'
    BY <1>4, <1>5 DEF Cookieless, At
  <2>3. Signed'
    BY <1>1, <1>4, <1>5, <1>11 DEF Signed, At, Cookies
  <2> QED BY <2>1, <2>2, <2>3
<1>14. \A u \in Tabs : u # t => (Promised(u)' <=> Promised(u))
  BY <1>4 DEF Promised, At
<1>15. \A u \in Tabs : /\ tab[u].req.cookie # m
                       /\ u # t /\ Promised(u) => tab[u].answer.pair \in 1 .. minted
  BY <1>1, <1>11 DEF Unseen, Cookies
<1>16. ASSUME NEW u \in Tabs PROVE Unseen(u)'
  <2>1. CASE u = t
    <3>1. \A q \in stray' : q.cookie # m
      BY <1>1, <1>4 DEF Known, TypeOK, Request, Cookies
    <3>2. \A v \in Tabs \ {u} : Promised(v)' => tab'[v].answer.pair # m
      <4> SUFFICES ASSUME NEW v \in Tabs \ {u}, Promised(v)' PROVE tab'[v].answer.pair # m
        OBVIOUS
      <4>1. tab'[v] = tab[v] /\ tab[v].answer.pair \in 1 .. minted
        BY <2>1, <1>4, <1>14, <1>15
      <4> QED BY <4>1, <1>1
    <3>3. r.cookie # 0 => status'[r.cookie] # "active"
      <4> SUFFICES ASSUME r.cookie # 0 PROVE status'[r.cookie] # "active"
        OBVIOUS
      <4>1. r.cookie \in Tokens /\ r.cookie # m
        BY <1>1, <1>4, BrowserAssumption DEF Request, Cookies, Tokens
      <4> QED BY <4>1, <1>10
    <3>4. m # jar /\ m \in 1 .. m
      BY <1>1 DEF Known
    <3>5. tab'[u].answer.pair = m /\ tab'[u].req = r /\ \A v \in Tabs : tab'[v].req.cookie # m
      BY <2>1, <1>2, <1>4, <1>5, <1>15
    <3>6. status'[m] # "rotated"
      BY <1>10
    <3> HIDE DEF m
    <3> QED BY <1>1, <3>1, <3>2, <3>3, <3>4, <3>5, <3>6 DEF Unseen
  <2>2. CASE u # t
    <3> SUFFICES ASSUME Promised(u)' PROVE Unseen(u)'
      BY DEF Unseen
    <3> DEFINE p == tab[u].answer.pair
               c == tab[u].req.cookie
    <3>1. Unseen(u) /\ Promised(u) /\ tab'[u] = tab[u]
      BY <2>2, <1>4, <1>14
    <3>2. /\ p \in 1 .. minted /\ p # jar /\ status[p] # "rotated"
          /\ \A v \in Tabs : tab[v].req.cookie # p
          /\ \A v \in Tabs \ {u} : Promised(v) => tab[v].answer.pair # p
          /\ \A q \in stray : q.cookie # p
          /\ c # 0 => status[c] # "active"
      BY <3>1 DEF Unseen
    <3>3. c \in Cookies /\ c <= minted
      BY <1>11
    <3> HIDE DEF p, c
    <3>4. p \in Tokens /\ p # m /\ p \in 1 .. m
      BY <3>2, <1>1, BrowserAssumption DEF Tokens
    <3>5. p # r.cookie
      BY <3>2, <1>5, <1>6
    <3>6. status'[p] = status[p]
      BY <3>4, <3>5, <1>10
    <3>7. c # 0 => status'[c] # "active"
      <4> SUFFICES ASSUME c # 0 PROVE status'[c] # "active"
        OBVIOUS
      <4>1. c \in Tokens /\ c # m
        BY <3>3, <1>1, BrowserAssumption DEF Cookies, Tokens
      <4> QED BY <4>1, <3>2, <1>10
    <3>8. \A v \in Tabs \ {u} : Promised(v)' => tab'[v].answer.pair # p
      <4> SUFFICES ASSUME NEW v \in Tabs \ {u}, Promised(v)' PROVE tab'[v].answer.pair # p
        OBVIOUS
      <4>1. CASE v = t
        BY <4>1, <1>2, <1>5, <3>4
      <4>2. CASE v # t
        BY <4>2, <1>4, <1>14, <3>2
      <4> QED BY <4>1, <4>2
    <3> QED BY <3>1, <3>2, <3>4, <3>6, <3>7, <3>8, <1>1, <1>4 DEF Unseen, p, c
  <2> QED BY <2>1, <2>2
<1>17. ASSUME NEW u \in Tabs PROVE Cleared(u)'
  <2>1. CASE u = t
    BY <2>1, <1>2, <1>5 DEF Cleared
  <2>2. CASE u # t
    <3> DEFINE q == tab[u].req
    <3>1. tab'[u] = tab[u] /\ Cleared(u)
      BY <2>2, <1>4
    <3>2. /\ q.cookie \in Cookies /\ q.access \in Cookies
          /\ q.cookie <= minted /\ q.access <= minted
          /\ q.kind = "logout" => q.access # 0
      BY <1>11 DEF Signed
    <3>3. q.kind = "logout" => line'[q.access] = line[q.access]
      BY <3>2, <1>1, <1>10, BrowserAssumption DEF Cookies, Tokens
    <3>4. q.cookie # 0 => /\ line'[q.cookie] = line[q.cookie]
                          /\ status'[q.cookie] = "active" => status[q.cookie] = "active"
      BY <3>2, <1>1, <1>10, BrowserAssumption DEF Cookies, Tokens
    <3> HIDE DEF q
    <3>5. /\ tab[u].req = q /\ tab'[u].req = q
      BY <3>1 DEF q
    <3> QED BY <3>1, <3>3, <3>4, <3>5 DEF Cleared, At
  <2> QED BY <2>1, <2>2
<1>18. AlarmsHaveCause'
  <2> SUFFICES ASSUME jar # 0, status'[jar] = "rotated" PROVE Awaited(jar)' \/ jar \in lost'
    BY <1>1 DEF AlarmsHaveCause
  <2>1. jar \in Tokens /\ jar # m
    BY <1>1, BrowserAssumption DEF TypeOK, Tokens, Cookies, Known
  <2>2. CASE jar = r.cookie
    BY <2>2, <1>2, <1>4, <1>5, <1>6 DEF Awaited, At
  <2>3. CASE jar # r.cookie
    <3>1. status[jar] = "rotated"
      BY <2>1, <2>3, <1>10
    <3>2. Awaited(jar) \/ jar \in lost
      BY <2>1, <3>1 DEF AlarmsHaveCause
    <3>3. ASSUME Awaited(jar) PROVE Awaited(jar)'
      <4>1. PICK u \in Tabs : Promised(u) /\ tab[u].req.cookie = jar
        BY <3>3 DEF Awaited, Promised
      <4>2. tab'[u] = tab[u]
        BY <4>1, <1>4, <1>5 DEF Promised, At
      <4> QED BY <4>1, <4>2, <1>1 DEF Awaited, Promised, At
    <3> QED BY <3>2, <3>3, <1>4
  <2> QED BY <2>2, <2>3
<1>19. LiveSessionsAreHeld'
  <2> SUFFICES ASSUME NEW n \in Tokens, status'[n] = "active"
               PROVE  \/ n = jar \/ n \in stranded'
                      \/ \E u \in Tabs : Promised(u)' /\ tab'[u].answer.pair = n
    BY <1>1 DEF LiveSessionsAreHeld, Promised, At
  <2>1. CASE n = m
    BY <2>1, <1>2, <1>5, <1>6 DEF Promised, At
  <2>2. CASE n # m
    <3>1. \/ n = jar \/ n \in stranded
          \/ \E u \in Tabs : Promised(u) /\ tab[u].answer.pair = n
      BY <2>2, <1>10 DEF LiveSessionsAreHeld, Promised, At
    <3>2. \A u \in Tabs : tab[u].at = "answered" => tab'[u] = tab[u]
      BY <1>4, <1>5
    <3> QED BY <3>1, <3>2, <1>4 DEF Promised, At
  <2> QED BY <2>1, <2>2
<1> QED BY <1>8, <1>9, <1>12, <1>13, <1>16, <1>17, <1>18, <1>19

LEMMA LoginKeeps ==
    ASSUME BInv, NEW t \in Tabs \union {NoTab}, NEW r, Login(t, r)
    PROVE  BInv'
<1>1. Arrived(t, r) /\ r.kind = "login" /\ UNCHANGED <<jar, losses>>
  BY DEF Login
<1>2. CASE Mint(minted + 1, status) /\ Reply(t, r, Set(minted + 1))
  <2>1. minted + 1 \in Cookies
    BY <1>1, HasRoom, BrowserAssumption DEF Tokens, Cookies
  <2>2. r.cookie = 0
    BY <1>1, <1>2, <2>1, Values, Replied
  <2>3. status \in [Tokens -> {"unminted", "active", "rotated", "dead"}]
    BY DEF BInv, TypeOK
  <2>4. /\ \A n \in Tokens : status[n] = status[n] \/ (n = r.cookie /\ status[n] = "active" /\ status[n] = "rotated")
        /\ r.cookie # 0 => status[r.cookie] # "active"
    BY <2>2
  <2> QED BY <1>1, <1>2, <2>1, <2>3, <2>4, Minting, Zenon
<1>3. CASE UNCHANGED server /\ Reply(t, r, Keep)
  <2>1. status' \in [Tokens -> {"unminted", "active", "rotated", "dead"}]
    BY <1>3 DEF BInv, TypeOK, server
  <2>2. Keep \in Answer /\ Keep.cookies = "keep"
    BY Values
  <2>3. /\ UNCHANGED <<jar, losses, minted, line>> /\ Keep.cookies # "set"
        /\ \A n \in Tokens : status'[n] = status[n] \/ (status[n] # "unminted" /\ status'[n] = "dead")
        /\ Keep.cookies = "clear" /\ ~Keep.blind =>
              /\ r.cookie # 0
              /\ status'[r.cookie] = "active" =>
                    r.kind = "logout" /\ line[r.cookie] # line[r.access]
    BY <1>1, <1>3, <2>2 DEF server
  <2> HIDE DEF Keep
  <2> QED BY <1>1, <1>3, <2>1, <2>2, <2>3, Unminting, Zenon
<1> QED BY <1>2, <1>3 DEF Login

LEMMA RotateKeeps ==
    ASSUME BInv, NEW t \in Tabs \union {NoTab}, NEW r, Rotate(t, r)
    PROVE  BInv'
<1> DEFINE before == [status EXCEPT ![r.cookie] = "rotated"]
<1>1. /\ Arrived(t, r) /\ Mint(line[r.cookie], before) /\ Reply(t, r, Set(minted + 1))
      /\ UNCHANGED <<jar, losses>> /\ r.cookie # 0 /\ status[r.cookie] = "active"
  BY DEF Rotate, CsrfPasses
<1>2. Set(minted + 1) \in Answer
  BY <1>1, HasRoom, Values, BrowserAssumption DEF Tokens, Cookies
<1>3. r.cookie \in Tokens
  BY <1>1, <1>2, Replied, BrowserAssumption DEF Request, Cookies, Tokens
<1>4. /\ before \in [Tokens -> {"unminted", "active", "rotated", "dead"}]
      /\ before[r.cookie] = "rotated"
      /\ \A n \in Tokens : n # r.cookie => before[n] = status[n]
      /\ line[r.cookie] \in Cookies
  BY <1>3 DEF BInv, TypeOK
<1>5. /\ \A n \in Tokens : before[n] = status[n] \/ (n = r.cookie /\ status[n] = "active" /\ before[n] = "rotated")
      /\ r.cookie # 0 => before[r.cookie] # "active"
  BY <1>1, <1>3, <1>4
<1> HIDE DEF before
<1> QED BY <1>1, <1>4, <1>5, Minting, Zenon

\* Revoking or ending a lineage is a decay.
LEMMA Decay ==
    ASSUME BInv, NEW l
    PROVE  /\ Kills(l) \in [Tokens -> {"unminted", "active", "rotated", "dead"}]
           /\ Ends(l) \in [Tokens -> {"unminted", "active", "rotated", "dead"}]
           /\ \A n \in Tokens :
                 /\ Kills(l)[n] = status[n] \/ (status[n] # "unminted" /\ Kills(l)[n] = "dead")
                 /\ Ends(l)[n] = status[n] \/ (status[n] # "unminted" /\ Ends(l)[n] = "dead")
                 /\ Ends(l)[n] = "active" => line[n] # l
  BY DEF BInv, TypeOK, Kills, Ends

LEMMA RefuseKeeps ==
    ASSUME BInv, NEW t \in Tabs \union {NoTab}, NEW r, Refuse(t, r)
    PROVE  BInv'
<1> DEFINE a == IF CsrfPasses(r) THEN Clear ELSE ClearBlindly
<1>1. /\ Arrived(t, r) /\ Reply(t, r, a) /\ UNCHANGED <<jar, losses, minted, line>>
      /\ CsrfPasses(r) => status[r.cookie] # "active"
      /\ status' = status \/ status' = Kills(line[r.cookie])
  BY DEF Refuse
<1>2. a \in Answer /\ a.cookies = "clear" /\ (~a.blind => CsrfPasses(r))
  BY Values
<1> HIDE DEF a
<1>3. /\ status' \in [Tokens -> {"unminted", "active", "rotated", "dead"}]
      /\ \A n \in Tokens : status'[n] = status[n] \/ (status[n] # "unminted" /\ status'[n] = "dead")
  BY <1>1, Decay DEF BInv, TypeOK
<1>4. ~a.blind => r.cookie # 0 /\ status'[r.cookie] # "active"
  <2> SUFFICES ASSUME CsrfPasses(r) PROVE r.cookie # 0 /\ status'[r.cookie] # "active"
    BY <1>2
  <2>1. r.cookie \in Tokens
    BY <1>1, <1>2, Replied, BrowserAssumption DEF CsrfPasses, Request, Cookies, Tokens
  <2> QED BY <2>1, <1>1, <1>3 DEF CsrfPasses
<1>5. /\ a.cookies # "set"
      /\ a.cookies = "clear" /\ ~a.blind =>
            /\ r.cookie # 0
            /\ status'[r.cookie] = "active" =>
                  r.kind = "logout" /\ line[r.cookie] # line[r.access]
  BY <1>2, <1>4
<1> QED BY <1>1, <1>2, <1>3, <1>5, Unminting, Zenon

LEMMA UnservedKeeps ==
    ASSUME BInv, NEW t \in Tabs \union {NoTab}, NEW r, Unserved(t, r) \/ RefuseLogout(t, r)
    PROVE  BInv'
<1>1. PICK a \in {Keep, ClearBlindly} :
         Arrived(t, r) /\ Reply(t, r, a) /\ UNCHANGED <<jar, losses, server>>
  BY DEF Unserved, RefuseLogout
<1>2. a \in Answer /\ a.cookies # "set" /\ (a.cookies = "clear" => a.blind)
  BY Values
<1>3. status' \in [Tokens -> {"unminted", "active", "rotated", "dead"}]
  BY <1>1 DEF BInv, TypeOK, server
<1>4. /\ UNCHANGED <<jar, losses, minted, line>>
      /\ \A n \in Tokens : status'[n] = status[n] \/ (status[n] # "unminted" /\ status'[n] = "dead")
      /\ a.cookies = "clear" /\ ~a.blind =>
            /\ r.cookie # 0
            /\ status'[r.cookie] = "active" =>
                  r.kind = "logout" /\ line[r.cookie] # line[r.access]
  BY <1>1, <1>2 DEF server
<1> QED BY <1>1, <1>2, <1>3, <1>4, Unminting, Zenon

LEMMA LogoutKeeps ==
    ASSUME BInv, NEW t \in Tabs \union {NoTab}, NEW r, Logout(t, r)
    PROVE  BInv'
<1>1. /\ Arrived(t, r) /\ Reply(t, r, Clear) /\ UNCHANGED <<jar, losses, minted, line>>
      /\ r.kind = "logout" /\ r.cookie # 0 /\ status' = Ends(line[r.access])
  BY DEF Logout, CsrfPasses
<1>2. Clear \in Answer /\ Clear.cookies = "clear"
  BY Values
<1> HIDE DEF Clear
<1>3. r.cookie \in Tokens
  BY <1>1, <1>2, Replied, BrowserAssumption DEF Request, Cookies, Tokens
<1>4. /\ status' \in [Tokens -> {"unminted", "active", "rotated", "dead"}]
      /\ \A n \in Tokens : status'[n] = status[n] \/ (status[n] # "unminted" /\ status'[n] = "dead")
      /\ status'[r.cookie] = "active" => line[r.cookie] # line[r.access]
  BY <1>1, <1>3, Decay
<1>5. /\ Clear.cookies # "set"
      /\ Clear.cookies = "clear" /\ ~Clear.blind =>
            /\ r.cookie # 0
            /\ status'[r.cookie] = "active" =>
                  r.kind = "logout" /\ line[r.cookie] # line[r.access]
  BY <1>1, <1>2, <1>4
<1> QED BY <1>1, <1>2, <1>4, <1>5, Unminting, Zenon

LEMMA ServeKeeps ==
    ASSUME BInv, NEW t \in Tabs \union {NoTab}, NEW r, Serve(t, r)
    PROVE  BInv'
  BY LoginKeeps, RotateKeeps, RefuseKeeps, UnservedKeeps, LogoutKeeps DEF Serve

LEMMA EndElsewhereKeeps == ASSUME BInv, NEW l \in Tokens, EndElsewhere(l) PROVE BInv'
<1> USE DEF BInv
<1>1. /\ UNCHANGED <<jar, tab, stray, minted, line, losses, lost, stranded>>
      /\ status' = Ends(l)
  BY DEF EndElsewhere
<1>2. /\ status' \in [Tokens -> {"unminted", "active", "rotated", "dead"}]
      /\ \A n \in Tokens : status'[n] = status[n] \/ (status[n] # "unminted" /\ status'[n] = "dead")
  BY <1>1, Decay
<1>3. TypeOK' /\ Numbered' /\ Known' /\ Cookieless' /\ Signed'
  BY <1>1, <1>2 DEF TypeOK, Numbered, Known, Cookieless, Signed, At
<1>4. Budget'
  BY <1>1 DEF Budget, Undecided, At
<1>5. \A u \in Tabs : tab[u].req.cookie # 0 => tab[u].req.cookie \in Tokens
  BY BrowserAssumption DEF TypeOK, Tab, Request, Tokens, Cookies
<1>6. ASSUME NEW u \in Tabs PROVE Unseen(u)'
  <2> SUFFICES ASSUME Promised(u)' PROVE Unseen(u)'
    BY DEF Unseen
  <2>1. Unseen(u) /\ Promised(u)
    BY <1>1 DEF Promised, At
  <2>2. tab[u].answer.pair \in Tokens
    BY <2>1, BrowserAssumption DEF Unseen, TypeOK, Tokens, Cookies
  <2>3. \A v \in Tabs : Promised(v)' <=> Promised(v)
    BY <1>1 DEF Promised, At
  <2> QED BY <2>1, <2>2, <2>3, <1>1, <1>2, <1>5 DEF Unseen
<1>7. ASSUME NEW u \in Tabs PROVE Cleared(u)'
  BY <1>1, <1>2, <1>5 DEF Cleared, At
<1>8. AlarmsHaveCause'
  <2>1. jar # 0 => jar \in Tokens
    BY BrowserAssumption DEF TypeOK, Tokens, Cookies
  <2> QED BY <2>1, <1>1, <1>2 DEF AlarmsHaveCause, Awaited, At
<1>9. LiveSessionsAreHeld'
  BY <1>1, <1>2 DEF LiveSessionsAreHeld, At
<1> QED BY <1>3, <1>4, <1>6, <1>7, <1>8, <1>9

-----------------------------------------------------------------------------
(***************************************************************************)
(* A tab is done with its request: the answer arrives, is lost or is not      *)
(* waited for.                                                             *)
(***************************************************************************)
LEMMA Settled ==
    ASSUME BInv, NEW t \in Tabs, NEW x \in Tab, tab' = [tab EXCEPT ![t] = x],
           At(t) \in {"sent", "answered"},
           x.at \in {"hungry", "prompt", "ready"}, x.req = NoRequest, x.access <= minted,
           x.at = "ready" => x.access # 0,
           UNCHANGED server, stray' \subseteq stray \union {tab[t].req},
           jar' \in {0, jar} \/ (Promised(t) /\ jar' = tab[t].answer.pair)
    PROVE  /\ Numbered' /\ Known' /\ Cookieless' /\ Signed'
           /\ \A u \in Tabs : Unseen(u)' /\ Cleared(u)'
           /\ ~Promised(t)' /\ \A u \in Tabs : u # t => tab'[u] = tab[u] /\ (Promised(u)' <=> Promised(u))
<1> USE DEF BInv
<1>1. /\ minted' = minted /\ status' = status /\ line' = line /\ minted \in Nat
      /\ tab'[t] = x /\ \A u \in Tabs : u # t => tab'[u] = tab[u]
  BY BrowserAssumption DEF server, TypeOK, Cookies
<1>2. /\ ~Promised(t)'
      /\ \A u \in Tabs : u # t => (Promised(u)' <=> Promised(u))
  BY <1>1 DEF Promised, At
<1>3. \A u \in Tabs : tab'[u].req.cookie \in {0, tab[u].req.cookie}
  BY <1>1, Values
<1>4. jar' <= minted
  BY <1>1 DEF Known, Unseen
<1>5. Numbered' /\ Known'
  BY <1>1, <1>3, <1>4 DEF Numbered, Known
<1>6. Cookieless'
  <2>1. tab[t].req.kind = "login" => tab[t].req.cookie = 0
    BY DEF Cookieless
  <2>2. \A q \in stray' : q.kind = "login" => q.cookie = 0
    BY <2>1 DEF Cookieless
  <2>3. \A u \in Tabs : tab'[u].req.kind = "login" => tab'[u].at # "armed" /\ tab'[u].req.cookie = 0
    BY <1>1, Values DEF Cookieless, At
  <2> QED BY <2>2, <2>3 DEF Cookieless, At
<1>7. Signed'
  <2> SUFFICES ASSUME NEW u \in Tabs
               PROVE  /\ tab'[u].access <= minted /\ tab'[u].req.access <= minted
                      /\ tab'[u].at = "ready" => tab'[u].access # 0
                      /\ tab'[u].req.kind = "logout" => tab'[u].access # 0 /\ tab'[u].req.access # 0
    BY <1>1 DEF Signed, At
  <2>1. CASE u = t
    BY <2>1, <1>1, Values
  <2>2. CASE u # t
    BY <2>2, <1>1 DEF Signed, At
  <2> QED BY <2>1, <2>2
<1>8. ASSUME NEW u \in Tabs PROVE Unseen(u)'
  <2> SUFFICES ASSUME Promised(u)' PROVE Unseen(u)'
    BY DEF Unseen
  <2> DEFINE p == tab[u].answer.pair
  <2>1. u # t /\ Promised(u) /\ Unseen(u) /\ tab'[u] = tab[u]
    BY <1>1, <1>2
  <2>2. /\ p \in 1 .. minted /\ p # jar /\ status[p] # "rotated"
        /\ \A v \in Tabs : tab[v].req.cookie # p
        /\ \A v \in Tabs \ {u} : Promised(v) => tab[v].answer.pair # p
        /\ \A q \in stray : q.cookie # p
        /\ tab[u].req.cookie # 0 => status[tab[u].req.cookie] # "active"
    BY <2>1 DEF Unseen
  <2> HIDE DEF p
  <2>3. p # jar' /\ p # 0
    BY <2>1, <2>2, <1>1
  <2>4. \A v \in Tabs : tab'[v].req.cookie # p
    BY <2>2, <2>3, <1>3
  <2>5. \A v \in Tabs \ {u} : Promised(v)' => tab'[v].answer.pair # p
    BY <2>2, <1>1, <1>2
  <2>6. \A q \in stray' : q.cookie # p
    BY <2>2
  <2> QED BY <2>1, <2>2, <2>3, <2>4, <2>5, <2>6, <1>1 DEF Unseen, p
<1>9. ASSUME NEW u \in Tabs PROVE Cleared(u)'
  <2>1. CASE u = t
    BY <2>1, <1>1 DEF Cleared, At
  <2>2. CASE u # t
    BY <2>2, <1>1 DEF Cleared, At
  <2> QED BY <2>1, <2>2
<1> QED BY <1>1, <1>2, <1>5, <1>6, <1>7, <1>8, <1>9

LEMMA ReceiveKeeps == ASSUME BInv, NEW t \in Tabs, Receive(t) PROVE BInv'
<1> USE DEF BInv
<1> DEFINE r == tab[t].req
           a == tab[t].answer
           x == [tab[t] EXCEPT
                    !.at = IF a.cookies = "set" THEN "ready"
                           ELSE IF a.cookies = "clear" /\ r.kind = "logout" THEN "prompt"
                           ELSE NextStage(r.kind),
                    !.access = IF a.cookies = "set" THEN a.pair ELSE @,
                    !.req = NoRequest, !.answer = Keep]
<1>1. /\ tab[t] \in Tab /\ r \in Request /\ a \in Answer /\ r.cookie \in Cookies
      /\ a.pair \in Cookies /\ a.cookies \in {"keep", "clear", "set"} /\ a.blind \in BOOLEAN
      /\ r.kind \in {"refresh", "login", "logout"} /\ jar \in Cookies /\ 0 \in Cookies
  BY BrowserAssumption DEF TypeOK, Tab, Request, Answer, Cookies
<1>2. At(t) = "answered" /\ UNCHANGED <<stray, server, losses, lost>> /\ stranded' = stranded \union Strands(r, a)
      /\ (Promised(t) <=> a.cookies = "set")
  BY DEF Receive, Promised
<1>3. /\ a.cookies = "keep" => jar' = jar
      /\ a.cookies = "clear" => jar' = 0
      /\ a.cookies = "set" => jar' = a.pair
  BY <1>1 DEF Receive
<1>4. a.cookies = "set" => a.pair \in 1 .. minted /\ a.pair # jar /\ status[a.pair] # "rotated"
                           /\ (r.cookie # 0 => status[r.cookie] # "active")
  BY <1>2 DEF Unseen
<1>5. tab' = [tab EXCEPT ![t] = x]
  BY <1>1 DEF Receive, TypeOK, Tab
<1>6. /\ x \in Tab /\ x.req = NoRequest /\ x.at \in {"hungry", "prompt", "ready"}
      /\ x.access = IF a.cookies = "set" THEN a.pair ELSE tab[t].access
      /\ x.at = "ready" => a.cookies = "set" \/ r.kind = "logout"
      /\ a.cookies = "set" => x.at = "ready"
  BY <1>1, Values DEF Tab, NextStage
<1>7. x.access <= minted /\ (x.at = "ready" => x.access # 0)
  BY <1>1, <1>4, <1>6 DEF Signed, Cookies
<1> HIDE DEF x
<1>8. Strands(r, a) \subseteq {jar}
  BY DEF Strands
<1>9. TypeOK'
  BY <1>1, <1>2, <1>3, <1>5, <1>6, <1>8 DEF TypeOK, server
<1>10. tab'[t] = x /\ \A u \in Tabs \ {t} : tab'[u] = tab[u]
  BY <1>5, <1>6 DEF TypeOK
<1>11. Budget'
  <2>1. t \in Undecided \/ t \notin Undecided'
    BY <1>2, <1>6, <1>10 DEF Undecided, At
  <2> QED BY <2>1, <1>2, <1>9, <1>10, TabBudget DEF server
<1>12. jar' \in {0, jar} \/ (Promised(t) /\ jar' = tab[t].answer.pair)
  BY <1>1, <1>2, <1>3
<1>13. /\ Numbered' /\ Known' /\ Cookieless' /\ Signed'
       /\ \A u \in Tabs : Unseen(u)' /\ Cleared(u)'
       /\ ~Promised(t)' /\ \A u \in Tabs : u # t => tab'[u] = tab[u] /\ (Promised(u)' <=> Promised(u))
  BY <1>2, <1>5, <1>6, <1>7, <1>12, Settled
<1>14. /\ minted' = minted /\ status' = status /\ line' = line /\ lost' = lost
  BY <1>2 DEF server
<1>15. AlarmsHaveCause'
  <2> SUFFICES ASSUME jar' # 0, status[jar'] = "rotated" PROVE Awaited(jar)' \/ jar' \in lost
    BY <1>14 DEF AlarmsHaveCause, Awaited, At
  <2>1. a.cookies = "keep" /\ jar' = jar
    BY <1>1, <1>3, <1>4
  <2>2. CASE Awaited(jar)
    <3>1. PICK u \in Tabs : Promised(u) /\ tab[u].req.cookie = jar
      BY <2>2 DEF Awaited, Promised
    <3>2. u # t
      BY <3>1, <2>1, <1>2
    <3>3. Promised(u)' /\ tab'[u].req.cookie = jar'
      BY <3>1, <3>2, <2>1, <1>13
    <3> QED BY <3>3 DEF Awaited, Promised, At
  <2> QED BY <2>1, <2>2 DEF AlarmsHaveCause
<1>16. LiveSessionsAreHeld'
  <2> SUFFICES ASSUME NEW n \in Tokens, status[n] = "active"
               PROVE  \/ n = jar' \/ n \in stranded'
                      \/ \E u \in Tabs : Promised(u)' /\ tab'[u].answer.pair = n
    BY <1>14 DEF LiveSessionsAreHeld, Promised, At
  <2>1. \/ n = jar \/ n \in stranded
        \/ \E u \in Tabs : Promised(u) /\ tab[u].answer.pair = n
    BY DEF LiveSessionsAreHeld, Promised, At
  <2>2. CASE n = jar
    <3>1. jar # 0
      BY <2>2 DEF Tokens
    <3>2. CASE a.cookies = "keep"
      BY <3>2, <2>2, <1>3
    <3>3. CASE a.cookies = "set"
      <4>1. r.cookie # jar
        BY <3>1, <3>3, <2>2, <1>4
      <4> QED BY <4>1, <3>3, <2>2, <1>2 DEF Strands
    <3>4. CASE a.cookies = "clear"
      <4>1. r.cookie # jar \/ a.blind \/ (r.kind = "logout" /\ jar # 0 /\ line[r.access] # line[jar])
        BY <3>1, <3>4, <2>2, <1>1, <1>2 DEF Cleared
      <4> QED BY <4>1, <3>4, <2>2, <1>2 DEF Strands
    <3> QED BY <3>2, <3>3, <3>4, <1>1
  <2>3. CASE n \in stranded
    BY <2>3, <1>2
  <2>4. ASSUME NEW u \in Tabs, Promised(u), tab[u].answer.pair = n
        PROVE  n = jar' \/ \E v \in Tabs : Promised(v)' /\ tab'[v].answer.pair = n
    BY <2>4, <1>2, <1>3, <1>13
  <2> QED BY <2>1, <2>2, <2>3, <2>4
<1> QED BY <1>9, <1>11, <1>13, <1>15, <1>16

LEMMA LoseKeeps == ASSUME BInv, NEW t \in Tabs, Lose(t) PROVE BInv'
<1> USE DEF BInv
<1> DEFINE r == tab[t].req
           a == tab[t].answer
           x == [tab[t] EXCEPT !.at = NextStage(r.kind), !.req = NoRequest, !.answer = Keep]
<1>1. /\ tab[t] \in Tab /\ r \in Request /\ a \in Answer
      /\ r.cookie \in Cookies /\ a.pair \in Cookies /\ r.kind \in {"refresh", "login", "logout"}
  BY DEF TypeOK, Tab, Request, Answer
<1>2. /\ At(t) = "answered" /\ UNCHANGED <<jar, stray, server>> /\ losses' = losses + 1
      /\ losses < MaxLost
      /\ lost' = IF a.cookies = "set" THEN lost \union {r.cookie} ELSE lost
      /\ stranded' = stranded \union {a.pair}
      /\ (Promised(t) <=> a.cookies = "set")
  BY DEF Lose, Promised
<1>3. tab' = [tab EXCEPT ![t] = x]
  BY <1>1 DEF Lose, TypeOK, Tab
<1>4. /\ x \in Tab /\ x.req = NoRequest /\ x.at \in {"hungry", "prompt", "ready"}
      /\ x.access = tab[t].access /\ (x.at = "ready" => r.kind = "logout")
  BY <1>1, Values DEF Tab, NextStage
<1>5. x.access <= minted /\ (x.at = "ready" => x.access # 0)
  BY <1>4 DEF Signed
<1> HIDE DEF x
<1>6. TypeOK'
  BY <1>1, <1>2, <1>3, <1>4, BrowserAssumption DEF TypeOK, server
<1>7. tab'[t] = x /\ \A u \in Tabs \ {t} : tab'[u] = tab[u]
  BY <1>3, <1>4 DEF TypeOK
<1>8. Budget'
  BY <1>2, <1>6, <1>7, TabBudget DEF server
<1>9. /\ Numbered' /\ Known' /\ Cookieless' /\ Signed'
      /\ \A u \in Tabs : Unseen(u)' /\ Cleared(u)'
      /\ ~Promised(t)' /\ \A u \in Tabs : u # t => tab'[u] = tab[u] /\ (Promised(u)' <=> Promised(u))
  BY <1>2, <1>3, <1>4, <1>5, Settled
<1>10. jar' = jar /\ status' = status
  BY <1>2 DEF server
<1>11. AlarmsHaveCause'
  <2> SUFFICES ASSUME jar # 0, status[jar] = "rotated" PROVE Awaited(jar)' \/ jar \in lost'
    BY <1>10 DEF AlarmsHaveCause, Awaited, At
  <2>1. ASSUME NEW u \in Tabs, Promised(u), tab[u].req.cookie = jar
        PROVE  Awaited(jar)' \/ jar \in lost'
    <3>1. CASE u = t
      BY <3>1, <2>1, <1>2
    <3>2. CASE u # t
      BY <3>2, <2>1, <1>9, <1>10 DEF Awaited, Promised, At
    <3> QED BY <3>1, <3>2
  <2>2. Awaited(jar) \/ jar \in lost
    BY DEF AlarmsHaveCause
  <2> QED BY <2>1, <2>2, <1>2 DEF Awaited, Promised
<1>12. LiveSessionsAreHeld'
  <2> SUFFICES ASSUME NEW n \in Tokens, status[n] = "active"
               PROVE  \/ n = jar \/ n \in stranded'
                      \/ \E u \in Tabs : Promised(u)' /\ tab'[u].answer.pair = n
    BY <1>10 DEF LiveSessionsAreHeld, Promised, At
  <2>1. \/ n = jar \/ n \in stranded
        \/ \E u \in Tabs : Promised(u) /\ tab[u].answer.pair = n
    BY DEF LiveSessionsAreHeld, Promised, At
  <2>2. ASSUME NEW u \in Tabs, Promised(u), tab[u].answer.pair = n
        PROVE  n \in stranded' \/ \E v \in Tabs : Promised(v)' /\ tab'[v].answer.pair = n
    BY <2>2, <1>2, <1>9
  <2> QED BY <2>1, <2>2, <1>2
<1> QED BY <1>6, <1>8, <1>9, <1>11, <1>12

LEMMA AbandonKeeps == ASSUME BInv, NEW t \in Tabs, Abandon(t) PROVE BInv'
<1> USE DEF BInv
<1> DEFINE r == tab[t].req
           x == [tab[t] EXCEPT !.at = NextStage(r.kind), !.req = NoRequest]
<1>1. tab[t] \in Tab /\ r \in Request /\ r.kind \in {"refresh", "login", "logout"}
  BY DEF TypeOK, Tab, Request
<1>2. /\ At(t) = "sent" /\ UNCHANGED <<jar, server, lost, stranded>> /\ losses' = losses + 1
      /\ losses < MaxLost /\ stray' = stray \union {r}
  BY DEF Abandon
<1>3. tab' = [tab EXCEPT ![t] = x]
  BY <1>1 DEF Abandon, TypeOK, Tab
<1>4. /\ x \in Tab /\ x.req = NoRequest /\ x.at \in {"hungry", "prompt", "ready"}
      /\ x.access = tab[t].access /\ (x.at = "ready" => r.kind = "logout")
  BY <1>1, Values DEF Tab, NextStage
<1>5. x.access <= minted /\ (x.at = "ready" => x.access # 0)
  BY <1>4 DEF Signed
<1> HIDE DEF x
<1>6. TypeOK'
  BY <1>1, <1>2, <1>3, <1>4, BrowserAssumption DEF TypeOK, server
<1>7. tab'[t] = x /\ \A u \in Tabs \ {t} : tab'[u] = tab[u]
  BY <1>3, <1>4 DEF TypeOK
<1>8. Budget'
  <2>1. /\ IsFiniteSet(stray') /\ Cardinality(stray') \in Nat /\ Cardinality(stray) \in Nat
        /\ Cardinality(stray') <= Cardinality(stray) + 1
    BY <1>2, Strayed DEF Budget
  <2>2. t \in Undecided
    BY <1>2 DEF Undecided
  <2>3. /\ Cardinality(Undecided) \in Nat /\ Cardinality(Undecided') \in Nat
        /\ Cardinality(Undecided') <= Cardinality(Undecided)
    BY <1>7, <2>2, Counted
  <2>4. minted' = minted /\ minted \in Nat /\ losses \in Nat
    BY <1>2, BrowserAssumption DEF TypeOK, Cookies, server
  <2> QED BY <2>1, <2>3, <2>4, <1>2, BrowserAssumption DEF Budget
<1>9. /\ Numbered' /\ Known' /\ Cookieless' /\ Signed'
      /\ \A u \in Tabs : Unseen(u)' /\ Cleared(u)'
      /\ ~Promised(t)' /\ \A u \in Tabs : u # t => tab'[u] = tab[u] /\ (Promised(u)' <=> Promised(u))
  BY <1>2, <1>3, <1>4, <1>5, Settled
<1>10. jar' = jar /\ status' = status /\ lost' = lost /\ stranded' = stranded /\ ~Promised(t)
  BY <1>2 DEF server, Promised
<1>11. AlarmsHaveCause'
  <2>1. Awaited(jar) => Awaited(jar)'
    BY <1>9, <1>10 DEF Awaited, Promised, At
  <2> QED BY <2>1, <1>10 DEF AlarmsHaveCause, Awaited, At
<1>12. LiveSessionsAreHeld'
  BY <1>9, <1>10 DEF LiveSessionsAreHeld, Promised, At
<1> QED BY <1>6, <1>8, <1>9, <1>11, <1>12

LEMMA BeginLogoutKeeps == ASSUME BInv, NEW t \in Tabs, BeginLogout(t) PROVE BInv'
  BY ArmKeeps DEF BeginLogout

-----------------------------------------------------------------------------
LEMMA StutterKeeps == ASSUME BInv, UNCHANGED vars PROVE BInv'
  BY DEF vars, BInv, TypeOK, Budget, Undecided, Numbered, Known, Cookieless, Signed,
         Unseen, Promised, Cleared, AlarmsHaveCause, Awaited, LiveSessionsAreHeld, At

LEMMA NextKeeps == ASSUME BInv, [Next]_vars PROVE BInv'
<1>1. CASE UNCHANGED vars
  BY <1>1, StutterKeeps
<1>2. ASSUME NEW t \in Tabs,
             \/ Expire(t) \/ BeginLogin(t) \/ BeginLogout(t) \/ Proceed(t)
             \/ ServeTab(t) \/ Lose(t) \/ Abandon(t)
      PROVE  BInv'
  <2>1. CASE Expire(t) \/ BeginLogin(t) \/ BeginLogout(t)
    BY <2>1, ExpireKeeps, BeginLoginKeeps, BeginLogoutKeeps
  <2>2. CASE Proceed(t)
    BY <2>2, ReadCsrfKeeps, SendKeeps, ReceiveKeeps DEF Proceed
  <2>3. CASE ServeTab(t)
    BY <2>3, ServeKeeps DEF ServeTab
  <2>4. CASE Lose(t) \/ Abandon(t)
    BY <2>4, LoseKeeps, AbandonKeeps
  <2> QED BY <1>2, <2>1, <2>2, <2>3, <2>4
<1>3. ASSUME NEW r \in stray, Serve(NoTab, r) PROVE BInv'
  BY <1>3, ServeKeeps
<1>4. ASSUME NEW l \in Tokens, EndElsewhere(l) PROVE BInv'
  BY <1>4, EndElsewhereKeeps
<1> QED BY <1>1, <1>2, <1>3, <1>4 DEF Next

\* The inductive invariant of the browser and its endpoints.
THEOREM Invariance == Spec => []BInv
<1>1. Spec => Init /\ [][Next]_vars
  BY DEF Spec
<1> QED BY <1>1, InitBInv, NextKeeps, PTL

\* Every variable keeps its type (the jar, the tabs and the server's rows).
THEOREM TypeCorrect == Spec => []TypeOK
  BY Invariance, PTL DEF BInv

\* Tabs that take turns never look like a thief, whatever the network delays
\* (RefreshView, _attach_cookies, _handle_reuse).
THEOREM NoFalseAlarm == Spec => []AlarmsHaveCause
  BY Invariance, PTL DEF BInv

\* The browser loses a live session only in the ways the model lists
\* (RefreshView.handle_exception, LogoutView).
THEOREM LiveSessionsHeld == Spec => []LiveSessionsAreHeld
  BY Invariance, PTL DEF BInv

-----------------------------------------------------------------------------
(***************************************************************************)
(* The rows behind the cookies implement SingleUseLineages.                 *)
(***************************************************************************)

\* A lineage has at most one pair that can be exchanged, and a minted pair is in
\* a lineage that a minted pair began.
OneLive == \A m, n \in Tokens :
    status[m] = "active" /\ status[n] = "active" /\ line[m] = line[n] => m = n
Begun == \A n \in Tokens : IF n > minted THEN line[n] = 0 ELSE line[n] \in 1 .. minted
Lineal == OneLive /\ Begun

HeadsKnown == \A l \in Tokens :
    /\ LineageHead[l] \in Cookies
    /\ \A n \in Tokens : LineageHead[l] = n <=> n \in Live(l)

LEMMA HeadsAreKnown == OneLive => HeadsKnown
<1> SUFFICES ASSUME OneLive, NEW l \in Tokens
             PROVE  /\ LineageHead[l] \in Cookies
                    /\ \A n \in Tokens : LineageHead[l] = n <=> n \in Live(l)
  BY DEF HeadsKnown
<1>1. Live(l) \subseteq Tokens /\ \A m, n \in Live(l) : m = n
  BY DEF Live, Pairs, OneLive
<1>2. LineageHead[l] = IF Live(l) = {} THEN 0 ELSE CHOOSE n \in Live(l) : TRUE
  BY DEF LineageHead, TheOnly
<1>3. 0 \notin Tokens /\ 0 \in Cookies /\ Tokens \subseteq Cookies
  BY BrowserAssumption DEF Tokens, Cookies
<1>4. CASE Live(l) = {}
  BY <1>2, <1>3, <1>4
<1>5. CASE Live(l) # {}
  <2>1. (CHOOSE n \in Live(l) : TRUE) \in Live(l)
    BY <1>5
  <2> QED BY <1>1, <1>2, <1>3, <1>5, <2>1
<1> QED BY <1>4, <1>5

LEMMA InitRefines == Init => Lineal /\ Promise!Init
<1> SUFFICES ASSUME Init PROVE Lineal /\ Promise!Init
  OBVIOUS
<1>1. Lineal
  BY DEF Init, Lineal, OneLive, Begun, Tokens
<1>2. \A l \in Tokens : Pairs(l) = {} /\ Live(l) = {}
  BY BrowserAssumption DEF Init, Pairs, Live, Tokens
<1>3. /\ LineageStage = [l \in Tokens |-> "unopened"]
      /\ LineageHead = [l \in Tokens |-> 0]
      /\ SpentTokens = {}
  BY <1>2 DEF LineageStage, LineageHead, TheOnly, SpentTokens, Init
<1> QED BY <1>1, <1>3 DEF Promise!Init

\* What a step of the model does to the rows: nothing, a login, an exchange, or
\* the end of a session.
LEMMA ServerStep ==
    ASSUME BInv, [Next]_vars
    PROVE  \/ UNCHANGED server
           \/ Mint(minted + 1, status)
           \/ \E c \in Tokens : /\ status[c] = "active"
                                /\ Mint(line[c], [status EXCEPT ![c] = "rotated"])
           \/ \E l : /\ status' = Kills(l) \/ status' = Ends(l)
                     /\ UNCHANGED <<minted, line>>
<1> DEFINE Moves ==
           \/ UNCHANGED server
           \/ Mint(minted + 1, status)
           \/ \E c \in Tokens : /\ status[c] = "active"
                                /\ Mint(line[c], [status EXCEPT ![c] = "rotated"])
           \/ \E l : /\ status' = Kills(l) \/ status' = Ends(l)
                     /\ UNCHANGED <<minted, line>>
<1>1. CASE UNCHANGED vars
  BY <1>1 DEF vars, server
<1>2. ASSUME NEW t \in Tabs \union {NoTab}, NEW r \in Request, r.cookie # 0 => r.cookie \in Tokens,
             Serve(t, r)
      PROVE  Moves
  <2>1. CASE Login(t, r)
    BY <2>1 DEF Login
  <2>2. CASE Rotate(t, r)
    BY <1>2, <2>2 DEF Rotate, CsrfPasses
  <2>3. CASE Refuse(t, r)
    BY <2>3 DEF Refuse, server
  <2>4. CASE Unserved(t, r) \/ RefuseLogout(t, r)
    BY <2>4 DEF Unserved, RefuseLogout
  <2>5. CASE Logout(t, r)
    BY <2>5 DEF Logout
  <2> QED BY <1>2, <2>1, <2>2, <2>3, <2>4, <2>5 DEF Serve
<1>3. \A r \in Request : r.cookie # 0 => r.cookie \in Tokens
  BY BrowserAssumption DEF Request, Cookies, Tokens
<1>4. ASSUME NEW t \in Tabs, ServeTab(t) PROVE Moves
  <2>1. tab[t].req \in Request
    BY DEF BInv, TypeOK, Tab
  <2> QED BY <1>2, <1>3, <1>4, <2>1 DEF ServeTab
<1>5. ASSUME NEW r \in stray, Serve(NoTab, r) PROVE Moves
  BY <1>2, <1>3, <1>5 DEF BInv, TypeOK
<1>6. ASSUME NEW l \in Tokens, EndElsewhere(l) PROVE Moves
  BY <1>6 DEF EndElsewhere
<1>7. ASSUME NEW t \in Tabs,
             \/ Expire(t) \/ BeginLogin(t) \/ BeginLogout(t) \/ Proceed(t) \/ Lose(t) \/ Abandon(t)
      PROVE  UNCHANGED server
  BY <1>7 DEF Expire, BeginLogin, BeginLogout, Proceed, ReadCsrf, Send, Receive, Lose, Abandon
<1> HIDE DEF Moves
<1>8. UNCHANGED server => Moves
  BY DEF Moves
<1>9. Moves
  BY <1>1, <1>4, <1>5, <1>6, <1>7, <1>8, Zenon DEF Next, vars, server
<1> QED BY <1>9 DEF Moves

\* A step that leaves the pairs of every lineage and its live one alone.
LEMMA SameLineages ==
    ASSUME \A l \in Tokens : Pairs(l)' = Pairs(l) /\ Live(l)' = Live(l),
           SpentTokens' = SpentTokens
    PROVE  UNCHANGED Promise!vars
<1>1. LineageStage' = LineageStage /\ LineageHead' = LineageHead
  BY DEF LineageStage, LineageHead
<1> QED BY <1>1 DEF Promise!vars

LEMMA QuietRefines ==
    ASSUME Lineal, UNCHANGED server
    PROVE  Lineal' /\ UNCHANGED Promise!vars
<1>1. Lineal'
  BY DEF Lineal, OneLive, Begun, server
<1>2. /\ \A l \in Tokens : Pairs(l)' = Pairs(l) /\ Live(l)' = Live(l)
      /\ SpentTokens' = SpentTokens
  BY DEF Pairs, Live, SpentTokens, server
<1> QED BY <1>1, <1>2, SameLineages

\* The pair of a mint is new to every lineage.
LEMMA MintedRow ==
    ASSUME BInv, TypeOK', Lineal, NEW l, NEW before \in [Tokens -> {"unminted", "active", "rotated", "dead"}], Mint(l, before)
    PROVE  /\ minted + 1 \in Tokens /\ minted' = minted + 1
           /\ status[minted + 1] = "unminted" /\ line[minted + 1] = 0
           /\ status'[minted + 1] = "active" /\ line'[minted + 1] = l
           /\ \A m \in Tokens \ {minted + 1} : status'[m] = before[m] /\ line'[m] = line[m]
           /\ Promise!Fresh(minted + 1)
<1> DEFINE n == minted + 1
<1>1. minted \in Nat /\ n \in Tokens /\ minted' = n
  BY BrowserAssumption DEF BInv, TypeOK, Mint, Cookies, Tokens
<1>2. status[n] = "unminted" /\ line[n] = 0
  BY <1>1 DEF BInv, Numbered, Lineal, Begun
<1>3. /\ status'[n] = "active" /\ line'[n] = l
      /\ \A m \in Tokens \ {n} : status'[m] = before[m] /\ line'[m] = line[m]
  BY <1>1 DEF Mint, BInv, TypeOK
<1>4. HeadsKnown
  BY HeadsAreKnown DEF Lineal
<1>5. n \notin SpentTokens /\ \A k \in Tokens : LineageHead[k] # n
  BY <1>1, <1>2, <1>4 DEF SpentTokens, HeadsKnown, Live
<1> QED BY <1>1, <1>2, <1>3, <1>5 DEF Promise!Fresh

LEMMA LoginRefines ==
    ASSUME BInv, TypeOK', Lineal, Mint(minted + 1, status)
    PROVE  Lineal' /\ Promise!Next
<1>0. PICK n : n = minted + 1
  OBVIOUS
<1>1. status \in [Tokens -> {"unminted", "active", "rotated", "dead"}] /\ minted \in Nat
  BY BrowserAssumption DEF BInv, TypeOK, Cookies
<1>2. /\ n \in Tokens /\ minted' = n
      /\ status[n] = "unminted" /\ line[n] = 0
      /\ status'[n] = "active" /\ line'[n] = n
      /\ \A m \in Tokens \ {n} : status'[m] = status[m] /\ line'[m] = line[m]
      /\ Promise!Fresh(n)
  BY <1>0, <1>1, MintedRow
<1>3. \A m \in Tokens : line[m] # n
  BY <1>0, <1>1 DEF Lineal, Begun
<1>4. Begun'
  BY <1>0, <1>1, <1>2 DEF Lineal, Begun, Tokens
<1>4a. Lineal'
  BY <1>2, <1>3, <1>4 DEF Lineal, OneLive
<1>5. HeadsKnown'
  BY <1>4a, HeadsAreKnown, PTL DEF Lineal
<1>6. /\ Pairs(n) = {} /\ Pairs(n)' = {n} /\ Live(n)' = {n}
      /\ \A k \in Tokens \ {n} : Pairs(k)' = Pairs(k) /\ Live(k)' = Live(k)
  <2>1. \A m \in Tokens : line'[m] = n <=> m = n
    BY <1>2, <1>3
  <2>2. Pairs(n)' = {n} /\ Live(n)' = {n}
    BY <1>2, <2>1 DEF Pairs, Live
  <2>3. Pairs(n) = {}
    BY <1>3 DEF Pairs
  <2>4. ASSUME NEW k \in Tokens \ {n} PROVE Pairs(k)' = Pairs(k) /\ Live(k)' = Live(k)
    <3>1. k # 0 /\ k # n
      BY <2>4 DEF Tokens
    <3>2. \A m \in Tokens : line'[m] = k <=> line[m] = k
      BY <1>2, <3>1
    <3>3. \A m \in Tokens : line[m] = k => status'[m] = status[m]
      BY <1>2, <3>1
    <3> QED BY <3>2, <3>3 DEF Pairs, Live
  <2> QED BY <2>2, <2>3, <2>4
<1>7. LineageStage[n] = "unopened"
  BY <1>2, <1>6 DEF LineageStage
<1>8. LineageStage' = [k \in Tokens |-> IF k = n THEN "open"
                                        ELSE IF k \in {} THEN "closed" ELSE LineageStage[k]]
  BY <1>6 DEF LineageStage
<1>9. LineageHead' = [k \in Tokens |-> IF k = n THEN n
                                       ELSE IF k \in {} THEN 0 ELSE LineageHead[k]]
  <2>1. LineageHead'[n] = n
    BY <1>2, <1>5, <1>6 DEF HeadsKnown
  <2> QED BY <1>6, <2>1 DEF LineageHead
<1>10. SpentTokens' = SpentTokens \union Promise!Heads({})
  BY <1>2 DEF SpentTokens, Promise!Heads
<1>11. Promise!Open(n, n, {})
  BY <1>2, <1>7, <1>8, <1>9, <1>10 DEF Promise!Open
<1> QED BY <1>2, <1>4a, <1>11 DEF Promise!Next

LEMMA RotateRefines ==
    ASSUME BInv, TypeOK', Lineal, NEW c \in Tokens, status[c] = "active",
           Mint(line[c], [status EXCEPT ![c] = "rotated"])
    PROVE  Lineal' /\ Promise!Next
<1>0. PICK n, l : n = minted + 1 /\ l = line[c]
  OBVIOUS
<1> DEFINE before == [status EXCEPT ![c] = "rotated"]
<1>1. minted \in Nat /\ minted <= MaxTokens /\ c <= minted /\ c \in 1 .. minted
  BY BrowserAssumption DEF BInv, TypeOK, Cookies, Tokens, Numbered
<1>2. l \in 1 .. minted /\ l \in Tokens
  BY <1>0, <1>1, BrowserAssumption DEF Lineal, Begun, Tokens
<1>3. before \in [Tokens -> {"unminted", "active", "rotated", "dead"}] /\ before[c] = "rotated"
      /\ \A m \in Tokens \ {c} : before[m] = status[m]
  BY DEF BInv, TypeOK
<1> HIDE DEF before
<1>4. Mint(l, before)
  BY <1>0 DEF before
<1>5. /\ n \in Tokens /\ minted' = n /\ status[n] = "unminted" /\ line[n] = 0
      /\ status'[n] = "active" /\ line'[n] = l
      /\ \A m \in Tokens \ {n} : status'[m] = before[m] /\ line'[m] = line[m]
      /\ Promise!Fresh(n)
  BY <1>0, <1>3, <1>4, MintedRow
<1>6. c # n /\ l # n /\ status'[c] = "rotated" /\ line'[c] = l
      /\ \A m \in Tokens \ {n, c} : status'[m] = status[m] /\ line'[m] = line[m]
  BY <1>0, <1>1, <1>2, <1>3, <1>5
<1>7. \A m \in Tokens : status[m] = "active" /\ line[m] = l => m = c
  BY <1>0 DEF Lineal, OneLive
<1>8. Lineal'
  <2>1. OneLive'
    BY <1>5, <1>6, <1>7 DEF Lineal, OneLive
  <2>2. Begun'
    BY <1>0, <1>1, <1>2, <1>5 DEF Lineal, Begun, Tokens
  <2> QED BY <2>1, <2>2 DEF Lineal
<1>9. HeadsKnown /\ HeadsKnown'
  BY <1>8, HeadsAreKnown, PTL DEF Lineal
<1>10. /\ c \in Live(l) /\ c \in Pairs(l) /\ n \in Live(l)' /\ n \in Pairs(l)'
       /\ \A k \in Tokens \ {l} : Pairs(k)' = Pairs(k) /\ Live(k)' = Live(k)
  <2>1. c \in Live(l) /\ c \in Pairs(l) /\ n \in Live(l)' /\ n \in Pairs(l)'
    BY <1>0, <1>5 DEF Live, Pairs
  <2>2. ASSUME NEW k \in Tokens \ {l} PROVE Pairs(k)' = Pairs(k) /\ Live(k)' = Live(k)
    <3>1. \A m \in Tokens : line'[m] = k <=> line[m] = k
      BY <1>1, <1>5, <1>6, <2>2 DEF Tokens
    <3>2. \A m \in Tokens : line[m] = k => status'[m] = status[m]
      BY <1>1, <1>5, <1>6, <2>2 DEF Tokens
    <3> QED BY <3>1, <3>2 DEF Pairs, Live
  <2> QED BY <2>1, <2>2
<1>11. LineageHead[l] = c /\ LineageHead'[l] = n /\ LineageHead[l] # 0
  BY <1>1, <1>2, <1>5, <1>9, <1>10 DEF HeadsKnown
<1>12. LineageStage[l] = "open" /\ LineageStage' = LineageStage
  BY <1>2, <1>10 DEF LineageStage
<1>13. LineageHead' = [LineageHead EXCEPT ![l] = n]
  BY <1>2, <1>10, <1>11 DEF LineageHead
<1>14. SpentTokens' = SpentTokens \union {LineageHead[l]}
  BY <1>5, <1>6, <1>11 DEF SpentTokens
<1>15. Promise!Rotate(l, n)
  BY <1>5, <1>11, <1>12, <1>13, <1>14 DEF Promise!Rotate
<1> QED BY <1>2, <1>5, <1>8, <1>15 DEF Promise!Next

LEMMA EndRefines ==
    ASSUME BInv, TypeOK', Lineal, NEW l, status' = Kills(l) \/ status' = Ends(l),
           UNCHANGED <<minted, line>>
    PROVE  Lineal' /\ [Promise!Next]_(Promise!vars)
<1>1. \A n \in Tokens : /\ status'[n] = status[n]
                           \/ (line[n] = l /\ status[n] # "unminted" /\ status'[n] = "dead")
                        /\ line[n] = l => status'[n] # "active"
  BY DEF Kills, Ends
<1>2. Lineal'
  BY <1>1 DEF Lineal, OneLive, Begun
<1>3. \A k \in Tokens : Pairs(k)' = Pairs(k) /\ (k # l => Live(k)' = Live(k))
  <2> SUFFICES ASSUME NEW k \in Tokens PROVE Pairs(k)' = Pairs(k) /\ (k # l => Live(k)' = Live(k))
    OBVIOUS
  <2>1. Pairs(k)' = Pairs(k)
    BY DEF Pairs
  <2>2. k # l => \A n \in Tokens : line[n] = k => status'[n] = status[n]
    BY <1>1
  <2> QED BY <2>1, <2>2 DEF Live, Pairs
<1>4. Live(l)' = {}
  BY <1>1 DEF Live, Pairs
<1>5. \A n \in Tokens : n \in SpentTokens' <=> n \in SpentTokens \/ n \in Live(l)
  <2> SUFFICES ASSUME NEW n \in Tokens PROVE n \in SpentTokens' <=> n \in SpentTokens \/ n \in Live(l)
    OBVIOUS
  <2>1. status[n] \in {"unminted", "active", "rotated", "dead"}
    BY DEF BInv, TypeOK
  <2>2. n \in Live(l) <=> line[n] = l /\ status[n] = "active"
    BY DEF Live, Pairs
  <2>3. /\ n \in SpentTokens <=> status[n] \in {"rotated", "dead"}
        /\ n \in SpentTokens' <=> status'[n] \in {"rotated", "dead"}
    BY DEF SpentTokens
  <2> QED BY <1>1, <2>1, <2>2, <2>3
<1>6. SpentTokens \subseteq Tokens /\ SpentTokens' \subseteq Tokens /\ Live(l) \subseteq Tokens
  BY DEF SpentTokens, Live, Pairs
<1>7. CASE Live(l) = {}
  <2>1. \A k \in Tokens : Pairs(k)' = Pairs(k) /\ Live(k)' = Live(k)
    BY <1>3, <1>4, <1>7
  <2>2. SpentTokens' = SpentTokens
    BY <1>5, <1>6, <1>7
  <2> QED BY <1>2, <2>1, <2>2, SameLineages
<1>8. CASE Live(l) # {}
  <2>1. PICK c \in Tokens : c \in Live(l)
    BY <1>8, <1>6
  <2>2. l \in Tokens /\ c \in Pairs(l)
    <3>1. status[c] = "active" /\ line[c] = l /\ c \in Pairs(l)
      BY <2>1 DEF Live, Pairs
    <3>2. minted \in Nat /\ minted <= MaxTokens /\ ~(c > minted)
      BY <3>1, BrowserAssumption DEF BInv, TypeOK, Cookies, Numbered
    <3> QED BY <3>1, <3>2, BrowserAssumption DEF Lineal, Begun, Tokens
  <2>3. HeadsKnown
    BY HeadsAreKnown DEF Lineal
  <2>4. LineageHead[l] = c /\ c # 0 /\ Live(l) = {c}
    <3>1. LineageHead[l] = c
      BY <2>1, <2>2, <2>3 DEF HeadsKnown
    <3>2. \A n \in Tokens : n \in Live(l) => n = c
      BY <2>2, <2>3, <3>1 DEF HeadsKnown
    <3> QED BY <1>6, <2>1, <3>1, <3>2 DEF Tokens
  <2>5. LineageStage' = [k \in Tokens |-> IF k \in {l} THEN "closed" ELSE LineageStage[k]]
    BY <1>3, <1>4, <2>2 DEF LineageStage
  <2>6. LineageHead' = [k \in Tokens |-> IF k \in {l} THEN 0 ELSE LineageHead[k]]
    <3>1. TheOnly(Live(l)') = 0
      BY <1>4 DEF TheOnly
    <3>2. \A k \in Tokens : TheOnly(Live(k)') = IF k \in {l} THEN 0 ELSE TheOnly(Live(k))
      BY <1>3, <3>1
    <3>3. LineageHead' = [k \in Tokens |-> TheOnly(Live(k)')]
      BY DEF LineageHead, TheOnly
    <3> QED BY <3>2, <3>3 DEF LineageHead
  <2>7. SpentTokens' = SpentTokens \union Promise!Heads({l})
    <3>1. Promise!Heads({l}) = {c}
      BY <2>4 DEF Promise!Heads
    <3> QED BY <1>5, <1>6, <2>4, <3>1
  <2>8. Promise!Close({l})
    BY <2>5, <2>6, <2>7 DEF Promise!Close
  <2>9. {l} \in SUBSET Promise!Opened
    BY <1>8, <2>2 DEF Promise!Opened, LineageStage
  <2> QED BY <1>2, <2>8, <2>9 DEF Promise!Next
<1> QED BY <1>7, <1>8

\* Every step of a tab, a request or an answer is one exchange, one login, the
\* end of one lineage, or none of the lineages' business (RefreshView, LoginView,
\* LogoutView).
THEOREM Refinement == Spec => ServesSingleUse
<1>1. ASSUME BInv, BInv', Lineal, [Next]_vars
      PROVE  Lineal' /\ [Promise!Next]_(Promise!vars)
  <2>1. TypeOK'
    BY <1>1 DEF BInv
  <2> QED BY <1>1, <2>1, ServerStep, QuietRefines, LoginRefines, RotateRefines, EndRefines
<1>2. Spec => Init /\ [][Next]_vars
  BY DEF Spec
<1> QED BY <1>1, <1>2, InitRefines, Invariance, PTL DEF ServesSingleUse, Promise!Spec

=============================================================================
