---------------------------- MODULE BrowserSession ----------------------------
(***************************************************************************)
(* One browser and the endpoints that set and clear its cookies: tabs share  *)
(* the refresh cookie and the CSRF cookie, requests and answers of several    *)
(* tabs are under way at once, answers arrive late, in any order or never,    *)
(* and a tab that gives up sends again.                                      *)
(*                                                                         *)
(* The two cookies are always set and cleared together and stand for one      *)
(* number, that of the pair they came with.  Inside the server a pair is a    *)
(* single-use token of a lineage (SingleUseLineages, TokenLineage).  Tabs     *)
(* refresh until they are served or have no cookie left.                     *)
(***************************************************************************)
EXTENDS Integers, FiniteSets

CONSTANTS
    Tabs, NoTab,
    MaxTokens, MaxLost  \* bounds: pairs minted, answers the network loses

ASSUME BrowserAssumption ==
    /\ NoTab \notin Tabs /\ IsFiniteSet(Tabs)
    /\ MaxTokens \in Nat /\ MaxLost \in 0 .. MaxTokens

VARIABLES
    jar,      \* the pair whose cookies the browser holds, 0 when there are none
    tab,      \* what each tab is doing, the request it sent, the answer to it
    stray,    \* requests that nobody waits for any more
    minted,   \* number of pairs minted so far
    status,   \* of each pair's refresh token
    line,     \* the lineage of each pair: the first pair of the session
    losses,
    lost,     \* history: pairs that were exchanged, and the answer lost
    stranded  \* history: pairs the browser lost for one of the known causes

vars == <<jar, tab, stray, minted, status, line, losses, lost, stranded>>
server == <<minted, status, line>>

Tokens == 1 .. MaxTokens
Cookies == 0 .. MaxTokens
Request == [kind : {"refresh", "login", "logout"},
            header : Cookies, cookie : Cookies, access : Cookies]
\* blind: the request was turned down without a look at the token.
Answer == [cookies : {"keep", "clear", "set"}, pair : Cookies, blind : BOOLEAN]
Tab == [at : {"prompt", "ready", "hungry", "armed", "sent", "answered"},
        access : Cookies, req : Request, answer : Answer]

NoRequest == [kind |-> "login", header |-> 0, cookie |-> 0, access |-> 0]
Keep == [cookies |-> "keep", pair |-> 0, blind |-> FALSE]
Clear == [cookies |-> "clear", pair |-> 0, blind |-> FALSE]
ClearBlindly == [cookies |-> "clear", pair |-> 0, blind |-> TRUE]
Set(n) == [cookies |-> "set", pair |-> n, blind |-> FALSE]

At(t) == tab[t].at
Goto(t, stage) == tab' = [tab EXCEPT ![t].at = stage]

\* Requests that may still mint, and room for one more.
Undecided == {t \in Tabs : \/ At(t) \in {"hungry", "armed", "sent"}
                           \/ (At(t) = "answered" /\ tab[t].answer.cookies # "set")}
Room == minted + Cardinality(Undecided) + Cardinality(stray) + (MaxLost - losses) < MaxTokens

-----------------------------------------------------------------------------
(***************************************************************************)
(* The tabs.                                                               *)
(***************************************************************************)

\* A call was answered token_expired.
Expire(t) ==
    /\ At(t) = "ready" /\ Room
    /\ Goto(t, "hungry")
    /\ UNCHANGED <<jar, stray, server, losses, lost, stranded>>

\* Script copies the CSRF cookie into a header; without one there is only the
\* login form.
Arm(t, kind) ==
    tab' = [tab EXCEPT ![t].at = "armed",
                       ![t].req = [kind |-> kind, header |-> jar, cookie |-> 0, access |-> tab[t].access]]
ReadCsrf(t) ==
    /\ At(t) = "hungry"
    /\ IF jar = 0 THEN Goto(t, "prompt") ELSE Arm(t, "refresh")
    /\ UNCHANGED <<jar, stray, server, losses, lost, stranded>>
BeginLogout(t) ==
    /\ At(t) = "ready" /\ jar # 0 /\ Room
    /\ Arm(t, "logout")
    /\ UNCHANGED <<jar, stray, server, losses, lost, stranded>>

\* The browser attaches the cookies it holds by then.
Send(t) ==
    /\ At(t) = "armed"
    /\ tab' = [tab EXCEPT ![t].at = "sent", ![t].req.cookie = jar]
    /\ UNCHANGED <<jar, stray, server, losses, lost, stranded>>

BeginLogin(t) ==
    /\ At(t) = "prompt" /\ Room
    /\ tab' = [tab EXCEPT ![t].at = "sent", ![t].req = NoRequest]
    /\ UNCHANGED <<jar, stray, server, losses, lost, stranded>>

-----------------------------------------------------------------------------
(***************************************************************************)
(* The server.  r is a request of tab t, or of none that still waits.       *)
(***************************************************************************)
Arrived(t, r) == IF t = NoTab THEN r \in stray ELSE At(t) = "sent" /\ tab[t].req = r

Reply(t, r, answer) ==
    IF t = NoTab
    THEN /\ stray' = stray \ {r}
         /\ lost' = IF answer.cookies = "set" THEN lost \union {r.cookie} ELSE lost
         /\ stranded' = stranded \union {answer.pair}
         /\ UNCHANGED tab
    ELSE /\ tab' = [tab EXCEPT ![t].at = "answered", ![t].answer = answer]
         /\ UNCHANGED <<stray, lost, stranded>>

\* assert_csrf: the double submit.
CsrfPasses(r) == r.cookie # 0 /\ r.header = r.cookie

Kills(l) == [n \in Tokens |-> IF line[n] = l /\ status[n] # "unminted" THEN "dead" ELSE status[n]]
Ends(l) == [n \in Tokens |-> IF line[n] = l /\ status[n] = "active" THEN "dead" ELSE status[n]]

\* The next pair, active in lineage l.
Mint(l, before) ==
    /\ minted' = minted + 1
    /\ status' = [before EXCEPT ![minted + 1] = "active"]
    /\ line' = [line EXCEPT ![minted + 1] = l]

Login(t, r) ==
    /\ Arrived(t, r) /\ r.kind = "login"
    /\ \/ Mint(minted + 1, status) /\ Reply(t, r, Set(minted + 1))
       \/ UNCHANGED server /\ Reply(t, r, Keep)
    /\ UNCHANGED <<jar, losses>>

\* Mutant: the cookies are not attached.
RotateBodyOnly(t, r) ==
    /\ Arrived(t, r) /\ r.kind = "refresh"
    /\ CsrfPasses(r) /\ status[r.cookie] = "active"
    /\ Mint(line[r.cookie], [status EXCEPT ![r.cookie] = "rotated"])
    /\ Reply(t, r, Keep)
    /\ UNCHANGED <<jar, losses>>

\* Mutant: the token that was exchanged stays good.
RotateBeside(t, r) ==
    /\ Arrived(t, r) /\ r.kind = "refresh"
    /\ CsrfPasses(r) /\ status[r.cookie] = "active"
    /\ Mint(line[r.cookie], status)
    /\ Reply(t, r, Set(minted + 1))
    /\ UNCHANGED <<jar, losses>>

\* RefreshView: the token is exchanged and both cookies replaced.
Rotate(t, r) ==
    /\ Arrived(t, r) /\ r.kind = "refresh"
    /\ CsrfPasses(r) /\ status[r.cookie] = "active"
    /\ Mint(line[r.cookie], [status EXCEPT ![r.cookie] = "rotated"])
    /\ Reply(t, r, Set(minted + 1))
    /\ UNCHANGED <<jar, losses>>

\* Mutant: a failure leaves the cookies in place.
RefuseOnly(t, r) ==
    /\ Arrived(t, r) /\ r.kind = "refresh"
    /\ CsrfPasses(r) => status[r.cookie] # "active"
    /\ status' = IF CsrfPasses(r) /\ status[r.cookie] = "rotated" THEN Kills(line[r.cookie])
                 ELSE status
    /\ Reply(t, r, Keep)
    /\ UNCHANGED <<jar, losses, minted, line>>

\* handle_exception clears the cookies whatever failed; a token that was
\* exchanged before takes its lineage down.
Refuse(t, r) ==
    /\ Arrived(t, r) /\ r.kind = "refresh"
    /\ CsrfPasses(r) => status[r.cookie] # "active"
    /\ status' = IF CsrfPasses(r) /\ status[r.cookie] = "rotated" THEN Kills(line[r.cookie])
                 ELSE status
    /\ Reply(t, r, IF CsrfPasses(r) THEN Clear ELSE ClearBlindly)
    /\ UNCHANGED <<jar, losses, minted, line>>

\* So it does for a throttled request, which is keyed by the cookie, and when the
\* denylist does not answer.
Unserved(t, r) ==
    /\ Arrived(t, r) /\ r.kind = "refresh" /\ r.cookie # 0
    /\ Reply(t, r, ClearBlindly)
    /\ UNCHANGED <<jar, losses, server>>

\* Mutant: the cookies go, the session stays.
LogoutCookiesOnly(t, r) ==
    /\ Arrived(t, r) /\ r.kind = "logout" /\ CsrfPasses(r)
    /\ Reply(t, r, Clear)
    /\ UNCHANGED <<jar, losses, server>>

\* LogoutView: the session that the access token names.
Logout(t, r) ==
    /\ Arrived(t, r) /\ r.kind = "logout" /\ CsrfPasses(r)
    /\ status' = Ends(line[r.access])
    /\ Reply(t, r, Clear)
    /\ UNCHANGED <<jar, losses, minted, line>>

\* Its access token is no longer accepted, it is throttled, or the double submit
\* fails: this view clears nothing.
RefuseLogout(t, r) ==
    /\ Arrived(t, r) /\ r.kind = "logout"
    /\ Reply(t, r, Keep)
    /\ UNCHANGED <<jar, losses, server>>

\* Another device or an administrator ends the session.
EndElsewhere(l) ==
    /\ status' = Ends(l) /\ status' # status
    /\ UNCHANGED <<jar, tab, stray, minted, line, losses, lost, stranded>>

-----------------------------------------------------------------------------
(***************************************************************************)
(* The answers.                                                            *)
(***************************************************************************)

\* What a tab without an answer, or with one that is no success, does next.
NextStage(kind) == IF kind = "refresh" THEN "hungry" ELSE IF kind = "login" THEN "prompt" ELSE "ready"

\* The jar is overwritten under a session that may be live: by an answer that
\* came late, by one that says nothing of the token, by a login, or by a logout
\* of the other session a tab was in.
Strands(r, answer) ==
    CASE answer.cookies = "keep" -> {}
      [] answer.cookies = "set" -> IF r.cookie = jar THEN {} ELSE {jar}
      [] OTHER -> IF \/ r.cookie # jar \/ answer.blind
                     \/ (r.kind = "logout" /\ jar # 0 /\ line[r.access] # line[jar])
                  THEN {jar} ELSE {}

Receive(t) ==
    LET answer == tab[t].answer
        kind == tab[t].req.kind IN
    /\ At(t) = "answered"
    /\ jar' = CASE answer.cookies = "keep" -> jar
                [] answer.cookies = "clear" -> 0
                [] OTHER -> answer.pair
    /\ tab' = [tab EXCEPT
                  ![t].at = IF answer.cookies = "set" THEN "ready"
                            ELSE IF answer.cookies = "clear" /\ kind = "logout" THEN "prompt"
                            ELSE NextStage(kind),
                  ![t].access = IF answer.cookies = "set" THEN answer.pair ELSE @,
                  ![t].req = NoRequest, ![t].answer = Keep]
    /\ stranded' = stranded \union Strands(tab[t].req, answer)
    /\ UNCHANGED <<stray, server, losses, lost>>

\* The answer never arrives.
Lose(t) ==
    /\ At(t) = "answered" /\ losses < MaxLost /\ losses' = losses + 1
    /\ tab' = [tab EXCEPT ![t].at = NextStage(tab[t].req.kind), ![t].req = NoRequest, ![t].answer = Keep]
    /\ lost' = IF tab[t].answer.cookies = "set" THEN lost \union {tab[t].req.cookie} ELSE lost
    /\ stranded' = stranded \union {tab[t].answer.pair}
    /\ UNCHANGED <<jar, stray, server>>

\* The tab gives up; the request is still on its way.
Abandon(t) ==
    /\ At(t) = "sent" /\ losses < MaxLost /\ losses' = losses + 1
    /\ stray' = stray \union {tab[t].req}
    /\ tab' = [tab EXCEPT ![t].at = NextStage(tab[t].req.kind), ![t].req = NoRequest]
    /\ UNCHANGED <<jar, server, lost, stranded>>

-----------------------------------------------------------------------------
Init ==
    /\ jar = 0 /\ stray = {} /\ minted = 0 /\ losses = 0 /\ lost = {} /\ stranded = {}
    /\ tab = [t \in Tabs |-> [at |-> "prompt", access |-> 0, req |-> NoRequest, answer |-> Keep]]
    /\ status = [n \in Tokens |-> "unminted"]
    /\ line = [n \in Tokens |-> 0]

Serve(t, r) ==
    Login(t, r) \/ Rotate(t, r) \/ Refuse(t, r) \/ Unserved(t, r)
    \/ Logout(t, r) \/ RefuseLogout(t, r)
ServeTab(t) == Serve(t, tab[t].req)
Proceed(t) == ReadCsrf(t) \/ Send(t) \/ Receive(t)

Next ==
    \/ \E t \in Tabs :
          \/ Expire(t) \/ BeginLogin(t) \/ BeginLogout(t) \/ Proceed(t)
          \/ ServeTab(t) \/ Lose(t) \/ Abandon(t)
    \/ \E r \in stray : Serve(NoTab, r)
    \/ \E l \in Tokens : EndElsewhere(l)

\* Browsers run their scripts, and the server answers what it got; nobody has to
\* log in, and what is lost is lost.
Fairness == \A t \in Tabs : WF_vars(Proceed(t)) /\ WF_vars(ServeTab(t))

Spec == Init /\ [][Next]_vars /\ Fairness

-----------------------------------------------------------------------------
TypeOK ==
    /\ jar \in Cookies
    /\ tab \in [Tabs -> Tab]
    /\ stray \in SUBSET Request
    /\ minted \in Cookies
    /\ status \in [Tokens -> {"unminted", "active", "rotated", "dead"}]
    /\ line \in [Tokens -> Cookies]
    /\ losses \in 0 .. MaxLost
    /\ lost \in SUBSET Cookies /\ stranded \in SUBSET Cookies

\* The answer with the successor of n is under way.
Awaited(n) == \E t \in Tabs :
    At(t) = "answered" /\ tab[t].answer.cookies = "set" /\ tab[t].req.cookie = n

\* Tabs that take turns never look like a thief: the browser holds a token that
\* was exchanged already only until the answer to the exchange arrives, or when
\* that was lost (RefreshView, _attach_cookies, _handle_reuse).
AlarmsHaveCause ==
    jar # 0 /\ status[jar] = "rotated" => Awaited(jar) \/ jar \in lost

\* A session that can still be refreshed is in the browser's hands or on its way
\* there, but for the ways to lose one listed in Strands and Lose.
LiveSessionsAreHeld ==
    \A n \in Tokens : status[n] = "active" =>
        \/ n = jar \/ n \in stranded
        \/ \E t \in Tabs :
              At(t) = "answered" /\ tab[t].answer.cookies = "set" /\ tab[t].answer.pair = n

\* The pairs of a lineage, and those of them that can be exchanged.
Pairs(l) == {n \in Tokens : line[n] = l}
Live(l) == {n \in Pairs(l) : status[n] = "active"}

LineageStage == [l \in Tokens |-> IF Pairs(l) = {} THEN "unopened"
                                  ELSE IF Live(l) = {} THEN "closed" ELSE "open"]
TheOnly(S) == IF S = {} THEN 0 ELSE CHOOSE n \in S : TRUE
LineageHead == [l \in Tokens |-> TheOnly(Live(l))]
SpentTokens == {n \in Tokens : status[n] \in {"rotated", "dead"}}

\* Under a browser whose tabs retry, abandon and overtake each other, the rows
\* behind the cookies still behave like the single-use lineages that
\* TokenLineage implements transaction by transaction.
Promise == INSTANCE SingleUseLineages WITH
    Lineages <- Tokens, NoToken <- 0,
    stage <- LineageStage, head <- LineageHead, spent <- SpentTokens
ServesSingleUse == Promise!Spec

\* A tab that needs a token is served or at the login form in the end, however
\* stubbornly it refreshes: no dead cookie keeps it going (RefreshView.handle_exception).
TabsSettle == \A t \in Tabs : At(t) = "hungry" ~> At(t) \in {"ready", "prompt"}

-----------------------------------------------------------------------------
(***************************************************************************)
(* The inductive invariant.                                                *)
(***************************************************************************)

\* Every request under way that may still mint has a pair reserved.
Budget ==
    /\ IsFiniteSet(stray)
    /\ minted + Cardinality(Undecided) + Cardinality(stray) + (MaxLost - losses) <= MaxTokens

\* Pairs are minted in the order of their numbers.
Numbered == \A n \in Tokens : status[n] = "unminted" <=> n > minted

\* Nobody sends a cookie that was not minted.
Known ==
    /\ jar <= minted
    /\ \A t \in Tabs : tab[t].req.cookie <= minted
    /\ \A r \in stray : r.cookie <= minted

\* A login carries no cookie.
Cookieless ==
    /\ \A t \in Tabs : tab[t].req.kind = "login" => At(t) # "armed" /\ tab[t].req.cookie = 0
    /\ \A r \in stray : r.kind = "login" => r.cookie = 0

\* A tab that has been served keeps its access token.
Signed == \A t \in Tabs :
    /\ tab[t].access <= minted /\ tab[t].req.access <= minted
    /\ At(t) = "ready" => tab[t].access # 0
    /\ tab[t].req.kind = "logout" => tab[t].access # 0 /\ tab[t].req.access # 0

Promised(t) == At(t) = "answered" /\ tab[t].answer.cookies = "set"

\* A pair on its way to the browser has been seen by nobody, and the cookie it
\* was exchanged for is spent.
Unseen(t) == Promised(t) =>
    LET p == tab[t].answer.pair IN
    /\ p \in 1 .. minted /\ p # jar /\ status[p] # "rotated"
    /\ \A u \in Tabs : tab[u].req.cookie # p
    /\ \A u \in Tabs \ {t} : Promised(u) => tab[u].answer.pair # p
    /\ \A r \in stray : r.cookie # p
    /\ tab[t].req.cookie # 0 => status[tab[t].req.cookie] # "active"

\* An answer that clears knows what became of the cookie, or of the session of
\* the access token.
Cleared(t) ==
    LET r == tab[t].req IN
    At(t) = "answered" /\ tab[t].answer.cookies = "clear" /\ ~tab[t].answer.blind =>
        /\ r.cookie # 0
        /\ status[r.cookie] = "active" => r.kind = "logout" /\ line[r.cookie] # line[r.access]

\* Every cookie, answer and request under way knows no more than the server told it, and
\* no pair is promised to two tabs (_attach_cookies, clear_auth_cookies).
BInv ==
    /\ TypeOK /\ Budget /\ Numbered /\ Known /\ Cookieless /\ Signed
    /\ \A t \in Tabs : Unseen(t) /\ Cleared(t)
    /\ AlarmsHaveCause /\ LiveSessionsAreHeld
=============================================================================
