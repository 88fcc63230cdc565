------------------------------ MODULE Lockout ------------------------------
(***************************************************************************)
(* LockoutPolicy and the logins around it: for the email and for the address *)
(* of a login Redis keeps a failure counter and a locked flag, each with its *)
(* own expiry, and the policy reads and writes them one command at a time.   *)
(***************************************************************************)
EXTENDS Integers

CONSTANTS
    Workers,    \* logins under way
    Emails,
    Addresses,
    NoAddress,  \* no usable client address
    NoOne,      \* the email of a worker without a login
    Threshold,  \* LOCKOUT_THRESHOLD
    MaxCount    \* where the counters of the model stop

ASSUME LockoutAssumption ==
    /\ Threshold \in Nat \ {0} /\ MaxCount \in Nat /\ MaxCount > Threshold
    /\ Emails \cap Addresses = {}
    /\ {NoAddress, NoOne} \cap (Emails \union Addresses) = {}

VARIABLES
    count,     \* the counter of each key, 0 when there is none
    locked,    \* keys with a locked flag
    failures,  \* history: failures counted against a key since its last clean success
    login      \* what each worker is doing

vars == <<count, locked, failures, login>>

Keys == Emails \union Addresses
Counts == 0 .. MaxCount

Stages == {"idle", "flags", "password", "refused", "incr", "seed", "flag", "report", "clear"}

\* A login: the key it is at, the counts it got and, as a history, whether both
\* flags have stood since before it began.
Login == [stage : Stages, email : Emails \union {NoOne}, address : Addresses \union {NoAddress},
          key : Keys \union {NoOne}, byEmail : Counts, byAddress : Counts, barred : BOOLEAN]
Idle == [stage |-> "idle", email |-> NoOne, address |-> NoAddress, key |-> NoOne,
         byEmail |-> 0, byAddress |-> 0, barred |-> FALSE]

Stage(w) == login[w].stage
Key(w) == login[w].key
AtEmail(w) == Key(w) = login[w].email
KeysOf(w) == {login[w].email, login[w].address} \ {NoOne, NoAddress}
Finish(w) == login' = [login EXCEPT ![w] = Idle]
Plus(n) == IF n < MaxCount THEN n + 1 ELSE n

\* On to the second key of the login when there is one, else to stage with the first.
NextKey(w, same, stage) ==
    IF AtEmail(w) /\ login[w].address # NoAddress
    THEN [login[w] EXCEPT !.stage = same, !.key = login[w].address]
    ELSE [login[w] EXCEPT !.stage = stage, !.key = login[w].email]

-----------------------------------------------------------------------------
(***************************************************************************)
(* assert_not_locked, then the password.                                   *)
(***************************************************************************)
Begin(w, email, address) ==
    /\ Stage(w) = "idle"
    /\ login' = [login EXCEPT ![w] =
          [Idle EXCEPT !.stage = IF address = NoAddress THEN "password" ELSE "flags",
                       !.email = email, !.address = address, !.key = email,
                       !.barred = {email, address} \subseteq locked]]
    /\ UNCHANGED <<count, locked, failures>>

\* The password is checked after all.
Proceed(w, barred) ==
    login' = [login EXCEPT ![w].stage = "password", ![w].key = login[w].email,
                           ![w].barred = barred]

\* Mutant: any flag will do.
ReadFlagAny(w) ==
    /\ Stage(w) = "flags"
    /\ \/ Key(w) \in locked /\ login' = [login EXCEPT ![w].stage = "refused"]
       \/ Key(w) \notin locked /\ login' = [login EXCEPT ![w] = NextKey(w, "flags", "password")]
    /\ UNCHANGED <<count, locked, failures>>

\* Mutant: the counter is asked, which goes before the flag does.
ReadCounter(w) ==
    /\ Stage(w) = "flags"
    /\ \/ count[Key(w)] >= Threshold /\ login' = [login EXCEPT ![w] = NextKey(w, "flags", "refused")]
       \/ count[Key(w)] < Threshold /\ Proceed(w, login[w].barred)
    /\ UNCHANGED <<count, locked, failures>>

\* cache.get of one flag; both have to be set.
ReadFlag(w) ==
    /\ Stage(w) = "flags"
    /\ \/ Key(w) \in locked /\ login' = [login EXCEPT ![w] = NextKey(w, "flags", "refused")]
       \/ Key(w) \notin locked /\ Proceed(w, login[w].barred)
       \/ Proceed(w, FALSE)                        \* Redis is out: fails open
    /\ UNCHANGED <<count, locked, failures>>

Refuse(w) ==
    /\ Stage(w) = "refused"
    /\ Finish(w)
    /\ UNCHANGED <<count, locked, failures>>

\* Wrong password, unknown or inactive account, or a session that is committed.
CheckPassword(w) ==
    /\ Stage(w) = "password"
    /\ \E next \in {"incr", "clear"} : login' = [login EXCEPT ![w].stage = next]
    /\ UNCHANGED <<count, locked, failures>>

-----------------------------------------------------------------------------
(***************************************************************************)
(* register_failure                                                        *)
(***************************************************************************)
Got(w, n, stage) ==
    /\ login' = IF AtEmail(w)
                THEN [login EXCEPT ![w].stage = stage, ![w].byEmail = n]
                ELSE [login EXCEPT ![w].stage = stage, ![w].byAddress = n]
    /\ failures' = [failures EXCEPT ![Key(w)] = Plus(@)]

\* cache.incr, a ValueError when there is no counter.
Increment(w) ==
    /\ Stage(w) = "incr"
    /\ \/ /\ count[Key(w)] > 0
          /\ count' = [count EXCEPT ![Key(w)] = Plus(@)]
          /\ Got(w, Plus(count[Key(w)]), "flag")
       \/ /\ count[Key(w)] = 0
          /\ login' = [login EXCEPT ![w].stage = "seed"]
          /\ UNCHANGED <<count, failures>>
       \/ /\ login' = [login EXCEPT ![w] = NextKey(w, "incr", "report")]   \* Redis is out
          /\ UNCHANGED <<count, failures>>
    /\ UNCHANGED locked

\* cache.set(key, 1): whatever others have counted since is forgotten.
Seed(w) ==
    /\ Stage(w) = "seed"
    /\ count' \in {[count EXCEPT ![Key(w)] = 1], count}
    /\ Got(w, 1, "flag")
    /\ UNCHANGED locked

Count(w) == IF AtEmail(w) THEN login[w].byEmail ELSE login[w].byAddress

\* Mutant: the flag is set by the failure before the last.
FlagEarly(w) ==
    /\ Stage(w) = "flag"
    /\ locked' = IF Count(w) + 1 >= Threshold THEN locked \union {Key(w)} ELSE locked
    /\ login' = [login EXCEPT ![w] = NextKey(w, "incr", "report")]
    /\ UNCHANGED <<count, failures>>

\* cache.set of the locked flag, which an outage turns into nothing.
Flag(w) ==
    /\ Stage(w) = "flag"
    /\ locked' \in IF Count(w) >= Threshold THEN {locked, locked \union {Key(w)}} ELSE {locked}
    /\ login' = [login EXCEPT ![w] = NextKey(w, "incr", "report")]
    /\ UNCHANGED <<count, failures>>

\* Both counters over the threshold, one of them by this failure.
Tripped(w) ==
    /\ login[w].byEmail >= Threshold /\ login[w].byAddress >= Threshold
    /\ Threshold \in {login[w].byEmail, login[w].byAddress}
Report(w) ==
    /\ Stage(w) = "report"
    /\ Finish(w)
    /\ UNCHANGED <<count, locked, failures>>

-----------------------------------------------------------------------------
(***************************************************************************)
(* clear, and what Redis and the workers do by themselves.                 *)
(***************************************************************************)

\* The logins that face k no longer face two standing flags.
Unbar(k) == [w \in Workers |-> IF k \in KeysOf(w) THEN [login[w] EXCEPT !.barred = FALSE]
                               ELSE login[w]]
Alone(w, k) == \A v \in Workers \ {w} : k \notin KeysOf(v)

\* delete_many of a key and its flag, unless Redis is out; then on to the other key.
AfterClear(w) == IF AtEmail(w) /\ login[w].address # NoAddress
                 THEN [login[w] EXCEPT !.key = login[w].address]
                 ELSE Idle
Clear(w) ==
    /\ Stage(w) = "clear"
    /\ \/ /\ count' = [count EXCEPT ![Key(w)] = 0]
          /\ locked' = locked \ {Key(w)}
          /\ failures' = IF Alone(w, Key(w)) THEN [failures EXCEPT ![Key(w)] = 0] ELSE failures
          /\ login' = [Unbar(Key(w)) EXCEPT ![w] = AfterClear(w)]
       \/ /\ login' = [login EXCEPT ![w] = AfterClear(w)]
          /\ UNCHANGED <<count, locked, failures>>

\* A counter is over with LOCKOUT_WINDOW, a flag with LOCKOUT_DURATION.
WindowEnds(k) ==
    /\ count[k] > 0
    /\ count' = [count EXCEPT ![k] = 0]
    /\ UNCHANGED <<locked, failures, login>>
LockEnds(k) ==
    /\ k \in locked
    /\ locked' = locked \ {k}
    /\ login' = Unbar(k)
    /\ UNCHANGED <<count, failures>>

\* The worker dies, or its session does not commit.
Fail(w) ==
    /\ Stage(w) # "idle"
    /\ Finish(w)
    /\ UNCHANGED <<count, locked, failures>>

Init ==
    /\ count = [k \in Keys |-> 0] /\ failures = [k \in Keys |-> 0]
    /\ locked = {} /\ login = [w \in Workers |-> Idle]

Next ==
    \/ \E w \in Workers :
          \/ \E email \in Emails, address \in Addresses \union {NoAddress} : Begin(w, email, address)
          \/ ReadFlag(w) \/ Refuse(w) \/ CheckPassword(w) \/ Increment(w) \/ Seed(w) \/ Flag(w)
          \/ Report(w) \/ Clear(w) \/ Fail(w)
    \/ \E k \in Keys : WindowEnds(k) \/ LockEnds(k)

Spec == Init /\ [][Next]_vars

-----------------------------------------------------------------------------

\* Counters, flags and logins have the values they can have.
TypeOK ==
    /\ count \in [Keys -> Counts] /\ failures \in [Keys -> Counts]
    /\ locked \subseteq Keys
    /\ login \in [Workers -> Login]

\* "An attacker from one network can lock only themselves out": a login is refused,
\* or a lock reported, only when its email and its address have each had as many
\* failures as the threshold says since a success that no other login overlapped.
Earned(w) ==
    /\ login[w].address # NoAddress
    /\ \A k \in KeysOf(w) : failures[k] >= Threshold
LocksAreEarned ==
    \A w \in Workers :
        /\ Stage(w) = "refused" => Earned(w)
        /\ Stage(w) = "report" /\ Tripped(w) => Earned(w)

\* No password is checked for a login that began under both flags while they last,
\* unless Redis did not answer it.
LockedIsRefused ==
    \A w \in Workers : login[w].barred => Stage(w) \in {"flags", "refused"}

-----------------------------------------------------------------------------
(***************************************************************************)
(* The inductive invariant.                                                *)
(***************************************************************************)

\* A login counts its own keys, no further than their failures.
Within(w) ==
    LET l == login[w]
    IN  /\ l.stage # "idle" => l.email \in Emails /\ l.key \in KeysOf(w)
        /\ l.stage \notin {"incr", "seed", "flag", "report"} => l.byEmail = 0 /\ l.byAddress = 0
        /\ l.byEmail <= IF l.email \in Emails THEN failures[l.email] ELSE 0
        /\ l.byAddress <= IF l.address \in Addresses THEN failures[l.address] ELSE 0

\* A login that has read a flag as set, or is refused by two.
ReadEarned(w) ==
    LET l == login[w]
    IN  /\ l.stage \in {"flags", "refused"} => l.address \in Addresses
        /\ l.stage = "refused" \/ (l.stage = "flags" /\ l.key = l.address)
              => failures[l.email] >= Threshold
        /\ l.stage = "refused" => failures[l.address] >= Threshold
        /\ l.barred => l.stage \in {"flags", "refused"} /\ {l.email, l.address} \subseteq locked

LInv ==
    /\ TypeOK
    /\ \A k \in Keys : count[k] <= failures[k]
    /\ \A k \in locked : failures[k] >= Threshold
    /\ \A w \in Workers : Within(w) /\ ReadEarned(w)
=============================================================================
