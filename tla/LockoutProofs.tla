--------------------------- MODULE LockoutProofs ---------------------------
(***************************************************************************)
(* Proofs about Lockout: its inductive invariant, and that every lock is     *)
(* earned and asked.                                                       *)
(***************************************************************************)
EXTENDS Lockout, TLAPS

LEMMA IdleIsLogin == Idle \in Login
  BY LockoutAssumption DEF Idle, Login, Stages, Counts

LEMMA PlusTypes == \A n \in Counts : Plus(n) \in Counts /\ n <= Plus(n)
  BY LockoutAssumption DEF Plus, Counts

LEMMA PlusRaises == \A m, n \in Counts : m <= n => Plus(m) <= Plus(n)
  BY LockoutAssumption DEF Plus, Counts

LEMMA InitLInv == Init => LInv
<1> SUFFICES ASSUME Init PROVE LInv
  OBVIOUS
<1>1. TypeOK
  BY LockoutAssumption, IdleIsLogin DEF Init, TypeOK, Counts
<1>2. \A k \in Keys : count[k] <= failures[k]
  BY DEF Init
<1>3. \A w \in Workers : Within(w) /\ ReadEarned(w)
  <2> SUFFICES ASSUME NEW w \in Workers PROVE Within(w) /\ ReadEarned(w)
    OBVIOUS
  <2>1. login[w] = Idle
    BY DEF Init
  <2>2. Within(w)
    BY <2>1, LockoutAssumption DEF Within, Idle
  <2>3. ReadEarned(w)
    BY <2>1 DEF ReadEarned, Idle
  <2> QED BY <2>2, <2>3
<1> QED BY <1>1, <1>2, <1>3 DEF LInv, Init

\* A login that keeps its record, or only loses its history, keeps what it relies on
\* while no failure of its keys is forgotten and its flags are not taken from it.
LEMMA Bystander ==
    ASSUME TypeOK, NEW v \in Workers, Within(v), ReadEarned(v), TypeOK',
           \/ login'[v] = login[v]
           \/ login'[v] = [login[v] EXCEPT !.barred = FALSE],
           \A k \in KeysOf(v) : failures[k] <= failures'[k],
           login'[v].barred => KeysOf(v) \cap locked \subseteq locked'
    PROVE  Within(v)' /\ ReadEarned(v)'
<1> USE LockoutAssumption DEF Keys, Counts
<1>1. login[v] \in Login /\ login'[v] \in Login
  BY DEF TypeOK
<1>2. /\ login'[v].stage = login[v].stage /\ login'[v].key = login[v].key
      /\ login'[v].email = login[v].email /\ login'[v].address = login[v].address
      /\ login'[v].byEmail = login[v].byEmail /\ login'[v].byAddress = login[v].byAddress
  BY <1>1 DEF Login
<1>2a. login'[v].barred => login[v].barred
  BY <1>1 DEF Login
<1>4. KeysOf(v)' = KeysOf(v)
  BY <1>2 DEF KeysOf
<1>5. /\ login[v].email \in Emails => failures[login[v].email] <= failures'[login[v].email]
      /\ login[v].address \in Addresses =>
            failures[login[v].address] <= failures'[login[v].address]
  BY <1>1 DEF KeysOf, Login
<1>6. failures \in [Keys -> Counts] /\ failures' \in [Keys -> Counts]
  BY DEF TypeOK
<1>7. Within(v)'
  <2>1. login'[v].stage # "idle" => login'[v].email \in Emails /\ login'[v].key \in KeysOf(v)'
    BY <1>2, <1>4 DEF Within
  <2>2. login'[v].stage \notin {"incr", "seed", "flag", "report"}
           => login'[v].byEmail = 0 /\ login'[v].byAddress = 0
    BY <1>2 DEF Within
  <2>3. login'[v].byEmail <= IF login'[v].email \in Emails THEN failures'[login'[v].email] ELSE 0
    BY <1>1, <1>2, <1>5, <1>6 DEF Within, Login
  <2>4. login'[v].byAddress <= IF login'[v].address \in Addresses
                               THEN failures'[login'[v].address] ELSE 0
    BY <1>1, <1>2, <1>5, <1>6 DEF Within, Login
  <2> QED BY <2>1, <2>2, <2>3, <2>4 DEF Within
<1>8. ReadEarned(v)'
  <2>1. login'[v].stage \in {"flags", "refused"} =>
           login'[v].address \in Addresses /\ login'[v].email \in Emails
    BY <1>2 DEF ReadEarned, Within
  <2>2. login'[v].stage = "refused" \/ (login'[v].stage = "flags" /\ login'[v].key = login'[v].address)
           => failures'[login'[v].email] >= Threshold
    BY <1>2, <1>5, <1>6, <2>1 DEF ReadEarned
  <2>3. login'[v].stage = "refused" => failures'[login'[v].address] >= Threshold
    BY <1>2, <1>5, <1>6, <2>1 DEF ReadEarned
  <2>4. login'[v].barred => /\ login'[v].stage \in {"flags", "refused"}
                            /\ {login'[v].email, login'[v].address} \subseteq locked'
    BY <1>2, <1>2a, <2>1 DEF ReadEarned, KeysOf
  <2> QED BY <2>1, <2>2, <2>3, <2>4 DEF ReadEarned
<1> QED BY <1>7, <1>8

\* A step that moves one login on: no failure is forgotten, no flag taken away.
LEMMA Moves ==
    ASSUME LInv, NEW w \in Workers, NEW r \in Login, login' = [login EXCEPT ![w] = r],
           count' \in [Keys -> Counts], failures' \in [Keys -> Counts], locked' \subseteq Keys,
           \A k \in Keys : count'[k] <= failures'[k] /\ failures[k] <= failures'[k],
           \A k \in locked' : failures'[k] >= Threshold,
           locked \subseteq locked',
           Within(w)' /\ ReadEarned(w)'
    PROVE  LInv'
<1>1. TypeOK'
  BY DEF LInv, TypeOK
<1>2. ASSUME NEW v \in Workers \ {w} PROVE Within(v)' /\ ReadEarned(v)'
  <2>1. login'[v] = login[v]
    BY DEF LInv, TypeOK
  <2>2. \A k \in KeysOf(v) : failures[k] <= failures'[k]
    BY LockoutAssumption DEF LInv, TypeOK, KeysOf, Login, Keys
  <2> QED BY <1>1, <2>1, <2>2, Bystander DEF LInv
<1> QED BY <1>1, <1>2 DEF LInv

\* The same when the step leaves the counters and the flags alone.
LEMMA MovesOn ==
    ASSUME LInv, NEW w \in Workers, NEW r \in Login, login' = [login EXCEPT ![w] = r],
           UNCHANGED <<count, locked, failures>>, Within(w)' /\ ReadEarned(w)'
    PROVE  LInv'
<1>1. \A k \in Keys : failures[k] <= failures[k]
  BY DEF LInv, TypeOK, Counts
<1> QED BY <1>1, Moves DEF LInv, TypeOK

\* What a login knows of itself.
LEMMA Knows ==
    ASSUME LInv, NEW w \in Workers, Stage(w) # "idle"
    PROVE  /\ login[w] \in Login
           /\ login[w].email \in Emails /\ Key(w) \in Keys
           /\ Key(w) = login[w].email \/ (Key(w) = login[w].address /\ Key(w) \in Addresses)
  BY DEF LInv, TypeOK, Within, KeysOf, Login, Keys, Stage, Key

LEMMA NextKeyTypes ==
    ASSUME LInv, NEW w \in Workers, Stage(w) # "idle", NEW same \in Stages, NEW stage \in Stages
    PROVE  NextKey(w, same, stage) \in Login
<1>1. login[w] \in Login /\ login[w].email \in Emails
  BY Knows
<1>2. AtEmail(w) /\ login[w].address # NoAddress
      => [login[w] EXCEPT !.stage = same, !.key = login[w].address] \in Login
  BY <1>1 DEF Login, Keys
<1>3. [login[w] EXCEPT !.stage = stage, !.key = login[w].email] \in Login
  BY <1>1 DEF Login, Keys
<1> QED BY <1>2, <1>3 DEF NextKey

LEMMA FinishLInv ==
    ASSUME LInv, NEW w \in Workers, Finish(w), UNCHANGED <<count, locked, failures>>
    PROVE  LInv'
<1>1. login'[w] = Idle
  BY DEF Finish, LInv, TypeOK
<1>2. Within(w)' /\ ReadEarned(w)'
  BY <1>1, LockoutAssumption DEF Idle, Within, ReadEarned
<1> QED BY <1>2, IdleIsLogin, MovesOn DEF Finish

LEMMA AskLInv ==
    ASSUME LInv, NEW w \in Workers,
           \/ \E email \in Emails, address \in Addresses \union {NoAddress} : Begin(w, email, address)
           \/ ReadFlag(w) \/ CheckPassword(w)
    PROVE  LInv'
<1> USE LockoutAssumption
<1>1. CASE \E email \in Emails, address \in Addresses \union {NoAddress} : Begin(w, email, address)
  <2>1. PICK email \in Emails, address \in Addresses \union {NoAddress} : Begin(w, email, address)
    BY <1>1
  <2>2. PICK stage \in {"password", "flags"}, barred \in BOOLEAN :
           /\ barred => {email, address} \subseteq locked
           /\ stage = "password" <=> address = NoAddress
           /\ login' = [login EXCEPT ![w] =
                 [Idle EXCEPT !.stage = stage, !.email = email, !.address = address, !.key = email,
                              !.barred = barred]]
    BY <2>1 DEF Begin
  <2> DEFINE r == [Idle EXCEPT !.stage = stage, !.email = email, !.address = address, !.key = email,
                               !.barred = barred]
  <2>3. r \in Login
    BY IdleIsLogin DEF Login, Stages, Keys
  <2>4. login'[w] = r
    BY <2>2 DEF LInv, TypeOK
  <2>5. /\ r.stage = stage /\ r.email = email /\ r.address = address /\ r.key = email
        /\ r.byEmail = 0 /\ r.byAddress = 0 /\ (r.barred => barred)
    BY DEF Idle
  <2>6. UNCHANGED <<count, locked, failures>>
    BY <2>1 DEF Begin
  <2> HIDE DEF r
  <2>7. Within(w)'
    BY <2>3, <2>4, <2>5, <2>6 DEF Within, KeysOf, LInv, TypeOK, Counts, Keys
  <2>8. ReadEarned(w)'
    BY <2>2, <2>4, <2>5, <2>6 DEF ReadEarned, LInv, TypeOK, Keys
  <2> QED BY <2>2, <2>3, <2>6, <2>7, <2>8, MovesOn DEF r
<1>2. CASE ReadFlag(w)
  <2>0. /\ login[w] \in Login /\ login[w].email \in Emails /\ login[w].address \in Addresses
        /\ Stage(w) = "flags" /\ UNCHANGED <<count, locked, failures>>
    BY <1>2, Knows DEF ReadFlag, LInv, ReadEarned, Stage
  <2>1. CASE Key(w) \in locked /\ login' = [login EXCEPT ![w] = NextKey(w, "flags", "refused")]
    <3>0. login'[w] = NextKey(w, "flags", "refused") /\ failures[Key(w)] >= Threshold
      BY <2>1 DEF LInv, TypeOK
    <3>1. CASE AtEmail(w)
      <4>1. /\ login'[w] = [login[w] EXCEPT !.stage = "flags", !.key = login[w].address]
            /\ login[w].address # NoAddress
        BY <2>0, <3>0, <3>1 DEF NextKey
      <4>2. Within(w)'
        <5>1. /\ login'[w].email = login[w].email /\ login'[w].address = login[w].address
              /\ login'[w].byEmail = login[w].byEmail /\ login'[w].byAddress = login[w].byAddress
              /\ login'[w].key \in {login[w].email, login[w].address}
          BY <2>0, <4>1 DEF Login
        <5>2. Within(w) /\ login[w].byEmail = 0 /\ login[w].byAddress = 0
          BY <2>0 DEF LInv, Within, Stage
        <5> QED BY <2>0, <5>1, <5>2 DEF Within, KeysOf
      <4>3. ReadEarned(w)'
        <5>1. /\ login'[w].stage = "flags" /\ login'[w].email = login[w].email
              /\ login'[w].address = login[w].address
          BY <2>0, <4>1 DEF Login
        <5>2. login'[w].barred => login[w].barred
          BY <2>0, <4>1 DEF Login
        <5>3. login[w].barred => {login[w].email, login[w].address} \subseteq locked
          BY DEF LInv, ReadEarned
        <5> QED BY <2>0, <3>0, <3>1, <5>1, <5>2, <5>3 DEF ReadEarned, AtEmail
      <4> QED BY <2>0, <2>1, <4>2, <4>3, NextKeyTypes, MovesOn DEF Stages
    <3>2. CASE ~AtEmail(w)
      <4>1. login'[w] = [login[w] EXCEPT !.stage = "refused", !.key = login[w].email]
        BY <3>0, <3>2 DEF NextKey
      <4>2. Within(w)'
        <5>1. /\ login'[w].email = login[w].email /\ login'[w].address = login[w].address
              /\ login'[w].byEmail = login[w].byEmail /\ login'[w].byAddress = login[w].byAddress
              /\ login'[w].key \in {login[w].email, login[w].address}
          BY <2>0, <4>1 DEF Login
        <5>2. Within(w) /\ login[w].byEmail = 0 /\ login[w].byAddress = 0
          BY <2>0 DEF LInv, Within, Stage
        <5> QED BY <2>0, <5>1, <5>2 DEF Within, KeysOf
      <4>3. Key(w) = login[w].address
        BY <2>0, <3>2, Knows DEF AtEmail
      <4>4. ReadEarned(w)'
        <5>1. /\ login'[w].stage = "refused" /\ login'[w].email = login[w].email
              /\ login'[w].address = login[w].address
          BY <2>0, <4>1 DEF Login
        <5>2. login'[w].barred => login[w].barred
          BY <2>0, <4>1 DEF Login
        <5>3. /\ login[w].barred => {login[w].email, login[w].address} \subseteq locked
              /\ failures[login[w].email] >= Threshold
          BY <2>0, <4>3 DEF LInv, ReadEarned, Key, Stage
        <5> QED BY <2>0, <3>0, <4>3, <5>1, <5>2, <5>3 DEF ReadEarned
      <4> QED BY <2>0, <2>1, <4>2, <4>4, NextKeyTypes, MovesOn DEF Stages
    <3> QED BY <3>1, <3>2
  <2>2. CASE \/ Key(w) \notin locked /\ Proceed(w, login[w].barred)
             \/ Proceed(w, FALSE)
    <3>1. login[w].barred => Key(w) \in locked
      BY <2>0, Knows DEF LInv, ReadEarned
    <3>2. PICK barred \in BOOLEAN : Proceed(w, barred) /\ ~barred
      BY <2>0, <2>2, <3>1 DEF Login
    <3> DEFINE r == [login[w] EXCEPT !.stage = "password", !.key = login[w].email,
                                     !.barred = barred]
    <3>3. r \in Login
      BY <2>0 DEF Login, Stages, Keys
    <3>4. login' = [login EXCEPT ![w] = r]
      BY <3>2 DEF Proceed, LInv, TypeOK
    <3>5. login'[w] = r
      BY <3>4 DEF LInv, TypeOK
    <3>6. Within(w)'
      <4>1. /\ login'[w].email = login[w].email /\ login'[w].address = login[w].address
            /\ login'[w].byEmail = login[w].byEmail /\ login'[w].byAddress = login[w].byAddress
            /\ login'[w].key = login[w].email
        BY <2>0, <3>5 DEF Login
      <4>2. Within(w) /\ login[w].byEmail = 0 /\ login[w].byAddress = 0
        BY <2>0 DEF LInv, Within, Stage
      <4> QED BY <2>0, <4>1, <4>2 DEF Within, KeysOf
    <3>7. ReadEarned(w)'
      BY <2>0, <3>2, <3>5 DEF ReadEarned, LInv, Login
    <3> QED BY <2>0, <3>3, <3>4, <3>6, <3>7, MovesOn
  <2> QED BY <1>2, <2>1, <2>2 DEF ReadFlag
<1>3. CASE CheckPassword(w)
  <2>1. PICK next \in {"incr", "clear"} : login' = [login EXCEPT ![w].stage = next]
    BY <1>3 DEF CheckPassword
  <2>2. login' = [login EXCEPT ![w] = [login[w] EXCEPT !.stage = next]]
    BY <2>1 DEF LInv, TypeOK
  <2>3. login[w] \in Login /\ UNCHANGED <<count, locked, failures>> /\ Stage(w) = "password"
    BY <1>3 DEF CheckPassword, LInv, TypeOK
  <2>4. [login[w] EXCEPT !.stage = next] \in Login
    BY <2>3 DEF Login, Stages
  <2>5. login'[w] = [login[w] EXCEPT !.stage = next]
    BY <2>2 DEF LInv, TypeOK
  <2>6. Within(w)' /\ ReadEarned(w)'
    BY <2>3, <2>5 DEF Within, ReadEarned, KeysOf, LInv, Login, Stage
  <2> QED BY <2>2, <2>3, <2>4, <2>6, MovesOn
<1> QED BY <1>1, <1>2, <1>3

-----------------------------------------------------------------------------
\* A login that gets its count n, no more than the failures of its key.
LEMMA GotLInv ==
    ASSUME LInv, NEW w \in Workers, Stage(w) \in {"incr", "seed"}, NEW n \in Counts,
           n <= Plus(failures[Key(w)]), Got(w, n, "flag"), UNCHANGED locked,
           count' \in [Keys -> Counts],
           \A k \in Keys : count'[k] <= IF k = Key(w) THEN Plus(failures[k]) ELSE failures[k]
    PROVE  LInv'
<1> USE LockoutAssumption
<1>1. /\ login[w] \in Login /\ login[w].email \in Emails /\ Key(w) \in Keys
      /\ Key(w) = login[w].email \/ (Key(w) = login[w].address /\ Key(w) \in Addresses)
  BY Knows
<1>2. /\ failures' = [failures EXCEPT ![Key(w)] = Plus(@)]
      /\ failures' \in [Keys -> Counts]
      /\ \A k \in Keys : failures[k] <= failures'[k]
      /\ failures'[Key(w)] = Plus(failures[Key(w)])
  <2>1. failures' = [failures EXCEPT ![Key(w)] = Plus(@)]
    BY DEF Got
  <2> QED BY <1>1, <2>1, PlusTypes DEF LInv, TypeOK, Counts
<1>3. \A k \in Keys : count'[k] <= failures'[k]
  BY <1>1, <1>2 DEF LInv, TypeOK
<1>4. PICK r \in {[login[w] EXCEPT !.stage = "flag", !.byEmail = n],
                  [login[w] EXCEPT !.stage = "flag", !.byAddress = n]} :
         /\ login' = [login EXCEPT ![w] = r]
         /\ r.byEmail = n \/ r.byEmail = login[w].byEmail
         /\ r.byAddress = n \/ r.byAddress = login[w].byAddress
         /\ Key(w) # login[w].email => r.byEmail = login[w].byEmail
         /\ Key(w) = login[w].email => r.byAddress = login[w].byAddress
  BY <1>1 DEF Got, AtEmail, LInv, TypeOK, Login
<1>5. r \in Login
  BY <1>1, <1>4 DEF Login, Stages
<1>6. login'[w] = r
  BY <1>4 DEF LInv, TypeOK
<1>7. /\ r.stage = "flag" /\ r.key = login[w].key /\ r.email = login[w].email
      /\ r.address = login[w].address
  BY <1>1, <1>4 DEF Login
<1>8. ~r.barred
  BY <1>1, <1>4 DEF LInv, ReadEarned, Stage, Login
<1>9. Within(w)'
  <2>1. /\ login[w].byEmail <= IF login[w].email \in Emails THEN failures[login[w].email] ELSE 0
        /\ login[w].byAddress <= IF login[w].address \in Addresses THEN failures[login[w].address] ELSE 0
        /\ login[w].key \in KeysOf(w)
    BY DEF LInv, Within, Stage
  <2>2. failures[login[w].email] \in Counts /\ failures'[login[w].email] \in Counts
        /\ login[w].byEmail \in Counts /\ login[w].byAddress \in Counts
    BY <1>1, <1>2 DEF LInv, TypeOK, Keys, Login
  <2>3. r.byEmail <= failures'[r.email]
    BY <1>1, <1>2, <1>4, <1>7, <2>1, <2>2 DEF Counts, Keys
  <2>4. r.byAddress <= IF r.address \in Addresses THEN failures'[r.address] ELSE 0
    <3>1. CASE r.address \in Addresses
      <4>1. failures[r.address] \in Counts /\ failures'[r.address] \in Counts
            /\ failures[r.address] <= failures'[r.address]
        BY <1>2, <3>1 DEF LInv, TypeOK, Keys
      <4> QED BY <1>1, <1>2, <1>4, <1>7, <2>1, <2>2, <3>1, <4>1 DEF Counts
    <3>2. CASE r.address \notin Addresses
      BY <1>1, <1>4, <1>7, <2>1, <3>2
    <3> QED BY <3>1, <3>2
  <2> QED BY <1>1, <1>6, <1>7, <2>1, <2>3, <2>4 DEF Within, KeysOf
<1>10. ReadEarned(w)'
  BY <1>6, <1>7, <1>8 DEF ReadEarned
<1>11. \A k \in locked' : failures'[k] >= Threshold
  BY <1>2 DEF LInv, TypeOK, Counts
<1> QED BY <1>2, <1>3, <1>4, <1>5, <1>9, <1>10, <1>11, Moves DEF LInv, TypeOK

\* A login goes on to its other key, or to what follows both.
LEMMA NextLInv ==
    ASSUME LInv, NEW w \in Workers, Stage(w) \in {"incr", "flag"},
           login' = [login EXCEPT ![w] = NextKey(w, "incr", "report")],
           UNCHANGED <<count, failures>>, locked \subseteq locked', locked' \subseteq Keys,
           \A k \in locked' : failures[k] >= Threshold
    PROVE  LInv'
<1>1. /\ login[w] \in Login /\ login[w].email \in Emails
      /\ NextKey(w, "incr", "report") \in Login
  BY Knows, NextKeyTypes DEF Stages
<1>2. login'[w] = NextKey(w, "incr", "report")
  BY DEF LInv, TypeOK
<1>3. PICK r \in Login : /\ r = NextKey(w, "incr", "report") /\ r.stage \in {"incr", "report"}
                         /\ r.email = login[w].email /\ r.address = login[w].address
                         /\ r.byEmail = login[w].byEmail /\ r.byAddress = login[w].byAddress
                         /\ (r.barred => login[w].barred)
                         /\ r.key \in {login[w].email, login[w].address} \ {NoAddress}
  <2>1. NoAddress \notin Emails
    BY LockoutAssumption
  <2>2. CASE AtEmail(w) /\ login[w].address # NoAddress
    BY <1>1, <2>2 DEF NextKey, Login
  <2>3. CASE ~(AtEmail(w) /\ login[w].address # NoAddress)
    BY <1>1, <2>1, <2>3 DEF NextKey, Login
  <2> QED BY <2>2, <2>3
<1>4. ~login[w].barred
  BY DEF LInv, ReadEarned, Stage
<1>5. NoOne \notin Emails /\ r.key # NoOne
  BY <1>1, <1>3, LockoutAssumption DEF Login
<1>6. Within(w)'
  BY <1>1, <1>2, <1>3, <1>5 DEF LInv, Within, KeysOf
<1>7. ReadEarned(w)'
  BY <1>2, <1>3, <1>4 DEF ReadEarned
<1>8. \A k \in Keys : failures[k] <= failures[k]
  BY DEF LInv, TypeOK, Counts
<1> QED BY <1>1, <1>6, <1>7, <1>8, Moves DEF LInv, TypeOK

LEMMA RegisterLInv ==
    ASSUME LInv, NEW w \in Workers, Increment(w) \/ Seed(w) \/ Flag(w)
    PROVE  LInv'
<1> USE LockoutAssumption
<1>1. CASE Increment(w)
  <2>1. Stage(w) = "incr" /\ UNCHANGED locked
    BY <1>1 DEF Increment
  <2>2. Key(w) \in Keys /\ count[Key(w)] \in Counts /\ failures[Key(w)] \in Counts
        /\ count[Key(w)] <= failures[Key(w)]
    BY <2>1, Knows DEF LInv, TypeOK
  <2>3. CASE /\ count' = [count EXCEPT ![Key(w)] = Plus(@)]
             /\ Got(w, Plus(count[Key(w)]), "flag")
    <3>1. Plus(count[Key(w)]) \in Counts /\ Plus(count[Key(w)]) <= Plus(failures[Key(w)])
      BY <2>2, PlusTypes, PlusRaises
    <3>2. count' \in [Keys -> Counts]
      BY <2>3, <3>1 DEF LInv, TypeOK
    <3>3. \A k \in Keys : count'[k] <= IF k = Key(w) THEN Plus(failures[k]) ELSE failures[k]
      BY <2>3, <3>1 DEF LInv, TypeOK
    <3> QED BY <2>1, <2>3, <3>1, <3>2, <3>3, GotLInv
  <2>4. CASE login' = [login EXCEPT ![w].stage = "seed"] /\ UNCHANGED <<count, failures>>
    <3>1. login' = [login EXCEPT ![w] = [login[w] EXCEPT !.stage = "seed"]]
      BY <2>4 DEF LInv, TypeOK
    <3>2. login[w] \in Login /\ login'[w] = [login[w] EXCEPT !.stage = "seed"]
      BY <3>1 DEF LInv, TypeOK
    <3>3. [login[w] EXCEPT !.stage = "seed"] \in Login
      BY <3>2 DEF Login, Stages
    <3>4. ~login[w].barred
      BY <2>1 DEF LInv, ReadEarned, Stage
    <3>5. Within(w)' /\ ReadEarned(w)'
      BY <2>1, <2>4, <3>2, <3>4 DEF Within, ReadEarned, KeysOf, LInv, Login, Stage
    <3> QED BY <2>1, <2>4, <3>1, <3>3, <3>5, MovesOn
  <2>5. CASE /\ login' = [login EXCEPT ![w] = NextKey(w, "incr", "report")]
             /\ UNCHANGED <<count, failures>>
    BY <2>1, <2>5, NextLInv DEF LInv, TypeOK
  <2> QED BY <1>1, <2>3, <2>4, <2>5 DEF Increment
<1>2. CASE Seed(w)
  <2>1. Stage(w) = "seed" /\ UNCHANGED locked /\ Got(w, 1, "flag")
        /\ count' \in {[count EXCEPT ![Key(w)] = 1], count}
    BY <1>2 DEF Seed
  <2>2. Key(w) \in Keys /\ failures[Key(w)] \in Counts
    BY <2>1, Knows DEF LInv, TypeOK
  <2>3. 1 \in Counts /\ 1 <= Plus(failures[Key(w)])
    BY <2>2 DEF Counts, Plus
  <2>4. count' \in [Keys -> Counts]
    BY <2>1, <2>3 DEF LInv, TypeOK
  <2>5. \A k \in Keys : count'[k] <= IF k = Key(w) THEN Plus(failures[k]) ELSE failures[k]
    <3> SUFFICES ASSUME NEW k \in Keys
                 PROVE  count'[k] <= IF k = Key(w) THEN Plus(failures[k]) ELSE failures[k]
      OBVIOUS
    <3>1. count[k] \in Counts /\ failures[k] \in Counts /\ count[k] <= failures[k]
          /\ Plus(failures[k]) \in Counts /\ failures[k] <= Plus(failures[k])
      BY PlusTypes DEF LInv, TypeOK
    <3>2. count'[k] = count[k] \/ (k = Key(w) /\ count'[k] = 1)
      BY <2>1 DEF LInv, TypeOK
    <3> QED BY <2>3, <3>1, <3>2 DEF Counts
  <2> QED BY <2>1, <2>3, <2>4, <2>5, GotLInv
<1>3. CASE Flag(w)
  <2>1. /\ Stage(w) = "flag" /\ UNCHANGED <<count, failures>>
        /\ login' = [login EXCEPT ![w] = NextKey(w, "incr", "report")]
        /\ locked' \in IF Count(w) >= Threshold THEN {locked, locked \union {Key(w)}} ELSE {locked}
    BY <1>3 DEF Flag
  <2>2. /\ login[w] \in Login /\ login[w].email \in Emails /\ Key(w) \in Keys
        /\ Key(w) = login[w].email \/ (Key(w) = login[w].address /\ Key(w) \in Addresses)
    BY <2>1, Knows
  <2>3. Count(w) <= failures[Key(w)]
    BY <2>2 DEF Count, AtEmail, LInv, Within
  <2>4. Count(w) \in Counts /\ failures[Key(w)] \in Counts
    BY <2>2 DEF Count, LInv, TypeOK, Login
  <2>5. \A k \in locked' : failures[k] >= Threshold
    BY <2>1, <2>3, <2>4 DEF LInv, Counts
  <2> QED BY <2>1, <2>2, <2>5, NextLInv DEF LInv, TypeOK
<1> QED BY <1>1, <1>2, <1>3

-----------------------------------------------------------------------------
\* The flag of k goes: the logins that face it are no longer barred by it.
LEMMA UnbarTypes ==
    ASSUME LInv, NEW k \in Keys
    PROVE  /\ Unbar(k) \in [Workers -> Login]
           /\ \A v \in Workers : /\ \/ Unbar(k)[v] = login[v]
                                    \/ Unbar(k)[v] = [login[v] EXCEPT !.barred = FALSE]
                                 /\ k \in KeysOf(v) => ~Unbar(k)[v].barred
<1>1. \A v \in Workers : login[v] \in Login /\ [login[v] EXCEPT !.barred = FALSE] \in Login
  BY DEF LInv, TypeOK, Login
<1>2. \A v \in Workers : [login[v] EXCEPT !.barred = FALSE].barred = FALSE
  BY <1>1 DEF Login
<1> QED BY <1>1, <1>2 DEF Unbar

LEMMA EndsLInv ==
    ASSUME LInv, NEW k \in Keys, WindowEnds(k) \/ LockEnds(k)
    PROVE  LInv'
<1>1. CASE WindowEnds(k)
  <2>1. count' \in [Keys -> Counts] /\ \A j \in Keys : count'[j] <= failures[j]
    BY <1>1, LockoutAssumption DEF WindowEnds, LInv, TypeOK, Counts
  <2>2. UNCHANGED <<locked, failures, login>>
    BY <1>1 DEF WindowEnds
  <2> QED BY <2>1, <2>2 DEF LInv, TypeOK, Within, ReadEarned, KeysOf
<1>2. CASE LockEnds(k)
  <2>1. locked' = locked \ {k} /\ login' = Unbar(k) /\ UNCHANGED <<count, failures>>
    BY <1>2 DEF LockEnds
  <2>2. TypeOK'
    BY <2>1, UnbarTypes DEF LInv, TypeOK
  <2>3. ASSUME NEW v \in Workers PROVE Within(v)' /\ ReadEarned(v)'
    <3>1. \A j \in KeysOf(v) : failures[j] <= failures'[j]
      BY <2>1, LockoutAssumption DEF LInv, TypeOK, KeysOf, Login, Keys, Counts
    <3>2. \/ login'[v] = login[v]
          \/ login'[v] = [login[v] EXCEPT !.barred = FALSE]
      BY <2>1, UnbarTypes
    <3>3. login'[v].barred => KeysOf(v) \cap locked \subseteq locked'
      BY <2>1, UnbarTypes
    <3> QED BY <2>2, <3>1, <3>2, <3>3, Bystander DEF LInv
  <2> QED BY <2>1, <2>2, <2>3 DEF LInv
<1> QED BY <1>1, <1>2

\* What is left of a login that has cleared a key.
LEMMA AfterClearTypes ==
    ASSUME LInv, NEW w \in Workers, Stage(w) = "clear",
           login'[w] = AfterClear(w), failures' \in [Keys -> Counts]
    PROVE  AfterClear(w) \in Login /\ Within(w)' /\ ReadEarned(w)'
<1> USE LockoutAssumption
<1>1. /\ login[w] \in Login /\ login[w].email \in Emails /\ login[w].stage = "clear"
  BY Knows DEF Stage
<1>2. CASE AtEmail(w) /\ login[w].address # NoAddress
  <2>1. login'[w] = [login[w] EXCEPT !.key = login[w].address]
    BY <1>2 DEF AfterClear
  <2>2. /\ login'[w].stage = "clear" /\ login'[w].key = login[w].address
        /\ login'[w].email = login[w].email /\ login'[w].address = login[w].address
        /\ login'[w].byEmail = login[w].byEmail /\ login'[w].byAddress = login[w].byAddress
        /\ login[w].address \in Addresses
    BY <1>1, <1>2, <2>1 DEF Login
  <2>3. login'[w].barred => login[w].barred
    BY <1>1, <2>1 DEF Login
  <2>4. ~login[w].barred
    BY <1>1 DEF LInv, ReadEarned
  <2>5. AfterClear(w) \in Login
    BY <1>1, <1>2, <2>2 DEF AfterClear, Login, Keys
  <2>6. Within(w)'
    <3>1. login[w].byEmail = 0 /\ login[w].byAddress = 0
      BY <1>1 DEF LInv, Within
    <3>2. failures'[login[w].email] >= 0 /\ failures'[login[w].address] >= 0
      BY <1>1, <2>2 DEF Keys, Counts
    <3> QED BY <1>1, <2>2, <3>1, <3>2 DEF Within, KeysOf
  <2>7. ReadEarned(w)'
    BY <2>2, <2>3, <2>4 DEF ReadEarned
  <2> QED BY <2>5, <2>6, <2>7
<1>3. CASE ~(AtEmail(w) /\ login[w].address # NoAddress)
  <2>1. login'[w] = Idle /\ AfterClear(w) = Idle
    BY <1>3 DEF AfterClear
  <2>2. Within(w)' /\ ReadEarned(w)'
    BY <2>1 DEF Idle, Within, ReadEarned
  <2> QED BY <2>1, <2>2, IdleIsLogin
<1> QED BY <1>2, <1>3

LEMMA ClearLInv ==
    ASSUME LInv, NEW w \in Workers, Clear(w)
    PROVE  LInv'
<1> USE LockoutAssumption
<1>1. /\ login[w] \in Login /\ login[w].email \in Emails /\ Key(w) \in Keys
      /\ Stage(w) = "clear"
      /\ Key(w) = login[w].email \/ (Key(w) = login[w].address /\ Key(w) \in Addresses)
  BY Knows DEF Clear
<1>2. CASE /\ login' = [login EXCEPT ![w] = AfterClear(w)]
           /\ UNCHANGED <<count, locked, failures>>
  <2>1. login'[w] = AfterClear(w)
    BY <1>2 DEF LInv, TypeOK
  <2>2. AfterClear(w) \in Login /\ Within(w)' /\ ReadEarned(w)'
    BY <1>1, <1>2, <2>1, AfterClearTypes DEF LInv, TypeOK
  <2> QED BY <1>2, <2>2, MovesOn
<1>3. CASE /\ count' = [count EXCEPT ![Key(w)] = 0]
           /\ locked' = locked \ {Key(w)}
           /\ failures' = IF Alone(w, Key(w)) THEN [failures EXCEPT ![Key(w)] = 0] ELSE failures
           /\ login' = [Unbar(Key(w)) EXCEPT ![w] = AfterClear(w)]
  <2>1. /\ count' \in [Keys -> Counts] /\ failures' \in [Keys -> Counts] /\ locked' \subseteq Keys
        /\ \A k \in Keys \ {Key(w)} : count'[k] = count[k] /\ failures'[k] = failures[k]
        /\ count'[Key(w)] = 0
    BY <1>1, <1>3 DEF LInv, TypeOK, Counts
  <2>2. \A k \in Keys : count'[k] <= failures'[k]
    BY <2>1 DEF LInv, Counts
  <2>3. \A k \in locked' : failures'[k] >= Threshold
    BY <1>3, <2>1 DEF LInv, TypeOK
  <2>4. login'[w] = AfterClear(w)
    BY <1>3, <1>1, UnbarTypes
  <2>5. AfterClear(w) \in Login /\ Within(w)' /\ ReadEarned(w)'
    BY <1>1, <2>1, <2>4, AfterClearTypes
  <2>6. TypeOK'
    BY <1>1, <1>3, <2>1, <2>5, UnbarTypes DEF TypeOK
  <2>7. ASSUME NEW v \in Workers \ {w} PROVE Within(v)' /\ ReadEarned(v)'
    <3>1. \A j \in KeysOf(v) : failures[j] <= failures'[j]
      <4>1. \A j \in KeysOf(v) : j \in Keys /\ failures[j] \in Nat
        BY DEF LInv, TypeOK, KeysOf, Login, Keys, Counts
      <4>2. Key(w) \in KeysOf(v) => failures' = failures
        BY <1>3 DEF Alone
      <4> QED BY <2>1, <4>1, <4>2
    <3>2. \/ login'[v] = login[v]
          \/ login'[v] = [login[v] EXCEPT !.barred = FALSE]
      BY <1>1, <1>3, UnbarTypes
    <3>3. login'[v].barred => KeysOf(v) \cap locked \subseteq locked'
      BY <1>1, <1>3, UnbarTypes
    <3> QED BY <2>6, <3>1, <3>2, <3>3, Bystander DEF LInv
  <2> QED BY <2>2, <2>3, <2>5, <2>6, <2>7 DEF LInv
<1> QED BY <1>2, <1>3 DEF Clear

-----------------------------------------------------------------------------
\* No login counts more than has failed, no flag is set below the threshold, and a
\* login that reads a flag as set has reason to.
THEOREM LockoutInvariance == Spec => []LInv
<1>1. LInv /\ [Next]_vars => LInv'
  <2> SUFFICES ASSUME LInv, [Next]_vars PROVE LInv'
    OBVIOUS
  <2>1. CASE UNCHANGED vars
    BY <2>1 DEF vars, LInv, TypeOK, Within, ReadEarned, KeysOf
  <2>2. ASSUME NEW w \in Workers, Refuse(w) \/ Report(w) \/ Fail(w) PROVE LInv'
    BY <2>2, FinishLInv DEF Refuse, Report, Fail
  <2> QED BY <2>1, <2>2, AskLInv, RegisterLInv, ClearLInv, EndsLInv DEF Next
<1> QED BY <1>1, InitLInv, PTL DEF Spec

\* Counters, flags and logins keep their shapes.
THEOREM LockoutTypeCorrect == Spec => []TypeOK
  BY LockoutInvariance, PTL DEF LInv

\* No login is refused and no lock reported before both its keys have had as many
\* failures as the threshold says (assert_not_locked, register_failure).
THEOREM EveryLockIsEarned == Spec => []LocksAreEarned
<1>1. LInv => LocksAreEarned
  <2> SUFFICES ASSUME LInv, NEW w \in Workers,
                      Stage(w) = "refused" \/ (Stage(w) = "report" /\ Tripped(w))
               PROVE  Earned(w)
    BY DEF LocksAreEarned
  <2>1. login[w] \in Login /\ login[w].email \in Emails /\ Within(w) /\ ReadEarned(w)
    BY Knows DEF LInv
  <2>2. KeysOf(w) \subseteq {login[w].email, login[w].address}
    BY DEF KeysOf
  <2>3. CASE Stage(w) = "refused"
    BY <2>1, <2>2, <2>3, LockoutAssumption DEF ReadEarned, Earned, Stage
  <2>4. CASE Stage(w) = "report" /\ Tripped(w)
    <3>1. login[w].address \in Addresses
      BY <2>1, <2>4, LockoutAssumption DEF Within, Tripped, Login, Counts
    <3>2. failures[login[w].email] \in Counts /\ failures[login[w].address] \in Counts
          /\ login[w].byEmail \in Counts /\ login[w].byAddress \in Counts
      BY <2>1, <3>1 DEF LInv, TypeOK, Keys, Login
    <3> QED BY <2>1, <2>2, <2>4, <3>1, <3>2, LockoutAssumption
            DEF Within, Tripped, Earned, Counts
  <2> QED BY <2>3, <2>4
<1> QED BY <1>1, LockoutInvariance, PTL

\* A login that begins under two flags checks no password while they last
\* (assert_not_locked comes first, and asks the flags).
THEOREM LockedMeansRefused == Spec => []LockedIsRefused
<1>1. LInv => LockedIsRefused
  BY DEF LInv, ReadEarned, LockedIsRefused, Stage
<1> QED BY <1>1, LockoutInvariance, PTL
=============================================================================
