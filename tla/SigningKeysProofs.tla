------------------------- MODULE SigningKeysProofs -------------------------
(***************************************************************************)
(* Proofs about SigningKeys: its inductive invariant, that a rotation        *)
(* strands no token and that the halves of a key match.                    *)
(***************************************************************************)
EXTENDS SigningKeys, TLAPS

LEMMA Constants ==
    /\ Ttl \in Nat /\ MaxAge \in Nat /\ Lifetime \in Nat /\ Propagation \in Nat /\ MaxNow \in Nat
    /\ Propagation > 0
    /\ ValidDays \subseteq Nat /\ RequiredOverlap = Lifetime + 1
    /\ Propagation > Ttl + MaxAge /\ NoOne \notin Operators /\ Unset \notin Kids
  BY KeysAssumption DEF RequiredOverlap

\* The key that signs is one of those that are trusted.
LEMMA ActiveIsTrusted == \A p : Active(p) \subseteq Whole
  BY DEF Active, Newest, Trusted

LEMMA InitKInv == Init => KInv
<1> SUFFICES ASSUME Init PROVE KInv
  OBVIOUS
<1> USE Constants
<1>1. PICK k \in Kids, o \in Operators, valid \in ValidDays :
          /\ valid > Lifetime
          /\ files = [j \in Kids |-> IF j # k THEN NoFiles
                        ELSE [private |-> o, public |-> o, metadata |-> "whole",
                              notBefore |-> 0, notAfter |-> valid, since |-> 0]]
          /\ pin \in {k, Unset}
  BY DEF Init
<1>2. files \in [Kids -> Files]
  BY <1>1 DEF NoFiles, Files, Writers
<1>3. \A j \in Kids : files[j].metadata = "whole" => j = k
  BY <1>1 DEF NoFiles
<1>4. files[k].metadata = "whole" /\ files[k].since = 0
  BY <1>1
<1>5. Established(k)
  BY <1>4 DEF Established, Init
<1>6. \A j \in Kids : ~Live(j)
  BY DEF Live, Init
<1>7. TypeOK
  <2>1. run \in [Operators -> Runs]
    BY DEF Init, IdleRun, Runs
  <2>2. proc \in [Workers -> Processes] /\ \A w \in Workers : proc[w].ring = {}
    BY <1>1 DEF Init, Processes
  <2>3. jwks \in [keys : SUBSET Kids, at : Nat] /\ circulating \in [Kids -> Nat] /\ now \in Nat
    BY DEF Init
  <2> QED BY <1>1, <1>2, <2>1, <2>2, <2>3 DEF TypeOK
<1>8. Directory
  <2>1. \A j \in Kids : /\ files[j].public \in {files[j].private, NoOne}
                        /\ files[j].metadata # "absent" => files[j].public \in Operators
                        /\ files[j].since <= now
    BY <1>1 DEF NoFiles, Init
  <2>2. \A p \in Operators : run[p].stage = "idle"
    BY DEF Init, IdleRun
  <2> QED BY <2>1, <2>2 DEF Directory
<1>9. Settings
  <2>1. \A w \in Workers : proc[w].pin \in {k, Unset} /\ proc[w].active = Unset
    BY <1>1 DEF Init
  <2>2. \A j \in Kids : files[j].metadata = "whole" => Established(j)
    BY <1>3, <1>5
  <2>3. \A p \in Operators : run[p] = IdleRun
    BY DEF Init
  <2> QED BY <1>1, <1>5, <1>6, <2>1, <2>2, <2>3 DEF Settings
<1>10. Caches
  BY DEF Caches, Init
<1> QED BY <1>7, <1>8, <1>9, <1>10 DEF KInv

\* The runs that stage a key: what KInv says of the rest when only files and runs change,
\* no key becomes whole and none stops being so.
LEMMA Staging ==
    ASSUME KInv, UNCHANGED <<now, pin, proc, jwks, circulating>>, files' \in [Kids -> Files],
           \A k \in Kids : /\ files'[k].metadata = "whole" <=> files[k].metadata = "whole"
                           /\ files'[k].since = files[k].since,
           pin = Unset \/ (\E w \in Workers : proc[w].pin = Unset) => UNCHANGED run
    PROVE  Settings' /\ Caches'
<1>1. Whole' = Whole
  BY DEF Whole
<1>2. \A k \in Kids : Established(k)' <=> Established(k)
  BY DEF Established
<1>3. \A k \in Kids : Live(k)' <=> Live(k)
  BY DEF Live
<1>4. pin \in Kids \union {Unset}
  BY DEF KInv, TypeOK
<1>5. Settings'
  BY <1>2, <1>3, <1>4 DEF KInv, Settings
<1>6. Caches'
  <2>1. \A k \in Whole : files'[k].since = files[k].since
    BY DEF Whole
  <2>2. Caches
    BY DEF KInv
  <2> QED BY <1>1, <2>1, <2>2 DEF Caches
<1> QED BY <1>5, <1>6

LEMMA StepKInv == KInv /\ [Next]_vars => KInv'
<1> SUFFICES ASSUME KInv, [Next]_vars PROVE KInv'
  OBVIOUS
<1> USE Constants
<1>t. TypeOK /\ Directory /\ Settings /\ Caches
  BY DEF KInv
<1>f. \A k \in Kids : files[k] \in Files
  BY <1>t DEF TypeOK
<1>r. \A o \in Operators : run[o] \in Runs
  BY <1>t DEF TypeOK
<1>1. ASSUME NEW o \in Operators, NEW k \in Kids, NEW valid \in ValidDays, Prepare(o, k, valid)
      PROVE  KInv'
  <2>1. [stage |-> "ready", kid |-> k, notBefore |-> now, notAfter |-> now + valid] \in Runs
    BY <1>t DEF TypeOK, Runs
  <2>2. TypeOK'
    BY <1>1, <1>t, <2>1 DEF Prepare, TypeOK
  <2>3. Directory'
    BY <1>1, <1>t, <1>r DEF Prepare, TypeOK, Directory
  <2>4. Settings' /\ Caches'
    BY <1>1, <1>t, Staging DEF Prepare, TypeOK
  <2> QED BY <2>2, <2>3, <2>4 DEF KInv
<1>2. ASSUME NEW o \in Operators, WritePrivate(o) PROVE KInv'
  <2> DEFINE k == run[o].kid
  <2>0. k \in Kids /\ run[o].stage = "ready"
    BY <1>2, <1>t DEF WritePrivate, Directory
  <2>1. CASE files[k].private = NoOne
    <3>1. files' = [files EXCEPT ![k].private = o] /\ run' = [run EXCEPT ![o].stage = "private"]
      BY <1>2, <2>1 DEF WritePrivate
    <3>2. files[k].public = NoOne /\ files[k].metadata = "absent"
      BY <1>t, <2>0, <2>1 DEF Directory
    <3>3. /\ files' \in [Kids -> Files]
          /\ \A j \in Kids : j # k => files'[j] = files[j]
          /\ files'[k].private = o /\ files'[k].public = NoOne
          /\ files'[k].metadata = "absent" /\ files'[k].since = files[k].since
      BY <1>f, <1>t, <2>0, <3>1, <3>2 DEF TypeOK, Files, Writers
    <3>4. /\ run' \in [Operators -> Runs]
          /\ \A p \in Operators : p # o => run'[p] = run[p]
          /\ run'[o].stage = "private" /\ run'[o].kid = k
      BY <1>r, <1>t, <3>1 DEF TypeOK, Runs
    <3>5. TypeOK'
      BY <1>2, <1>t, <3>3, <3>4 DEF WritePrivate, TypeOK
    <3>6. \A p \in Operators : p # o /\ run[p].kid = k =>
              run[p].stage \notin {"private", "public", "torn"}
      BY <1>t, <2>1 DEF Directory
    <3>7. Directory'
      <4>1. now' = now
        BY <1>2 DEF WritePrivate
      <4>2. \A j \in Kids : /\ files'[j].public \in {files'[j].private, NoOne}
                            /\ files'[j].metadata # "absent" => files'[j].public \in Operators
                            /\ files'[j].since <= now'
        BY <1>t, <3>3, <4>1 DEF Directory
      <4> QED BY <1>t, <2>0, <3>3, <3>4, <3>6, <4>2 DEF Directory
    <3>8. Settings' /\ Caches'
      <4>1. \A j \in Kids : /\ files'[j].metadata = "whole" <=> files[j].metadata = "whole"
                            /\ files'[j].since = files[j].since
        BY <3>2, <3>3
      <4>2. run[o] # IdleRun
        BY <2>0 DEF IdleRun
      <4>3. ~(pin = Unset \/ \E w \in Workers : proc[w].pin = Unset)
        BY <1>t, <4>2 DEF Settings
      <4> QED BY <1>2, <3>3, <4>1, <4>3, Staging DEF WritePrivate
    <3> QED BY <3>5, <3>7, <3>8 DEF KInv
  <2>2. CASE files[k].private # NoOne
    <3>1. UNCHANGED files /\ run' = [run EXCEPT ![o] = IdleRun]
      BY <1>2, <2>2 DEF WritePrivate
    <3>2. IdleRun \in Runs
      BY DEF IdleRun, Runs
    <3>3. TypeOK'
      BY <1>2, <1>t, <3>1, <3>2 DEF WritePrivate, TypeOK
    <3>4. Directory'
      BY <1>2, <1>t, <3>1, <1>r DEF WritePrivate, Directory, TypeOK, IdleRun
    <3>5. run[o] # IdleRun
      BY <2>0 DEF IdleRun
    <3>6. Settings' /\ Caches'
      <4>1. ~(pin = Unset \/ \E w \in Workers : proc[w].pin = Unset)
        BY <1>t, <3>5 DEF Settings
      <4> QED BY <1>2, <1>t, <3>1, <4>1, Staging DEF WritePrivate, TypeOK
    <3> QED BY <3>3, <3>4, <3>6 DEF KInv
  <2> QED BY <2>1, <2>2
<1>3. ASSUME NEW o \in Operators, WritePublic(o) PROVE KInv'
  <2> DEFINE k == run[o].kid
  <2>0. /\ k \in Kids /\ run[o].stage = "private" /\ files[k].private = o
        /\ files[k].metadata = "absent"
    BY <1>3, <1>t DEF WritePublic, Directory
  <2>1. files' = [files EXCEPT ![k].public = o] /\ run' = [run EXCEPT ![o].stage = "public"]
    BY <1>3 DEF WritePublic
  <2>2. /\ files' \in [Kids -> Files]
        /\ \A j \in Kids : j # k => files'[j] = files[j]
        /\ files'[k].private = o /\ files'[k].public = o
        /\ files'[k].metadata = "absent" /\ files'[k].since = files[k].since
    BY <1>f, <1>t, <2>0, <2>1 DEF TypeOK, Files, Writers
  <2>3. /\ run' \in [Operators -> Runs]
        /\ \A p \in Operators : p # o => run'[p] = run[p]
        /\ run'[o].stage = "public" /\ run'[o].kid = k
    BY <1>r, <1>t, <2>1 DEF TypeOK, Runs
  <2>4. TypeOK'
    BY <1>3, <1>t, <2>2, <2>3 DEF WritePublic, TypeOK
  <2>5. Directory'
    <3>1. \A p \in Operators : p # o /\ run[p].kid = k =>
              run[p].stage \notin {"private", "public", "torn"}
      BY <1>t, <2>0 DEF Directory
    <3>2. now' = now
      BY <1>3 DEF WritePublic
    <3>3. \A j \in Kids : /\ files'[j].public \in {files'[j].private, NoOne}
                          /\ files'[j].metadata # "absent" => files'[j].public \in Operators
                          /\ files'[j].since <= now'
      BY <1>t, <2>2, <3>2 DEF Directory
    <3> QED BY <1>t, <2>0, <2>2, <2>3, <3>1, <3>3 DEF Directory
  <2>6. Settings' /\ Caches'
    <3>1. \A j \in Kids : /\ files'[j].metadata = "whole" <=> files[j].metadata = "whole"
                          /\ files'[j].since = files[j].since
      BY <2>0, <2>2
    <3>2. run[o] # IdleRun
      BY <2>0 DEF IdleRun
    <3>3. ~(pin = Unset \/ \E w \in Workers : proc[w].pin = Unset)
      BY <1>t, <3>2 DEF Settings
    <3> QED BY <1>3, <2>2, <3>1, <3>3, Staging DEF WritePublic
  <2> QED BY <2>4, <2>5, <2>6 DEF KInv
<1>4. ASSUME NEW o \in Operators, OpenMetadata(o) PROVE KInv'
  <2> DEFINE k == run[o].kid
  <2>0. /\ k \in Kids /\ run[o].stage = "public" /\ files[k].private = o
        /\ files[k].public = o /\ files[k].metadata = "absent"
    BY <1>4, <1>t DEF OpenMetadata, Directory
  <2>1. /\ files' = [files EXCEPT ![k].metadata = "torn"]
        /\ run' = [run EXCEPT ![o].stage = "torn"]
    BY <1>4 DEF OpenMetadata
  <2>2. /\ files' \in [Kids -> Files]
        /\ \A j \in Kids : j # k => files'[j] = files[j]
        /\ files'[k].private = o /\ files'[k].public = o
        /\ files'[k].metadata = "torn" /\ files'[k].since = files[k].since
    BY <1>f, <1>t, <2>0, <2>1 DEF TypeOK, Files, Writers
  <2>3. /\ run' \in [Operators -> Runs]
        /\ \A p \in Operators : p # o => run'[p] = run[p]
        /\ run'[o].stage = "torn" /\ run'[o].kid = k
    BY <1>r, <1>t, <2>1 DEF TypeOK, Runs
  <2>4. TypeOK'
    BY <1>4, <1>t, <2>2, <2>3 DEF OpenMetadata, TypeOK
  <2>5. Directory'
    <3>1. \A p \in Operators : p # o /\ run[p].kid = k =>
              run[p].stage \notin {"private", "public", "torn"}
      BY <1>t, <2>0 DEF Directory
    <3>2. now' = now
      BY <1>4 DEF OpenMetadata
    <3>3. \A j \in Kids : /\ files'[j].public \in {files'[j].private, NoOne}
                          /\ files'[j].metadata # "absent" => files'[j].public \in Operators
                          /\ files'[j].since <= now'
      BY <1>t, <2>2, <3>2 DEF Directory
    <3> QED BY <1>t, <2>0, <2>2, <2>3, <3>1, <3>3 DEF Directory
  <2>6. Settings' /\ Caches'
    <3>1. \A j \in Kids : /\ files'[j].metadata = "whole" <=> files[j].metadata = "whole"
                          /\ files'[j].since = files[j].since
      BY <2>0, <2>2
    <3>2. run[o] # IdleRun
      BY <2>0 DEF IdleRun
    <3>3. ~(pin = Unset \/ \E w \in Workers : proc[w].pin = Unset)
      BY <1>t, <3>2 DEF Settings
    <3> QED BY <1>4, <2>2, <3>1, <3>3, Staging DEF OpenMetadata
  <2> QED BY <2>4, <2>5, <2>6 DEF KInv
<1>5. ASSUME NEW o \in Operators, WriteMetadata(o) PROVE KInv'
  <2> DEFINE k == run[o].kid
  <2>0. /\ k \in Kids /\ run[o].stage = "torn" /\ files[k].private = o
        /\ files[k].public = o /\ files[k].metadata = "torn"
    BY <1>5, <1>t DEF WriteMetadata, Directory
  <2>1. /\ files' = [files EXCEPT ![k] = [@ EXCEPT !.metadata = "whole", !.since = now,
                       !.notBefore = run[o].notBefore, !.notAfter = run[o].notAfter]]
        /\ run' = [run EXCEPT ![o] = IdleRun]
        /\ UNCHANGED <<now, pin, proc, jwks, circulating>>
    BY <1>5 DEF WriteMetadata
  <2>2. /\ files' \in [Kids -> Files]
        /\ \A j \in Kids : j # k => files'[j] = files[j]
        /\ files'[k].private = o /\ files'[k].public = o
        /\ files'[k].metadata = "whole" /\ files'[k].since = now
    <3>1. run[o].notBefore \in Nat /\ run[o].notAfter \in Nat /\ now \in Nat
      BY <1>r, <1>t DEF Runs, TypeOK
    <3> DEFINE new == [files[k] EXCEPT !.metadata = "whole", !.since = now,
                         !.notBefore = run[o].notBefore, !.notAfter = run[o].notAfter]
    <3>2. files' = [files EXCEPT ![k] = new]
      BY <2>1
    <3>3. files[k] \in Files
      BY <1>f, <2>0
    <3>4. /\ new \in Files /\ new.private = files[k].private /\ new.public = files[k].public
          /\ new.metadata = "whole" /\ new.since = now
      BY <3>1, <3>3 DEF Files
    <3> HIDE DEF new
    <3> QED BY <1>t, <2>0, <3>2, <3>4 DEF TypeOK
  <2>3. IdleRun \in Runs
    BY DEF IdleRun, Runs
  <2>4. /\ run' \in [Operators -> Runs]
        /\ \A p \in Operators : p # o => run'[p] = run[p]
        /\ run'[o].stage = "idle"
    BY <1>t, <2>1, <2>3 DEF TypeOK, IdleRun
  <2>5. TypeOK'
    BY <1>t, <2>1, <2>2, <2>4 DEF TypeOK
  <2>6. Directory'
    <3>1. \A p \in Operators : p # o /\ run[p].kid = k =>
              run[p].stage \notin {"private", "public", "torn"}
      BY <1>t, <2>0 DEF Directory
    <3>2. \A j \in Kids : /\ files'[j].public \in {files'[j].private, NoOne}
                          /\ files'[j].metadata # "absent" => files'[j].public \in Operators
                          /\ files'[j].since <= now'
      BY <1>t, <2>1, <2>2 DEF Directory, TypeOK
    <3> QED BY <1>t, <2>0, <2>2, <2>4, <3>1, <3>2 DEF Directory
  <2>7. \A j \in Kids : (Established(j) => Established(j)') /\ (Live(j)' <=> Live(j))
    BY <2>0, <2>1, <2>2 DEF Established, Live
  <2>8. pin # Unset /\ \A w \in Workers : proc[w].pin # Unset
    BY <1>t, <2>0 DEF Settings, IdleRun
  <2>9. Settings'
    <3>1. pin \in Kids
      BY <1>t, <2>8 DEF TypeOK
    <3> QED BY <1>t, <2>1, <2>7, <2>8, <3>1 DEF Settings
  <2>10. Caches'
    <3>1. \A j \in Whole' : j = k \/ (j \in Whole /\ files'[j].since = files[j].since)
      BY <2>2 DEF Whole
    <3>2. files'[k].since = now
      BY <2>2
    <3>3. jwks.at \in Nat /\ \A w \in Workers : proc[w].loaded \in Nat
      BY <1>t DEF TypeOK, Processes
    <3> QED BY <1>t, <2>1, <3>1, <3>2, <3>3 DEF Caches, TypeOK
  <2> QED BY <2>5, <2>6, <2>9, <2>10 DEF KInv
<1>6. ASSUME NEW o \in Operators, Abort(o) PROVE KInv'
  <2>1. IdleRun \in Runs
    BY DEF IdleRun, Runs
  <2>2. TypeOK'
    BY <1>6, <1>t, <2>1 DEF Abort, TypeOK
  <2>3. Directory'
    BY <1>6, <1>t, <1>r DEF Abort, Directory, TypeOK, IdleRun
  <2>4. run[o] # IdleRun
    BY <1>6 DEF Abort, IdleRun
  <2>5. Settings' /\ Caches'
    <3>1. ~(pin = Unset \/ \E w \in Workers : proc[w].pin = Unset)
      BY <1>t, <2>4 DEF Settings
    <3> QED BY <1>6, <1>t, <3>1, Staging DEF Abort, TypeOK
  <2> QED BY <2>2, <2>3, <2>5 DEF KInv
<1>7. ASSUME NEW k \in Kids, Promote(k) PROVE KInv'
  <2>1. TypeOK' /\ Directory' /\ Caches'
    <3>1. Whole' = Whole
      BY <1>7 DEF Promote, Whole
    <3> QED BY <1>7, <1>t, <3>1 DEF Promote, TypeOK, Directory, Caches
  <2>2. Established(k)
    BY <1>7 DEF Promote, Established
  <2>3. \A j : (Established(j)' <=> Established(j)) /\ (Live(j)' <=> Live(j))
    BY <1>7 DEF Promote, Established, Live
  <2>4. Settings'
    BY <1>7, <1>t, <2>2, <2>3 DEF Promote, Settings
  <2> QED BY <2>1, <2>4 DEF KInv
<1>8. ASSUME NEW k \in Kids, Retire(k) PROVE KInv'
  <2>1. /\ files' = [files EXCEPT ![k].metadata = "retired"]
        /\ UNCHANGED <<now, run, pin, proc, jwks, circulating>>
        /\ files[k].metadata = "whole"
    BY <1>8 DEF Retire
  <2>2. /\ files' \in [Kids -> Files]
        /\ \A j \in Kids : j # k => files'[j] = files[j]
        /\ files'[k].private = files[k].private /\ files'[k].public = files[k].public
        /\ files'[k].metadata = "retired" /\ files'[k].since = files[k].since
    BY <1>f, <1>t, <2>1 DEF TypeOK, Files
  <2>3. TypeOK'
    BY <1>t, <2>1, <2>2 DEF TypeOK
  <2>4. Directory'
    <3>1. \A p \in Operators : run[p].kid = k => run[p].stage \in {"idle", "ready"}
      <4>1. \A p \in Operators : run[p].stage \in {"idle", "ready", "private", "public", "torn"}
        BY <1>r DEF Runs
      <4> QED BY <1>t, <2>1, <4>1 DEF Directory
    <3>2. \A j \in Kids : /\ files'[j].public \in {files'[j].private, NoOne}
                          /\ files'[j].metadata # "absent" => files'[j].public \in Operators
                          /\ files'[j].since <= now'
      BY <1>t, <2>1, <2>2 DEF Directory
    <3> QED BY <1>t, <2>1, <2>2, <3>1, <3>2 DEF Directory
  <2>5. ~Live(k)
    <3>1. circulating[k] \in Nat /\ now \in Nat /\ files[k].notAfter \in Nat
      BY <1>f, <1>t DEF TypeOK, Files
    <3> QED BY <1>8, <3>1 DEF Retire, Live
  <2>6. \A j \in Kids : /\ j # k => (Established(j)' <=> Established(j))
                        /\ Live(j)' <=> Live(j)
    BY <2>1, <2>2 DEF Established, Live
  <2>7. pin # k /\ \A w \in Workers : proc[w].pin # k /\ proc[w].active # k
    BY <1>8 DEF Retire
  <2>8. Settings'
    <3>1. \A j \in Kids : files'[j].metadata = "whole" => j # k /\ files[j].metadata = "whole"
      BY <2>2
    <3>2. pin \in Kids \union {Unset}
      BY <1>t DEF TypeOK
    <3> QED BY <1>t, <2>1, <2>5, <2>6, <2>7, <3>1, <3>2 DEF Settings
  <2>9. Caches'
    <3>1. \A j \in Whole' : j \in Whole /\ files'[j].since = files[j].since
      BY <2>2 DEF Whole
    <3> QED BY <1>t, <2>1, <3>1 DEF Caches
  <2> QED BY <2>3, <2>4, <2>8, <2>9 DEF KInv
<1>9. ASSUME NEW w \in Workers, Reload(w) PROVE KInv'
  <2>1. PICK a \in Active(proc[w].pin) :
          proc' = [proc EXCEPT ![w] = [@ EXCEPT !.ring = Trusted, !.active = a, !.loaded = now]]
    BY <1>9 DEF Reload
  <2>2. a \in Whole /\ Trusted = Whole /\ Whole \subseteq Kids
    BY ActiveIsTrusted DEF Trusted, Whole
  <2>3. /\ proc' \in [Workers -> Processes]
        /\ \A v \in Workers : v # w => proc'[v] = proc[v]
        /\ proc'[w].pin = proc[w].pin /\ proc'[w].ring = Whole
        /\ proc'[w].active = a /\ proc'[w].loaded = now
    BY <1>t, <2>1, <2>2 DEF TypeOK, Processes
  <2>4. UNCHANGED <<now, files, run, pin, jwks, circulating>>
    BY <1>9 DEF Reload
  <2>5. TypeOK' /\ Directory'
    BY <1>t, <2>2, <2>3, <2>4 DEF TypeOK, Directory
  <2>6. Established(a)
    <3>1. CASE proc[w].pin = Unset
      BY <1>t, <2>2, <3>1 DEF Settings, Whole
    <3>2. CASE proc[w].pin # Unset
      BY <1>t, <3>2 DEF Settings, Active
    <3> QED BY <3>1, <3>2
  <2>7. \A j : (Established(j)' <=> Established(j)) /\ (Live(j)' <=> Live(j))
    BY <2>4 DEF Established, Live
  <2>8. Settings'
    BY <1>t, <2>2, <2>3, <2>4, <2>6, <2>7 DEF Settings
  <2>9. Caches'
    <3>1. Whole' = Whole
      BY <2>4 DEF Whole
    <3> QED BY <1>t, <2>3, <2>4, <3>1 DEF Caches, TypeOK
  <2> QED BY <2>5, <2>8, <2>9 DEF KInv
<1>10. ASSUME NEW w \in Workers, Restart(w) PROVE KInv'
  <2>1. /\ proc' = [proc EXCEPT ![w] =
                      [pin |-> pin, ring |-> {}, active |-> Unset, loaded |-> 0]]
        /\ UNCHANGED <<now, files, run, pin, jwks, circulating>>
    BY <1>10 DEF Restart
  <2>2. /\ proc' \in [Workers -> Processes]
        /\ \A v \in Workers : v # w => proc'[v] = proc[v]
        /\ proc'[w].pin = pin /\ proc'[w].ring = {} /\ proc'[w].active = Unset
    BY <1>t, <2>1 DEF TypeOK, Processes
  <2>3. TypeOK' /\ Directory'
    BY <1>t, <2>1, <2>2 DEF TypeOK, Directory
  <2>4. \A j : (Established(j)' <=> Established(j)) /\ (Live(j)' <=> Live(j))
    BY <2>1 DEF Established, Live
  <2>5. pin \in Kids \union {Unset}
    BY <1>t DEF TypeOK
  <2>6. Settings'
    BY <1>t, <2>1, <2>2, <2>4, <2>5 DEF Settings
  <2>7. Caches'
    <3>1. Whole' = Whole
      BY <2>1 DEF Whole
    <3> QED BY <1>t, <2>1, <2>2, <3>1 DEF Caches
  <2> QED BY <2>3, <2>6, <2>7 DEF KInv
<1>11. ASSUME NEW w \in Workers, Sign(w) PROVE KInv'
  <2> DEFINE a == proc[w].active
  <2>1. a \in Kids /\ now \in Nat
    BY <1>11, <1>t DEF Sign, Fresh, TypeOK, Processes
  <2>2. /\ circulating' = [circulating EXCEPT ![a] = now + Lifetime]
        /\ UNCHANGED <<now, files, run, pin, proc, jwks>>
    BY <1>11 DEF Sign
  <2>3. TypeOK' /\ Directory'
    BY <1>t, <2>1, <2>2 DEF TypeOK, Directory
  <2>4. Established(a)
    BY <1>t, <2>1 DEF Settings
  <2>5. \A j \in Kids : (Established(j)' <=> Established(j)) /\ (Live(j)' => Live(j) \/ j = a)
    BY <1>t, <2>2 DEF Established, Live, TypeOK
  <2>6. Settings'
    BY <1>t, <2>2, <2>4, <2>5 DEF Settings, TypeOK
  <2>7. Caches'
    BY <1>t, <2>2 DEF Caches, Whole
  <2> QED BY <2>3, <2>6, <2>7 DEF KInv
<1>12. ASSUME NEW w \in Workers, Fetch(w) PROVE KInv'
  <2>1. /\ jwks' = [keys |-> proc[w].ring, at |-> now]
        /\ UNCHANGED <<now, files, run, pin, proc, circulating>>
    BY <1>12 DEF Fetch
  <2>2. TypeOK' /\ Directory'
    BY <1>t, <2>1 DEF TypeOK, Directory, Processes
  <2>3. \A j : (Established(j)' <=> Established(j)) /\ (Live(j)' <=> Live(j))
    BY <2>1 DEF Established, Live
  <2>4. Settings'
    BY <1>t, <2>1, <2>3 DEF Settings
  <2>5. Caches'
    <3>1. Whole' = Whole
      BY <2>1 DEF Whole
    <3>2. proc[w].ring # {} /\ now - proc[w].loaded <= Ttl
      BY <1>12 DEF Fetch, Fresh
    <3>3. proc[w].loaded \in Nat /\ now \in Nat /\ \A j \in Whole : files[j].since \in Nat
      BY <1>t, <1>f DEF TypeOK, Processes, Whole, Files
    <3>4. \A j \in Whole : files[j].since + Ttl < now => j \in proc[w].ring
      BY <1>t, <3>2, <3>3 DEF Caches
    <3> QED BY <1>t, <2>1, <3>1, <3>3, <3>4 DEF Caches
  <2> QED BY <2>2, <2>4, <2>5 DEF KInv
<1>13. CASE Tick
  <2>1. now \in Nat /\ now' = now + 1 /\ UNCHANGED <<files, run, pin, proc, jwks, circulating>>
    BY <1>13, <1>t DEF Tick, TypeOK
  <2>2. TypeOK'
    BY <1>t, <2>1 DEF TypeOK
  <2>3. Directory'
    <3>1. \A k \in Kids : files[k].since \in Nat
      BY <1>f DEF Files
    <3> QED BY <1>t, <2>1, <3>1 DEF Directory
  <2>4. \A j \in Kids : (Established(j) => Established(j)') /\ (Live(j)' => Live(j))
    BY <1>t, <1>f, <2>1 DEF Established, Live, TypeOK, Files
  <2>5. pin \in Kids \union {Unset}
    BY <1>t DEF TypeOK
  <2>6. Settings'
    BY <1>t, <2>1, <2>4, <2>5 DEF Settings
  <2>7. Caches'
    <3>1. Whole' = Whole
      BY <2>1 DEF Whole
    <3>2. jwks.at \in Nat /\ \A w \in Workers : proc[w].loaded \in Nat
      BY <1>t DEF TypeOK, Processes
    <3> QED BY <1>t, <2>1, <3>1, <3>2 DEF Caches
  <2> QED BY <2>2, <2>3, <2>6, <2>7 DEF KInv
<1>14. CASE UNCHANGED vars
  BY <1>14, <1>t DEF vars, KInv, TypeOK, Directory, Settings, Caches, Established, Live, Whole
<1> QED BY <1>1, <1>2, <1>3, <1>4, <1>5, <1>6, <1>7, <1>8, <1>9, <1>10, <1>11, <1>12, <1>13, <1>14 DEF Next

\* The inductive invariant of a rotation: the files of a key come from one run, whatever
\* signs has been staged for Propagation, and no cache lacks a key staged before it was read.
THEOREM RotationInvariance == Spec => []KInv
  BY InitKInv, StepKInv, PTL DEF Spec

\* The clock, the directory, the runs and the rings keep their shapes (Keyring, _KeyPaths).
THEOREM KeysTypeCorrect == Spec => []TypeOK
<1>1. KInv => TypeOK
  BY DEF KInv
<1> QED BY <1>1, RotationInvariance, PTL

\* No token signed by any worker is unknown to another worker, or to a verifier behind the
\* edge, before it expires, for any number of workers and keys and any delays of the assumption.
THEOREM EveryTokenVerifies == Spec => []CirculatingVerifies
<1>1. KInv => CirculatingVerifies
  <2> SUFFICES ASSUME KInv, NEW k \in Kids, Live(k)
               PROVE  /\ files[k].metadata = "whole"
                      /\ \A w \in Workers : Fresh(w) => k \in proc[w].ring
                      /\ Served => k \in jwks.keys
    BY DEF CirculatingVerifies
  <2> USE Constants
  <2>1. k \in Whole /\ now >= files[k].since + Propagation
    BY DEF KInv, Settings, Established, Whole
  <2>2. files[k].since \in Nat /\ now \in Nat /\ jwks.at \in Nat
    BY DEF KInv, TypeOK, Files
  <2>3. ASSUME NEW w \in Workers, Fresh(w) PROVE k \in proc[w].ring
    <3>1. proc[w].loaded \in Nat /\ files[k].since < proc[w].loaded
      BY <2>1, <2>2, <2>3 DEF KInv, TypeOK, Processes, Fresh
    <3> QED BY <2>1, <2>3, <3>1 DEF KInv, Caches, Fresh
  <2>4. ASSUME Served PROVE k \in jwks.keys
    <3>1. files[k].since + Ttl < jwks.at
      BY <2>1, <2>2, <2>4 DEF Served
    <3> QED BY <2>1, <2>4, <3>1 DEF KInv, Caches, Served
  <2> QED BY <2>1, <2>3, <2>4 DEF Whole
<1> QED BY <1>1, RotationInvariance, PTL

\* The private and the public key of a kid are of one run of rotate_jwt_keys, however many
\* runs overlap.
THEOREM KeyHalvesMatch == Spec => []PairsMatch
<1>1. KInv => PairsMatch
  BY Constants DEF KInv, Directory, PairsMatch
<1> QED BY <1>1, RotationInvariance, PTL

\* A ring and the document at the edge hold finished keys only, whenever and how often
\* runs of rotate_jwt_keys are killed, and whatever is read, restarted or fetched meanwhile.
THEOREM NoHalfWrittenKeys == Spec => []HalfWrittenKeysStayOut
<1> DEFINE Finished == {k \in Kids : files[k].metadata \in {"whole", "retired"}}
           Cached == jwks.keys \union UNION {proc[w].ring : w \in Workers}
<1>1. Init => HalfWrittenKeysStayOut
  BY DEF Init, HalfWrittenKeysStayOut
<1>2. ASSUME KInv, HalfWrittenKeysStayOut, [Next]_vars PROVE HalfWrittenKeysStayOut'
  <2>1. Cached \subseteq Kids /\ Cached \subseteq Finished
    BY <1>2 DEF KInv, TypeOK, Processes, HalfWrittenKeysStayOut
  <2>2. \A k \in Finished : files'[k].metadata \in {"whole", "retired"}
    <3>1. ASSUME NEW o \in Operators,
                 WritePrivate(o) \/ WritePublic(o) \/ OpenMetadata(o) \/ WriteMetadata(o)
          PROVE  \A k \in Finished : files'[k].metadata \in {"whole", "retired"}
      <4>1. /\ run[o].kid \in Kids
            /\ run[o].stage \in {"public", "torn"} => run[o].kid \notin Finished
        BY <1>2, <3>1
        DEF KInv, Directory, WritePrivate, WritePublic, OpenMetadata, WriteMetadata
      <4>2. CASE WritePrivate(o)
        BY <1>2, <4>2 DEF WritePrivate, KInv, TypeOK, Files
      <4>3. CASE WritePublic(o)
        BY <1>2, <4>3 DEF WritePublic, KInv, TypeOK, Files
      <4>4. CASE OpenMetadata(o)
        BY <1>2, <4>1, <4>4 DEF OpenMetadata, KInv, TypeOK, Files
      <4>5. CASE WriteMetadata(o)
        BY <1>2, <4>1, <4>5 DEF WriteMetadata, KInv, TypeOK, Files
      <4> QED BY <3>1, <4>2, <4>3, <4>4, <4>5
    <3>2. ASSUME NEW k \in Kids, Retire(k)
          PROVE  \A j \in Finished : files'[j].metadata \in {"whole", "retired"}
      BY <1>2, <3>2 DEF Retire, KInv, TypeOK, Files
    <3>3. CASE UNCHANGED files
      BY <3>3
    <3> QED BY <1>2, <3>1, <3>2, <3>3
            DEF Next, Prepare, Abort, Promote, Reload, Restart, Sign, Fetch, Tick, vars
  <2>3. Cached' \subseteq Cached \union Whole
    <3>1. ASSUME NEW w \in Workers, Reload(w) PROVE Cached' \subseteq Cached \union Whole
      BY <1>2, <3>1 DEF Reload, Trusted, KInv, TypeOK, Processes
    <3>2. ASSUME NEW w \in Workers, Restart(w) PROVE Cached' \subseteq Cached
      BY <1>2, <3>2 DEF Restart, KInv, TypeOK, Processes
    <3>3. ASSUME NEW w \in Workers, Fetch(w) PROVE Cached' \subseteq Cached
      BY <1>2, <3>3 DEF Fetch
    <3>4. CASE UNCHANGED <<proc, jwks>>
      BY <3>4
    <3> QED BY <1>2, <3>1, <3>2, <3>3, <3>4
            DEF Next, Prepare, WritePrivate, WritePublic, OpenMetadata, WriteMetadata, Abort,
                Promote, Retire, Sign, Tick, vars
  <2>4. Whole \subseteq Finished
    BY DEF Whole
  <2>5. \A k \in Kids : k \in jwks'.keys \/ (\E w \in Workers : k \in proc'[w].ring) =>
                           k \in Cached \union Whole
    BY <2>3
  <2> HIDE DEF Cached
  <2> QED BY <2>1, <2>2, <2>4, <2>5 DEF HalfWrittenKeysStayOut
<1>3. Spec => []HalfWrittenKeysStayOut
  BY <1>1, <1>2, RotationInvariance, PTL DEF Spec
<1> QED BY <1>3
=============================================================================
