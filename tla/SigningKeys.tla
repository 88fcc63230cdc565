---------------------------- MODULE SigningKeys ----------------------------
(***************************************************************************)
(* The signing keys during a rotation: the directory rotate_jwt_keys writes  *)
(* and every worker reads, the ring each worker caches, the JWKS document    *)
(* the edge caches, and the key that JWT_ACTIVE_KEY_ID pins.                 *)
(***************************************************************************)
EXTENDS Integers

CONSTANTS
    Workers,      \* server processes
    Kids,
    Operators,    \* runs of rotate_jwt_keys; a key pair is named after its run
    NoOne,        \* a file that is not there
    Unset,        \* JWT_ACTIVE_KEY_ID is empty
    Ttl,          \* _CACHE_TTL of a ring
    MaxAge,       \* Cache-Control of the JWKS document
    Lifetime,     \* REFRESH_ABSOLUTE_LIFETIME, the longest a token lives
    Propagation,  \* how long a key is staged before it is promoted
    ValidDays,    \* --valid-days that are tried
    MaxNow        \* where the clock of the model stops

ASSUME KeysAssumption ==
    /\ {Ttl, MaxAge, Lifetime, Propagation, MaxNow} \subseteq Nat /\ ValidDays \subseteq Nat
    /\ Propagation > Ttl + MaxAge
    /\ NoOne \notin Operators /\ Unset \notin Kids

VARIABLES
    now,          \* the clock
    files,        \* the three files of each kid
    run,          \* where each run of rotate_jwt_keys is
    pin,          \* JWT_ACTIVE_KEY_ID of the deployment: what a process starts with
    proc,         \* the setting and the ring each worker holds
    jwks,         \* the document at the edge
    circulating   \* when the last token signed with a kid expires

vars == <<now, files, run, pin, proc, jwks, circulating>>

Writers == Operators \union {NoOne}
Files == [private : Writers, public : Writers, metadata : {"absent", "torn", "whole", "retired"},
          notBefore : Nat, notAfter : Nat, since : Nat]
NoFiles == [private |-> NoOne, public |-> NoOne, metadata |-> "absent",
            notBefore |-> 0, notAfter |-> 0, since |-> 0]

Runs == [stage : {"idle", "ready", "private", "public", "torn"}, kid : Kids \union {Unset},
         notBefore : Nat, notAfter : Nat]
IdleRun == [stage |-> "idle", kid |-> Unset, notBefore |-> 0, notAfter |-> 0]

Processes == [pin : Kids \union {Unset}, ring : SUBSET Kids, active : Kids \union {Unset},
              loaded : Nat]
\* Worker w answers with the ring it has.
Fresh(w) == proc[w].ring # {} /\ now - proc[w].loaded <= Ttl
Served == jwks.keys # {} /\ now - jwks.at <= MaxAge

\* Some token signed with k is still accepted; the leeway is less than a unit of time.
Live(k) == now <= circulating[k]

-----------------------------------------------------------------------------
(***************************************************************************)
(* rotate_jwt_keys: private key, public key and, last, the metadata.       *)
(***************************************************************************)

\* Mutant: the overlap forgets the tokens it is for.
OverlapOfADay == 1

RequiredOverlap == Lifetime + 1

\* The setting is pinned everywhere first, as the command tells its operator.
Prepare(o, k, valid) ==
    /\ run[o].stage = "idle"
    /\ pin # Unset /\ \A w \in Workers : proc[w].pin # Unset
    /\ valid > Lifetime
    /\ files[k] = NoFiles                                        \* assert_absent
    /\ run' = [run EXCEPT ![o] = [stage |-> "ready", kid |-> k,
                                  notBefore |-> now, notAfter |-> now + valid]]
    /\ UNCHANGED <<now, files, pin, proc, jwks, circulating>>

\* Mutant: opened without O_EXCL.
WritePrivateOver(o) ==
    LET k == run[o].kid
    IN  /\ run[o].stage = "ready"
        /\ files' = [files EXCEPT ![k].private = o]
        /\ run' = [run EXCEPT ![o].stage = "private"]
        /\ UNCHANGED <<now, pin, proc, jwks, circulating>>

\* O_EXCL: of two runs of one kid the later one dies here.
WritePrivate(o) ==
    LET k == run[o].kid
    IN  /\ run[o].stage = "ready"
        /\ \/ /\ files[k].private = NoOne
              /\ files' = [files EXCEPT ![k].private = o]
              /\ run' = [run EXCEPT ![o].stage = "private"]
           \/ /\ files[k].private # NoOne
              /\ run' = [run EXCEPT ![o] = IdleRun]
              /\ UNCHANGED files
        /\ UNCHANGED <<now, pin, proc, jwks, circulating>>

WritePublic(o) ==
    LET k == run[o].kid
    IN  /\ run[o].stage = "private"
        /\ files' = [files EXCEPT ![k].public = o]
        /\ run' = [run EXCEPT ![o].stage = "public"]
        /\ UNCHANGED <<now, pin, proc, jwks, circulating>>

\* write_bytes truncates before it writes.
OpenMetadata(o) ==
    LET k == run[o].kid
    IN  /\ run[o].stage = "public"
        /\ files' = [files EXCEPT ![k].metadata = "torn"]
        /\ run' = [run EXCEPT ![o].stage = "torn"]
        /\ UNCHANGED <<now, pin, proc, jwks, circulating>>

WriteMetadata(o) ==
    LET k == run[o].kid
    IN  /\ run[o].stage = "torn"
        /\ files' = [files EXCEPT ![k] = [@ EXCEPT !.metadata = "whole", !.since = now,
                                !.notBefore = run[o].notBefore, !.notAfter = run[o].notAfter]]
        /\ run' = [run EXCEPT ![o] = IdleRun]
        /\ UNCHANGED <<now, pin, proc, jwks, circulating>>

\* The run is killed; its files stay.
Abort(o) ==
    /\ run[o].stage # "idle"
    /\ run' = [run EXCEPT ![o] = IdleRun]
    /\ UNCHANGED <<now, files, pin, proc, jwks, circulating>>

-----------------------------------------------------------------------------
(***************************************************************************)
(* The operator, by the dates and instructions the command prints.         *)
(***************************************************************************)
Promote(k) ==
    /\ files[k].metadata = "whole" /\ pin # k
    /\ now >= files[k].since + Propagation
    /\ pin' = k
    /\ UNCHANGED <<now, files, run, proc, jwks, circulating>>

\* Nobody signs with k any more and nobody did after its "promote by" date.
Retire(k) ==
    /\ files[k].metadata = "whole" /\ pin # k
    /\ \A w \in Workers : k \notin {proc[w].pin, proc[w].active}
    /\ circulating[k] - Lifetime <= files[k].notAfter - RequiredOverlap
    /\ now >= files[k].notAfter
    /\ files' = [files EXCEPT ![k].metadata = "retired"]
    /\ UNCHANGED <<now, run, pin, proc, jwks, circulating>>

-----------------------------------------------------------------------------
(***************************************************************************)
(* Keyring and the tokens.                                                 *)
(***************************************************************************)
Whole == {k \in Kids : files[k].metadata = "whole"}

\* Mutant: only what may sign is trusted.
TrustedSignable == {k \in Whole : files[k].notBefore <= now /\ now < files[k].notAfter}

\* Mutant: the directory is read by its public keys.
TrustedByPublicKey == {k \in Kids : files[k].public # NoOne}

\* _read_from_store: every key whose metadata is there, whatever its window.
Trusted == Whole

Newest ==
    LET signable == {k \in Trusted : files[k].notBefore <= now /\ now < files[k].notAfter}
    IN  {k \in signable : \A j \in signable : files[j].notBefore <= files[k].notBefore}

\* The key that signs, nothing when the load raises.
Active(p) == IF p # Unset THEN {p} \intersect Trusted ELSE Newest

\* Keyring.load when the ring is not there or too old; a torn file raises.
Reload(w) ==
    /\ ~Fresh(w)
    /\ \A k \in Kids : files[k].metadata # "torn"
    /\ \E a \in Active(proc[w].pin) :
          proc' = [proc EXCEPT ![w] = [@ EXCEPT !.ring = Trusted, !.active = a, !.loaded = now]]
    /\ UNCHANGED <<now, files, run, pin, jwks, circulating>>

\* The settings are read when the process starts, and only then.
Restart(w) ==
    /\ proc' = [proc EXCEPT ![w] = [pin |-> pin, ring |-> {}, active |-> Unset, loaded |-> 0]]
    /\ UNCHANGED <<now, files, run, pin, jwks, circulating>>

Sign(w) ==
    /\ Fresh(w)
    /\ circulating' = [circulating EXCEPT ![proc[w].active] = now + Lifetime]
    /\ UNCHANGED <<now, files, run, pin, proc, jwks>>

\* The edge asks some worker for the document it may serve for MaxAge.
Fetch(w) ==
    /\ Fresh(w) /\ ~Served
    /\ jwks' = [keys |-> proc[w].ring, at |-> now]
    /\ UNCHANGED <<now, files, run, pin, proc, circulating>>

Tick ==
    /\ now < MaxNow
    /\ now' = now + 1
    /\ UNCHANGED <<files, run, pin, proc, jwks, circulating>>

\* One key, staged long ago, whether it is pinned yet or not.
Init ==
    /\ now = Propagation
    /\ \E k \in Kids, o \in Operators, valid \in ValidDays :
          /\ valid > Lifetime
          /\ files = [j \in Kids |-> IF j # k THEN NoFiles
                        ELSE [private |-> o, public |-> o, metadata |-> "whole",
                              notBefore |-> 0, notAfter |-> valid, since |-> 0]]
          /\ pin \in {k, Unset}
    /\ run = [o \in Operators |-> IdleRun]
    /\ proc = [w \in Workers |-> [pin |-> pin, ring |-> {}, active |-> Unset, loaded |-> 0]]
    /\ jwks = [keys |-> {}, at |-> 0]
    /\ circulating = [k \in Kids |-> 0]

Next ==
    \/ \E o \in Operators :
          \/ \E k \in Kids, valid \in ValidDays : Prepare(o, k, valid)
          \/ WritePrivate(o) \/ WritePublic(o) \/ OpenMetadata(o) \/ WriteMetadata(o) \/ Abort(o)
    \/ \E k \in Kids : Promote(k) \/ Retire(k)
    \/ \E w \in Workers : Reload(w) \/ Restart(w) \/ Sign(w) \/ Fetch(w)
    \/ Tick

Spec == Init /\ [][Next]_vars

-----------------------------------------------------------------------------

\* The clock, the files, the runs and the rings have the values they can have, and a
\* ring that was read holds the key it signs with.
TypeOK ==
    /\ now \in Nat /\ files \in [Kids -> Files] /\ run \in [Operators -> Runs]
    /\ pin \in Kids \union {Unset}
    /\ proc \in [Workers -> Processes]
    /\ \A w \in Workers : proc[w].ring # {} => proc[w].active \in proc[w].ring
    /\ jwks \in [keys : SUBSET Kids, at : Nat]
    /\ circulating \in [Kids -> Nat]

\* "A key must be visible to every verifier before anything signs with it", and stays so:
\* while a token of a key circulates the key is in the directory, in the ring of every
\* worker that does not have to read it again, and in the document at the edge.
CirculatingVerifies ==
    \A k \in Kids : Live(k) =>
        /\ files[k].metadata = "whole"
        /\ \A w \in Workers : Fresh(w) => k \in proc[w].ring
        /\ Served => k \in jwks.keys

\* The two halves of a key that a ring may read were generated together, whatever runs
\* of the command overlapped on its kid.
PairsMatch ==
    \A k \in Kids : files[k].metadata # "absent" =>
        files[k].private = files[k].public /\ files[k].private \in Operators

\* A key whose command died, or is still between two files, is in no ring and not in the
\* document at the edge; what has got there is written to the end, dates included.
HalfWrittenKeysStayOut ==
    \A k \in Kids : k \in jwks.keys \/ (\E w \in Workers : k \in proc[w].ring) =>
        files[k].metadata \in {"whole", "retired"}

-----------------------------------------------------------------------------
(***************************************************************************)
(* The inductive invariant.                                                *)
(***************************************************************************)

\* The public key is of the run that created the private one, and the metadata is last.
Directory ==
    /\ \A k \in Kids :
          /\ files[k].public \in {files[k].private, NoOne}
          /\ files[k].metadata # "absent" => files[k].public \in Operators
          /\ files[k].since <= now
    /\ \A o \in Operators :
          LET f == files[run[o].kid]
          IN  /\ run[o].stage # "idle" => run[o].kid \in Kids
              /\ run[o].stage \in {"private", "public", "torn"} => f.private = o
              /\ run[o].stage \in {"public", "torn"} => f.public = o
              /\ run[o].stage = "private" => f.public = NoOne
              /\ run[o].stage \in {"private", "public"} => f.metadata = "absent"
              /\ run[o].stage = "torn" => f.metadata = "torn"

\* A key that every verifier has had the time to learn.
Established(k) == files[k].metadata = "whole" /\ now >= files[k].since + Propagation

\* Whatever signs, or is told to, is established; nothing is staged before all are told.
Settings ==
    /\ pin # Unset => Established(pin)
    /\ \A w \in Workers : {proc[w].pin, proc[w].active} \subseteq
                             {k \in Kids : Established(k)} \union {Unset}
    /\ pin = Unset \/ (\E w \in Workers : proc[w].pin = Unset) =>
          /\ \A o \in Operators : run[o] = IdleRun
          /\ \A k \in Kids : files[k].metadata = "whole" => Established(k)
    /\ \A k \in Kids : Live(k) => Established(k)

\* What a cached ring, and the document taken from one, cannot be missing.
Caches ==
    /\ \A w \in Workers : proc[w].ring # {} =>
          /\ proc[w].loaded <= now
          /\ \A k \in Whole : files[k].since < proc[w].loaded => k \in proc[w].ring
    /\ jwks.keys # {} =>
          /\ jwks.at <= now
          /\ \A k \in Whole : files[k].since + Ttl < jwks.at => k \in jwks.keys

KInv == TypeOK /\ Directory /\ Settings /\ Caches
=============================================================================
