----------------------- MODULE TenantCatalogueProofs -----------------------
(***************************************************************************)
(* Proofs about TenantCatalogue: its inductive invariant, that rows and      *)
(* schemas agree, that tokens die with their tenant, that overlapping saves  *)
(* alone make two primary domains and that schemas are dropped by who owns   *)
(* them.                                                                   *)
(***************************************************************************)
EXTENDS TenantCatalogue, TLAPS

LEMMA RowIsListed ==
    ASSUME NEW s \in Schemas, NEW active \in BOOLEAN
    PROVE  [schema |-> s, active |-> active] # NoTenant
<1>1. \A x \in [schema : Schemas, active : BOOLEAN] : x # NoTenant
  BY CatalogueAssumption
<1>2. [schema |-> s, active |-> active] \in [schema : Schemas, active : BOOLEAN]
  OBVIOUS
<1> QED BY <1>1, <1>2, Zenon

LEMMA IdleIsOperation == Idle \in Operation
  BY DEF Idle, Operation, Stages

LEMMA InitCInv == Init => CInv
<1> SUFFICES ASSUME Init PROVE CInv
  OBVIOUS
<1> USE CatalogueAssumption
<1>1. TypeOK
  BY IdleIsOperation DEF Init, TypeOK
<1>2. \A o \in Operators : op[o] = Idle
  BY DEF Init
<1>3. \A o \in Operators : Holds(o)
  BY <1>2 DEF Holds, At, Pk, Name, Idle
<1>4. HoldTheSame
  BY <1>2 DEF HoldTheSame, Pk, Idle
<1>5. RowsFit
  BY DEF Init, RowsFit, Listed
<1>6. SavesFit
  BY <1>2 DEF Init, SavesFit, SavesOf, Primaries, HostsOf, At, Idle
<1>7. SchemasFit
  BY DEF Init, SchemasFit, SchemaFits, Owned, Owns, Listed
<1>8. RequestsFit
  BY DEF Init, RequestsFit, NoRequest
<1> QED BY <1>1, <1>3, <1>4, <1>5, <1>6, <1>7, <1>8 DEF CInv

LEMMA GotoTypes ==
    ASSUME op \in [Operators -> Operation], NEW o \in Operators, NEW stage \in Stages, Goto(o, stage)
    PROVE  op' \in [Operators -> Operation]
  BY DEF Goto, Operation

LEMMA FinishTypes ==
    ASSUME op \in [Operators -> Operation], NEW o \in Operators, Finish(o)
    PROVE  op' \in [Operators -> Operation]
  BY IdleIsOperation DEF Finish

\* Every step leaves the tables, operators and requests with values of their types.
LEMMA TypeStep == TypeOK /\ (\A o \in Operators : Holds(o)) /\ [Next]_vars => TypeOK'
<1> SUFFICES ASSUME TypeOK, \A o \in Operators : Holds(o), [Next]_vars PROVE TypeOK'
  OBVIOUS
<1> USE CatalogueAssumption DEF TypeOK, rows, requests, history
<1>1. ASSUME NEW o \in Operators, Begin(o) PROVE TypeOK'
  <2> DEFINE Operated == \E x \in Operation : op' = [op EXCEPT ![o] = x]
  <2>1. ASSUME NEW s \in Schemas, NEW h \in Hosts, BeginCreate(o, s, h) PROVE TypeOK'
    <3>1. Operated
      BY <2>1, IdleIsOperation DEF BeginCreate, Start, Operation, Stages, Idle
    <3> QED BY <2>1, <3>1 DEF BeginCreate
  <2>2. ASSUME NEW p \in Pks, NEW drop \in BOOLEAN, BeginDelete(o, p, drop) PROVE TypeOK'
    <3>1. tenant[p].schema \in Schemas
      BY <2>2 DEF BeginDelete, Listed, Rows
    <3>2. Operated
      BY <2>2, <3>1, IdleIsOperation DEF BeginDelete, Start, Operation, Stages, Idle
    <3> QED BY <2>2, <3>2 DEF BeginDelete
  <2>3. ASSUME NEW p \in Pks, NEW h \in Hosts, NEW primary \in BOOLEAN, BeginSave(o, p, h, primary)
        PROVE TypeOK'
    <3>1. tenant[p].schema \in Schemas
      BY <2>3 DEF BeginSave, Listed, Rows
    <3>2. Operated
      BY <2>3, <3>1, IdleIsOperation DEF BeginSave, Start, Operation, Stages, Idle
    <3> QED BY <2>3, <3>2 DEF BeginSave
  <2>4. ASSUME NEW p \in Pks, BeginEdit(o, p) PROVE TypeOK'
    <3>1. tenant[p].schema \in Schemas
      BY <2>4 DEF BeginEdit, Listed, Rows
    <3>2. Operated
      BY <2>4, <3>1, IdleIsOperation DEF BeginEdit, Start, Operation, Stages, Idle
    <3> QED BY <2>4, <3>2 DEF BeginEdit
  <2> QED BY <1>1, <2>1, <2>2, <2>3, <2>4 DEF Begin
<1>2. ASSUME NEW o \in Operators, Continue(o) PROVE TypeOK'
  <2> USE DEF At, Name, Pk, Disturb
  <2>0. op[o] \in Operation /\ Holds(o)
    OBVIOUS
  <2>1. CASE InsertTenant(o)
    <3>1. Name(o) \in Schemas
      BY <2>0, <2>1 DEF InsertTenant, Holds
    <3>2. CASE Owned(Name(o))
      BY <2>1, <3>2, FinishTypes DEF InsertTenant
    <3>3. CASE ~Owned(Name(o))
      <4>1. PICK p \in Pks \ used :
              /\ used' = used \union {p}
              /\ tenant' = [tenant EXCEPT ![p] = [schema |-> Name(o), active |-> TRUE]]
              /\ op' = [op EXCEPT ![o].at = "inserted", ![o].pk = p]
        BY <2>1, <3>3 DEF InsertTenant
      <4>2. op' \in [Operators -> Operation]
        BY <2>0, <4>1 DEF Operation, Stages
      <4> QED BY <2>1, <3>1, <4>1, <4>2, <3>3 DEF InsertTenant, Rows
    <3> QED BY <3>2, <3>3
  <2>2. CASE CreateSchema(o)
    <3>1. Name(o) \in Schemas
      BY <2>0, <2>2 DEF CreateSchema, Holds
    <3>2. op' \in [Operators -> Operation]
      BY <2>2, GotoTypes DEF CreateSchema, Stages
    <3> QED BY <2>2, <3>1, <3>2 DEF CreateSchema
  <2>3. CASE Migrate(o)
    <3>1. Name(o) \in Schemas
      BY <2>0, <2>3 DEF Migrate, Holds
    <3>2. op' \in [Operators -> Operation]
      BY <2>3, GotoTypes DEF Migrate, Stages
    <3> QED BY <2>3, <3>1, <3>2 DEF Migrate
  <2>4. CASE MigrateFails(o)
    BY <2>4, GotoTypes DEF MigrateFails, Stages
  <2>5. CASE UndoSchema(o)
    <3>1. Name(o) \in Schemas
      BY <2>0, <2>5 DEF UndoSchema, Holds
    <3>2. op' \in [Operators -> Operation]
      BY <2>5, GotoTypes DEF UndoSchema, Stages
    <3> QED BY <2>5, <3>1, <3>2 DEF UndoSchema
  <2>6. CASE Confirm(o)
    BY <2>6, GotoTypes DEF Confirm, Stages
  <2>7. CASE DropSchema(o)
    <3>1. Name(o) \in Schemas
      BY <2>0, <2>7 DEF DropSchema, Holds
    <3>2. op' \in [Operators -> Operation]
      BY <2>7, GotoTypes DEF DropSchema, Stages
    <3> QED BY <2>7, <3>1, <3>2 DEF DropSchema
  <2>8. CASE DeleteDomains(o)
    <3>1. op' \in [Operators -> Operation]
      BY <2>0, <2>8 DEF DeleteDomains, HostsOf, Operation, Stages
    <3> QED BY <2>8, <3>1 DEF DeleteDomains
  <2>9. CASE DeleteTenant(o)
    <3>1. Name(o) \in Schemas /\ Pk(o) \in Pks
      BY <2>0, <2>9 DEF DeleteTenant, Holds
    <3>2. op' \in [Operators -> Operation]
      BY <2>9, FinishTypes DEF DeleteTenant
    <3> QED BY <2>9, <3>1, <3>2 DEF DeleteTenant
  <2>10. CASE Demote(o)
    <3>2. op' \in [Operators -> Operation]
      BY <2>0, <2>10 DEF Demote, Primaries, HostsOf, Operation, Stages
    <3>3. Pk(o) \in Pks
      BY <2>0, <2>10 DEF Demote, Holds
    <3> QED BY <2>10, <3>2, <3>3 DEF Demote
  <2>11. CASE SaveDomain(o)
    <3>1. Pk(o) \in Pks
      BY <2>0, <2>11 DEF SaveDomain, Holds
    <3>2. op' \in [Operators -> Operation]
      BY <2>11, FinishTypes DEF SaveDomain
    <3>3. domain' \in [Hosts -> Domains \union {NoDomain}]
      <4>1. [pk |-> Pk(o), primary |-> op[o].primary] \in Domains
        BY <2>0, <3>1 DEF Domains, Operation
      <4>2. \A h \in HostsOf(Pk(o)) : [domain[h] EXCEPT !.primary = FALSE] \in Domains
        BY DEF HostsOf, Domains
      <4> QED BY <2>11, <4>1, <4>2 DEF SaveDomain
    <3> QED BY <2>11, <3>2, <3>3 DEF SaveDomain
  <2>12. CASE SaveTenant(o)
    <3>1. Name(o) \in Schemas /\ Pk(o) \in Pks
      BY <2>0, <2>12 DEF SaveTenant, Holds
    <3>2. op' \in [Operators -> Operation]
      BY <2>12, FinishTypes DEF SaveTenant
    <3>3. \A active \in BOOLEAN : [schema |-> Name(o), active |-> active] \in Rows
      BY <3>1 DEF Rows
    <3>4. tenant' \in [Pks -> Rows \union {NoTenant}] /\ deleted' \subseteq Pks
      BY <2>12, <3>1, <3>3 DEF SaveTenant
    <3> QED BY <2>12, <3>1, <3>2, <3>4 DEF SaveTenant
  <2> QED BY <1>2, <2>1, <2>2, <2>3, <2>4, <2>5, <2>6, <2>7, <2>8, <2>9, <2>10, <2>11, <2>12
      DEF Continue
<1>3. ASSUME NEW o \in Operators, Die(o) PROVE TypeOK'
  <2>1. Name(o) \in Schemas
    BY <1>3 DEF Die, Holds
  <2>2. op' \in [Operators -> Operation]
    BY <1>3, FinishTypes DEF Die
  <2> QED BY <1>3, <2>1, <2>2 DEF Die, Disturb
<1>4. ASSUME NEW s \in Schemas, NEW h \in Hosts, AddTenant(s, h) PROVE TypeOK'
  BY <1>4 DEF AddTenant, Rows, Domains
<1>5. ASSUME NEW h \in Hosts, RemoveDomain(h) PROVE TypeOK'
  BY <1>5 DEF RemoveDomain
<1>6. ASSUME NEW r \in Requests, Serve(r) PROVE TypeOK'
  <2>0. req[r] \in Request \union {NoRequest}
    OBVIOUS
  <2>1. ASSUME NEW h \in Hosts, Arrive(r, h) PROVE TypeOK'
    <3>1. Resolve(h) \in Pks /\ tenant[Resolve(h)].schema \in Schemas
      BY <2>1 DEF Arrive, Routed, Resolve, Listed, Domains, Rows
    <3>2. req' \in [Requests -> Request \union {NoRequest}]
      BY <2>1, <3>1 DEF Arrive, Request
    <3> QED BY <2>1, <3>2 DEF Arrive
  <2>2. ASSUME NEW t \in tokens, Present(r, t) PROVE TypeOK'
    <3>1. req[r] \in Request
      BY <2>0, <2>2 DEF Present, NoRequest
    <3>2. req' \in [Requests -> Request \union {NoRequest}]
      BY <2>2, <3>1 DEF Present, Request
    <3> QED BY <2>2, <3>2 DEF Present
  <2>3. CASE Login(r)
    <3>1. req[r] \in Request
      BY <2>0, <2>3 DEF Login, NoRequest
    <3> QED BY <2>3, <3>1 DEF Login, Request, Tokens
  <2>4. CASE Answer(r)
    BY <2>4 DEF Answer
  <2> QED BY <1>6, <2>1, <2>2, <2>3, <2>4 DEF Serve
<1>7. CASE UNCHANGED vars
  BY <1>7 DEF vars
<1> QED BY <1>1, <1>2, <1>3, <1>4, <1>5, <1>6, <1>7 DEF Next

\* Operators hold on to what they hold while they continue or finish.
Hosting == {"checked", "inserted", "migrating", "save", "insert"}
Continues(q) ==
    \/ op'[q] = Idle
    \/ /\ Pk(q)' = Pk(q) /\ Name(q)' = Name(q) /\ op'[q].host = op[q].host
       /\ At(q) # "idle"
       /\ At(q)' \notin {"idle", "checked"} => At(q) \notin {"idle", "checked"}
       /\ At(q)' \in Hosting => At(q) \in Hosting
    \/ op'[q] = op[q]

LEMMA HoldsKept ==
    ASSUME TypeOK, \A q \in Operators : Holds(q), HoldTheSame,
           \A q \in Operators : Continues(q),
           used \subseteq used',
           \A p \in used : Listed(p)' =>
              \/ Listed(p) /\ tenant'[p].schema = tenant[p].schema
              \/ \E o \in Operators : Pk(o) = p /\ tenant'[p].schema = Name(o)
    PROVE  (\A q \in Operators : Holds(q)') /\ HoldTheSame'
<1> USE CatalogueAssumption
<1>1. \A q \in Operators : op'[q] = Idle =>
         At(q)' = "idle" /\ Pk(q)' = NoPk /\ Pk(q)' \notin Pks
  BY DEF At, Pk, Idle
<1>2. ASSUME NEW q \in Operators PROVE Holds(q)'
  <2>0. Holds(q) /\ Continues(q)
    OBVIOUS
  <2>1. CASE op'[q] = Idle
    BY <2>1, <1>1 DEF Holds
  <2>2. CASE op'[q] # Idle
    <3>1. /\ Pk(q)' = Pk(q) /\ Name(q)' = Name(q) /\ op'[q].host = op[q].host
          /\ At(q)' # "idle" => At(q) # "idle"
          /\ At(q)' \notin {"idle", "checked"} => At(q) \notin {"idle", "checked"}
          /\ At(q)' \in Hosting => At(q) \in Hosting
      BY <2>0, <2>2 DEF Continues, At, Pk, Name
    <3>2. Pk(q)' \in Pks /\ Listed(Pk(q))' => tenant'[Pk(q)'].schema = Name(q)'
      <4> SUFFICES ASSUME Pk(q) \in Pks, Listed(Pk(q))' PROVE tenant'[Pk(q)].schema = Name(q)
        BY <3>1
      <4>1. Pk(q) \in used
        BY <2>0 DEF Holds
      <4>1a. Listed(Pk(q))' <=> tenant'[Pk(q)] # NoTenant
        BY <3>1 DEF Listed
      <4>2. CASE Listed(Pk(q)) /\ tenant'[Pk(q)].schema = tenant[Pk(q)].schema
        BY <2>0, <4>2 DEF Holds
      <4>3. CASE \E o \in Operators : Pk(o) = Pk(q) /\ tenant'[Pk(q)].schema = Name(o)
        BY <4>3 DEF HoldTheSame
      <4> QED BY <3>1, <4>1, <4>1a, <4>2, <4>3 DEF Listed
    <3> QED BY <2>0, <3>1, <3>2 DEF Holds, Hosting
  <2> QED BY <2>1, <2>2
<1>3. HoldTheSame'
  <2> SUFFICES ASSUME NEW o \in Operators, NEW q \in Operators,
                      Pk(o)' \in Pks, Pk(o)' = Pk(q)'
               PROVE  Name(o)' = Name(q)'
    BY DEF HoldTheSame
  <2>1. /\ Pk(o)' = Pk(o) /\ Name(o)' = Name(o)
        /\ Pk(q)' = Pk(q) /\ Name(q)' = Name(q)
    BY <1>1 DEF Continues, Pk, Name
  <2> QED BY <2>1 DEF HoldTheSame
<1> QED BY <1>2, <1>3

LEMMA OperatorContinues ==
    ASSUME TypeOK, NEW o \in Operators, (Continue(o) /\ ~InsertTenant(o)) \/ Die(o)
    PROVE  \A q \in Operators : Continues(q)
<1> SUFFICES ASSUME NEW q \in Operators PROVE Continues(q)
  OBVIOUS
<1> USE DEF TypeOK, Continues, Hosting, At, Pk, Name
<1>0. op[q] \in Operation
  OBVIOUS
<1>1. ASSUME Finish(o) PROVE Continues(q)
  BY <1>1 DEF Finish
<1>2. ASSUME NEW stage \in Stages, Goto(o, stage), At(o) # "idle",
             stage \notin {"idle", "checked"} => At(o) \notin {"idle", "checked"},
             stage \in Hosting => At(o) \in Hosting
      PROVE  Continues(q)
  BY <1>0, <1>2 DEF Goto, Operation
<1>3. CASE CreateSchema(o)
  BY <1>3, <1>2 DEF CreateSchema, Stages
<1>4. CASE Migrate(o)
  BY <1>4, <1>2 DEF Migrate, Stages
<1>5. CASE MigrateFails(o)
  BY <1>5, <1>2 DEF MigrateFails, Stages
<1>6. CASE UndoSchema(o)
  BY <1>6, <1>2 DEF UndoSchema, Stages
<1>7. CASE Confirm(o)
  BY <1>7, <1>2 DEF Confirm, Stages
<1>8. CASE DropSchema(o)
  BY <1>8, <1>2 DEF DropSchema, Stages
<1>9. CASE DeleteDomains(o)
  BY <1>9, <1>0 DEF DeleteDomains, Operation
<1>10. CASE Demote(o)
  BY <1>10, <1>0 DEF Demote, Operation
<1>11. CASE DeleteTenant(o) \/ SaveDomain(o) \/ SaveTenant(o) \/ Die(o)
  BY <1>11, <1>1 DEF DeleteTenant, SaveDomain, SaveTenant, Die
<1> QED BY <1>3, <1>4, <1>5, <1>6, <1>7, <1>8, <1>9, <1>10, <1>11 DEF Continue

\* An operator begins with a tenant it has just read, or with a new name.
Begun(o) ==
    /\ UNCHANGED rows
    /\ \A q \in Operators \ {o} : op'[q] = op[q]
    /\ op'[o].at \in {"checked", "prompt", "save", "form"}
    /\ op'[o].schema \in Schemas
    /\ op'[o].at \in {"checked", "save"} => op'[o].host \in Hosts
    /\ \/ op'[o].at = "checked" /\ op'[o].pk = NoPk
       \/ /\ op'[o].pk \in Pks /\ Listed(op'[o].pk)
          /\ op'[o].schema = tenant[op'[o].pk].schema

LEMMA BeginBegins ==
    ASSUME TypeOK, NEW o \in Operators, Begin(o)
    PROVE  Begun(o) /\ At(o) = "idle" /\ UNCHANGED <<schema, deleted, kept, disturbed, raced>>
<1> DEFINE Goal == Begun(o) /\ At(o) = "idle" /\ UNCHANGED <<schema, deleted, kept, disturbed, raced>>
<1> USE DEF rows, requests, history
<1>1. ASSUME NEW x, Start(o, x)
      PROVE  At(o) = "idle" /\ op'[o] = x /\ \A q \in Operators \ {o} : op'[q] = op[q]
  BY <1>1 DEF Start, TypeOK
<1>2. \A p \in Pks : Listed(p) => tenant[p].schema \in Schemas
  BY DEF TypeOK, Listed, Rows
<1>3. ASSUME NEW s \in Schemas, NEW h \in Hosts, BeginCreate(o, s, h) PROVE Goal
  <2> DEFINE x == [Idle EXCEPT !.at = "checked", !.schema = s, !.host = h,
                               !.primary = TRUE, !.new = TRUE]
  <2>1. x.at = "checked" /\ x.schema = s /\ x.host = h /\ x.pk = NoPk
    BY DEF Idle
  <2>2. Start(o, x)
    BY <1>3 DEF BeginCreate
  <2> HIDE DEF x
  <2> QED BY <1>3, <1>1, <2>1, <2>2 DEF BeginCreate, Begun
<1>4. ASSUME NEW p \in Pks, NEW drop \in BOOLEAN, BeginDelete(o, p, drop) PROVE Goal
  <2> DEFINE x == [Idle EXCEPT !.at = "prompt", !.pk = p, !.drop = drop,
                               !.schema = tenant[p].schema]
  <2>1. x.at = "prompt" /\ x.schema = tenant[p].schema /\ x.pk = p
    BY DEF Idle
  <2>2. Start(o, x)
    BY <1>4 DEF BeginDelete
  <2> HIDE DEF x
  <2> QED BY <1>4, <1>1, <1>2, <2>1, <2>2 DEF BeginDelete, Begun
<1>5. ASSUME NEW p \in Pks, NEW h \in Hosts, NEW primary \in BOOLEAN, BeginSave(o, p, h, primary)
      PROVE  Goal
  <2> DEFINE x == [Idle EXCEPT !.at = "save", !.pk = p, !.schema = tenant[p].schema,
                               !.host = h, !.primary = primary,
                               !.new = domain[h] = NoDomain]
  <2>1. x.at = "save" /\ x.schema = tenant[p].schema /\ x.pk = p /\ x.host = h
    BY DEF Idle
  <2>2. Start(o, x)
    BY <1>5 DEF BeginSave
  <2> HIDE DEF x
  <2> QED BY <1>5, <1>1, <1>2, <2>1, <2>2 DEF BeginSave, Begun
<1>6. ASSUME NEW p \in Pks, BeginEdit(o, p) PROVE Goal
  <2> DEFINE x == [Idle EXCEPT !.at = "form", !.pk = p, !.schema = tenant[p].schema]
  <2>1. x.at = "form" /\ x.schema = tenant[p].schema /\ x.pk = p
    BY DEF Idle
  <2>2. Start(o, x)
    BY <1>6 DEF BeginEdit
  <2> HIDE DEF x
  <2> QED BY <1>6, <1>1, <1>2, <2>1, <2>2 DEF BeginEdit, Begun
<1> QED BY <1>3, <1>4, <1>5, <1>6 DEF Begin

\* What operators hold survives every step.
LEMMA HoldStep ==
    ASSUME TypeOK, \A o \in Operators : Holds(o), HoldTheSame, RowsFit, [Next]_vars
    PROVE  (\A o \in Operators : Holds(o)') /\ HoldTheSame'
<1> DEFINE Held == (\A o \in Operators : Holds(o)') /\ HoldTheSame'
<1> SUFFICES Held
  OBVIOUS
<1> USE CatalogueAssumption DEF rows, requests, history
<1>0. ASSUME \A q \in Operators : Continues(q), used \subseteq used',
             \A p \in used : Listed(p)' =>
              \/ Listed(p) /\ tenant'[p].schema = tenant[p].schema
              \/ \E o \in Operators : Pk(o) = p /\ tenant'[p].schema = Name(o)
      PROVE  Held
  BY <1>0, HoldsKept
<1>1. ASSUME NEW o \in Operators, Begin(o) PROVE Held
  <2>1. Begun(o)
    BY <1>1, BeginBegins
  <2>2. \A q \in Operators \ {o} : At(q)' = At(q) /\ Pk(q)' = Pk(q) /\ Name(q)' = Name(q)
    BY <2>1 DEF Begun, At, Pk, Name
  <2>3. \A p \in Pks : (Listed(p)' <=> Listed(p)) /\ tenant'[p] = tenant[p] /\ used' = used
    BY <2>1 DEF Begun, Listed
  <2>4. \A q \in Operators \ {o} : Holds(q)'
    BY <2>1, <2>2, <2>3 DEF Holds, Begun
  <2>5. Holds(o)'
    BY <2>1, <2>3 DEF Begun, Holds, At, Pk, Name, RowsFit
  <2>6. ASSUME NEW q \in Operators \ {o}, Pk(o)' \in Pks, Pk(o)' = Pk(q)'
        PROVE  Name(q)' = Name(o)'
    BY <2>1, <2>2, <2>3, <2>5, <2>6 DEF Begun, Holds, Pk, Name
  <2>7. HoldTheSame'
    BY <2>2, <2>6 DEF HoldTheSame
  <2> QED BY <2>4, <2>5, <2>7
<1>2. ASSUME NEW o \in Operators, InsertTenant(o) PROVE Held
  <2>1. CASE Owned(Name(o))
    <3>1. \A q \in Operators : Continues(q)
      BY <1>2, <2>1 DEF InsertTenant, Finish, Continues, TypeOK
    <3> QED BY <1>0, <1>2, <2>1, <3>1 DEF InsertTenant, Listed
  <2>2. CASE ~Owned(Name(o))
    <3>1. PICK p \in Pks \ used :
              /\ used' = used \union {p}
              /\ tenant' = [tenant EXCEPT ![p] = [schema |-> Name(o), active |-> TRUE]]
              /\ op' = [op EXCEPT ![o].at = "inserted", ![o].pk = p]
      BY <1>2, <2>2 DEF InsertTenant
    <3>2. op[o] \in Operation /\ op[o].at = "checked"
      BY <1>2 DEF InsertTenant, TypeOK, At
    <3>3. /\ At(o)' = "inserted" /\ Pk(o)' = p /\ Name(o)' = Name(o)
          /\ op'[o].host = op[o].host
          /\ \A q \in Operators \ {o} : op'[q] = op[q]
      BY <3>1, <3>2 DEF TypeOK, Operation, At, Pk, Name
    <3>4. tenant'[p].schema = Name(o) /\ \A b \in Pks \ {p} : tenant'[b] = tenant[b]
      BY <3>1 DEF TypeOK
    <3>5. \A q \in Operators \ {o} : At(q)' = At(q) /\ Pk(q)' = Pk(q) /\ Name(q)' = Name(q)
      BY <3>3 DEF At, Pk, Name
    <3>6. \A q \in Operators : Pk(q) \in Pks => Pk(q) # p
      BY DEF Holds
    <3>7. Holds(o)'
      BY <3>1, <3>2, <3>3, <3>4 DEF Holds, At
    <3>8. ASSUME NEW q \in Operators \ {o} PROVE Holds(q)'
      <4>1. Pk(q) \in Pks => tenant'[Pk(q)] = tenant[Pk(q)]
        BY <3>4, <3>6
      <4> QED BY <3>1, <3>3, <3>5, <4>1 DEF Holds, Listed
    <3>9. HoldTheSame'
      BY <3>3, <3>5, <3>6 DEF HoldTheSame
    <3> QED BY <3>7, <3>8, <3>9
  <2> QED BY <2>1, <2>2
<1>3. ASSUME NEW o \in Operators, (Continue(o) /\ ~InsertTenant(o)) \/ Die(o) PROVE Held
  <2>1. \A q \in Operators : Continues(q)
    BY <1>3, OperatorContinues
  <2>2. ASSUME UNCHANGED <<tenant, used>> PROVE Held
    BY <1>0, <2>1, <2>2 DEF Listed
  <2>3. CASE DeleteTenant(o)
    BY <1>0, <2>1, <2>3 DEF DeleteTenant, Listed, TypeOK
  <2>4. CASE SaveTenant(o)
    <3>1. used' = used
      BY <2>4 DEF SaveTenant
    <3>2. \/ UNCHANGED tenant
          \/ \E active \in BOOLEAN :
                tenant' = [tenant EXCEPT ![Pk(o)] = [schema |-> Name(o), active |-> active]]
      BY <2>4 DEF SaveTenant
    <3>3. ASSUME NEW p \in Pks
          PROVE  tenant'[p] = tenant[p] \/ (p = Pk(o) /\ tenant'[p].schema = Name(o))
      <4>1. ASSUME NEW active \in BOOLEAN,
                   tenant' = [tenant EXCEPT ![Pk(o)] = [schema |-> Name(o), active |-> active]],
                   p = Pk(o)
            PROVE  tenant'[p].schema = Name(o)
        <5>1. tenant'[p] = [schema |-> Name(o), active |-> active]
          BY <4>1 DEF TypeOK
        <5> QED BY <5>1
      <4>2. ASSUME NEW active \in BOOLEAN,
                   tenant' = [tenant EXCEPT ![Pk(o)] = [schema |-> Name(o), active |-> active]],
                   p # Pk(o)
            PROVE  tenant'[p] = tenant[p]
        BY <4>2 DEF TypeOK
      <4> QED BY <3>2, <4>1, <4>2
    <3> QED BY <1>0, <2>1, <3>1, <3>3 DEF Listed, TypeOK
  <2> QED BY <1>3, <2>2, <2>3, <2>4 DEF Continue, CreateSchema, Migrate, MigrateFails, UndoSchema,
             Confirm, DropSchema, DeleteDomains, Demote, SaveDomain, Die
<1>4. ASSUME NEW s \in Schemas, NEW h \in Hosts, AddTenant(s, h) PROVE Held
  <2>1. \A q \in Operators : Continues(q)
    BY <1>4 DEF AddTenant, Continues
  <2>2. used \subseteq used' /\ \A p \in used : tenant'[p] = tenant[p]
    BY <1>4 DEF AddTenant, TypeOK
  <2> QED BY <1>0, <2>1, <2>2 DEF Listed
<1>5. CASE UNCHANGED <<tenant, used, op>>
  BY <1>0, <1>5 DEF Continues, Listed
<1> QED BY <1>1, <1>2, <1>3, <1>4, <1>5 DEF Next, RemoveDomain, Serve, Arrive, Present, Login,
           Answer, vars

\* The catalogue's keys stay unique, and the deleted tenants without a row.
LEMMA RowsStep ==
    ASSUME TypeOK, \A o \in Operators : Holds(o), HoldTheSame, RowsFit, [Next]_vars
    PROVE  RowsFit'
<1> USE CatalogueAssumption DEF rows, requests, history
<1>0. ASSUME UNCHANGED <<tenant, domain, used, deleted>> PROVE RowsFit'
  BY <1>0 DEF RowsFit, Listed
<1>a. ASSUME NEW p \in Pks \ used, NEW s \in Schemas, ~Owned(s), used' = used \union {p},
             tenant' = [tenant EXCEPT ![p] = [schema |-> s, active |-> TRUE]],
             deleted' = deleted,
             \A h \in Hosts : domain'[h] # domain[h] => domain'[h].pk \in used'
      PROVE  RowsFit'
  <2>0. /\ tenant'[p] = [schema |-> s, active |-> TRUE]
        /\ \A q \in Pks \ {p} : tenant'[q] = tenant[q]
    BY <1>a DEF TypeOK
  <2>0a. [schema |-> s, active |-> TRUE].schema = s
    OBVIOUS
  <2>0b. [schema |-> s, active |-> TRUE] # NoTenant
    BY RowIsListed
  <2>1. /\ tenant'[p] # NoTenant /\ tenant'[p].schema = s
        /\ \A q \in Pks \ {p} : tenant'[q] = tenant[q]
    BY <2>0, <2>0a, <2>0b
  <2>2. \A q \in Pks : Listed(q) => tenant[q].schema # s
    BY <1>a DEF Owned, Owns
  <2>3. \A h \in Hosts : domain'[h] # NoDomain => domain'[h].pk \in used'
    BY <1>a DEF RowsFit
  <2>4. \A q \in deleted : q # p
    BY <1>a DEF RowsFit
  <2>5. \A q \in deleted : q \in used' /\ ~Listed(q)'
    BY <1>a, <2>1, <2>4 DEF RowsFit, Listed, TypeOK
  <2>6. \A q, r \in Pks : Listed(q)' /\ Listed(r)' /\ tenant'[q].schema = tenant'[r].schema => q = r
    BY <2>1, <2>2 DEF RowsFit, Listed
  <2>7. \A q \in Pks : Listed(q)' => q \in used'
    BY <1>a, <2>1 DEF RowsFit, Listed
  <2>8. \A q \in used' : Listed(q)' \/ q \in deleted'
    BY <1>a, <2>1 DEF RowsFit, Listed, TypeOK
  <2> QED BY <1>a, <2>3, <2>5, <2>6, <2>7, <2>8 DEF RowsFit
<1>1. ASSUME NEW o \in Operators, InsertTenant(o) PROVE RowsFit'
  <2>1. Name(o) \in Schemas
    BY <1>1 DEF InsertTenant, Holds
  <2> QED BY <1>0, <1>1, <1>a, <2>1 DEF InsertTenant
<1>2. ASSUME NEW o \in Operators, DeleteTenant(o) PROVE RowsFit'
  <2>1. CASE HostsOf(Pk(o)) \subseteq op[o].seen
    <3>1. Pk(o) \in Pks /\ Pk(o) \in used
      BY <1>2 DEF DeleteTenant, Holds
    <3>2. /\ tenant'[Pk(o)] = NoTenant /\ \A q \in Pks \ {Pk(o)} : tenant'[q] = tenant[q]
          /\ \A h \in Hosts : domain'[h] \in {NoDomain, domain[h]}
          /\ deleted' = deleted \union {Pk(o)} /\ used' = used
      BY <1>2, <2>1, <3>1 DEF DeleteTenant, TypeOK
    <3>3. \A p \in Pks : Listed(p)' => Listed(p) /\ p # Pk(o) /\ tenant'[p] = tenant[p]
      BY <3>2 DEF Listed
    <3>4. \A p \in deleted' : p \in used' /\ ~Listed(p)'
      BY <3>1, <3>2, <3>3 DEF RowsFit, TypeOK
    <3>5. \A p \in used : Listed(p)' \/ p \in deleted'
      BY <3>2 DEF RowsFit, Listed, TypeOK
    <3> QED BY <3>2, <3>3, <3>4, <3>5 DEF RowsFit
  <2>2. CASE ~(HostsOf(Pk(o)) \subseteq op[o].seen)
    BY <1>0, <1>2, <2>2 DEF DeleteTenant
  <2> QED BY <2>1, <2>2
<1>3. ASSUME NEW o \in Operators, SaveDomain(o) PROVE RowsFit'
  <2>1. Pk(o) \in used
    BY <1>3 DEF SaveDomain, Holds
  <2>2. ASSUME NEW h \in Hosts, domain[h] # NoDomain
        PROVE  [domain[h] EXCEPT !.primary = FALSE].pk = domain[h].pk
    BY <2>2 DEF TypeOK, Domains
  <2>2a. [pk |-> Pk(o), primary |-> op[o].primary].pk = Pk(o)
    OBVIOUS
  <2>3. ASSUME NEW h \in Hosts, domain'[h] # NoDomain
        PROVE  domain'[h].pk = Pk(o) \/ (domain[h] # NoDomain /\ domain'[h].pk = domain[h].pk)
    <3>1. \/ domain'[h] = domain[h]
          \/ domain'[h] = [pk |-> Pk(o), primary |-> op[o].primary]
          \/ h \in HostsOf(Pk(o)) /\ domain'[h] = [domain[h] EXCEPT !.primary = FALSE]
      BY <1>3 DEF SaveDomain
    <3> QED BY <2>2, <2>2a, <2>3, <3>1 DEF HostsOf
  <2> QED BY <1>3, <2>1, <2>3 DEF SaveDomain, RowsFit, Listed
<1>4. ASSUME NEW o \in Operators, SaveTenant(o) PROVE RowsFit'
  <2>0. Pk(o) \in Pks /\ Pk(o) \in used /\ (Listed(Pk(o)) => tenant[Pk(o)].schema = Name(o))
    BY <1>4 DEF SaveTenant, Holds
  <2>1. CASE Listed(Pk(o)) \/ ~Owned(Name(o))
    <3>1. PICK active \in BOOLEAN :
             tenant' = [tenant EXCEPT ![Pk(o)] = [schema |-> Name(o), active |-> active]]
      BY <1>4, <2>1 DEF SaveTenant
    <3>2. /\ tenant'[Pk(o)] = [schema |-> Name(o), active |-> active]
          /\ tenant'[Pk(o)].schema = Name(o)
          /\ \A q \in Pks \ {Pk(o)} : tenant'[q] = tenant[q]
      BY <2>0, <3>1 DEF TypeOK
    <3>3. \A q \in Pks \ {Pk(o)} : Listed(q) => tenant[q].schema # Name(o)
      BY <2>0, <2>1 DEF RowsFit, Owned, Owns
    <3>4. deleted' = deleted \ {Pk(o)} /\ used' = used /\ domain' = domain
      BY <1>4, <2>1 DEF SaveTenant
    <3>5. \A p, q \in Pks : Listed(p)' /\ Listed(q)' /\ tenant'[p].schema = tenant'[q].schema => p = q
      BY <3>2, <3>3 DEF RowsFit, Listed
    <3>6. \A p \in Pks : Listed(p)' => p \in used'
      BY <2>0, <3>2, <3>4 DEF RowsFit, Listed
    <3>7. \A p \in deleted' : p \in used' /\ ~Listed(p)'
      BY <3>2, <3>4 DEF RowsFit, Listed, TypeOK
    <3>8. \A p \in used : Listed(p)' \/ p \in deleted'
      <4>1. tenant'[Pk(o)] # NoTenant
        BY <1>4, <2>0, <3>2, RowIsListed DEF SaveTenant, Holds
      <4> QED BY <3>2, <3>4, <4>1 DEF RowsFit, Listed, TypeOK
    <3> QED BY <3>4, <3>5, <3>6, <3>7, <3>8 DEF RowsFit
  <2>2. CASE ~(Listed(Pk(o)) \/ ~Owned(Name(o)))
    BY <1>0, <1>4, <2>2 DEF SaveTenant
  <2> QED BY <2>1, <2>2
<1>5. ASSUME NEW s \in Schemas, NEW h \in Hosts, AddTenant(s, h) PROVE RowsFit'
  <2>1. PICK p \in Pks \ used :
          /\ used' = used \union {p}
          /\ tenant' = [tenant EXCEPT ![p] = [schema |-> s, active |-> TRUE]]
          /\ domain' = [domain EXCEPT ![h] = [pk |-> p, primary |-> TRUE]]
    BY <1>5 DEF AddTenant
  <2>2. \A g \in Hosts : domain'[g] # domain[g] => domain'[g].pk \in used'
    BY <2>1 DEF TypeOK
  <2> QED BY <1>5, <1>a, <2>1, <2>2 DEF AddTenant
<1>6. ASSUME NEW h \in Hosts, RemoveDomain(h) PROVE RowsFit'
  <2>1. \A g \in Hosts : domain'[g] \in {NoDomain, domain[g]}
    BY <1>6 DEF RemoveDomain, TypeOK
  <2> QED BY <1>6, <2>1 DEF RemoveDomain, RowsFit, Listed
<1>7. ASSUME NEW o \in Operators, Begin(o) PROVE RowsFit'
  BY <1>0, <1>7, BeginBegins DEF Begun
<1> QED BY <1>0, <1>1, <1>2, <1>3, <1>4, <1>5, <1>6, <1>7
    DEF Next, Continue, CreateSchema, Migrate, MigrateFails, UndoSchema, Confirm, DropSchema,
        DeleteDomains, Demote, Die, Serve, Arrive, Present, Login, Answer, vars

\* A tenant whose domains are only removed keeps what its save has seen.
LEMMA SavesKept ==
    ASSUME NEW p \in Pks, SavesOf(p), Primaries(p)' \subseteq Primaries(p),
           \A o \in Operators : At(o)' = "insert" /\ Pk(o)' = p => op'[o] = op[o]
    PROVE  SavesOf(p)'
<1>1. \A o \in Operators : At(o)' = "insert" /\ Pk(o)' = p =>
         op'[o] = op[o] /\ At(o) = "insert" /\ Pk(o) = p
  BY DEF At, Pk
<1> QED BY <1>1 DEF SavesOf

\* The domains of one tenant are saved one after the other, or the tenant is raced.
LEMMA SavesStep ==
    ASSUME TypeOK, TypeOK', \A o \in Operators : Holds(o), RowsFit, SavesFit, [Next]_vars
    PROVE  SavesFit'
<1> USE CatalogueAssumption DEF rows, requests, history
<1>0. ASSUME raced \subseteq raced', domain' = domain,
             \A o \in Operators : At(o)' = "insert" => op'[o] = op[o]
      PROVE  SavesFit'
  <2>1. \A p \in Pks : Primaries(p)' = Primaries(p)
    BY <1>0 DEF Primaries, HostsOf
  <2> QED BY <1>0, <2>1, SavesKept DEF SavesFit
<1>a. ASSUME NEW o \in Operators, NEW stage \in Stages, Goto(o, stage), stage # "insert",
             raced' = raced, domain' = domain
      PROVE  SavesFit'
  <2>1. \A q \in Operators : At(q)' = "insert" => op'[q] = op[q]
    BY <1>a DEF Goto, TypeOK, Operation, At
  <2> QED BY <1>0, <1>a, <2>1
<1>b. ASSUME NEW o \in Operators, Finish(o)
      PROVE  \A q \in Operators : At(q)' = "insert" => q # o /\ op'[q] = op[q]
  BY <1>b DEF Finish, TypeOK, At, Idle
<1>1. ASSUME NEW o \in Operators, Begin(o) PROVE SavesFit'
  <2>1. Begun(o) /\ raced' = raced
    BY <1>1, BeginBegins
  <2>2. \A q \in Operators : At(q)' = "insert" => op'[q] = op[q]
    BY <2>1 DEF Begun, At
  <2> QED BY <1>0, <2>1, <2>2 DEF Begun
<1>2. ASSUME NEW o \in Operators, InsertTenant(o) PROVE SavesFit'
  <2>1. \A q \in Operators : At(q)' = "insert" => op'[q] = op[q]
    BY <1>2, <1>b DEF InsertTenant, TypeOK, Operation, At
  <2>2. domain' = domain /\ raced' = raced
    BY <1>2 DEF InsertTenant
  <2> QED BY <1>0, <2>1, <2>2
<1>3. ASSUME NEW o \in Operators, DeleteDomains(o) PROVE SavesFit'
  <2>1. \A q \in Operators : At(q)' = "insert" => op'[q] = op[q]
    BY <1>3 DEF DeleteDomains, TypeOK, Operation, At
  <2> QED BY <1>0, <1>3, <2>1 DEF DeleteDomains
<1>4. ASSUME NEW o \in Operators, DeleteTenant(o) PROVE SavesFit'
  <2>1. \A h \in Hosts : domain'[h] \in {NoDomain, domain[h]}
    BY <1>4 DEF DeleteTenant, TypeOK
  <2>2. \A p \in Pks : Primaries(p)' \subseteq Primaries(p)
    BY <2>1 DEF Primaries, HostsOf
  <2>3. \A q \in Operators : At(q)' = "insert" => op'[q] = op[q]
    BY <1>4, <1>b DEF DeleteTenant
  <2> QED BY <1>4, <2>2, <2>3, SavesKept DEF DeleteTenant, SavesFit
<1>5. ASSUME NEW h \in Hosts, RemoveDomain(h) PROVE SavesFit'
  <2>1. \A g \in Hosts : domain'[g] \in {NoDomain, domain[g]}
    BY <1>5 DEF RemoveDomain, TypeOK
  <2>2. \A p \in Pks : Primaries(p)' \subseteq Primaries(p)
    BY <2>1 DEF Primaries, HostsOf
  <2> QED BY <1>5, <2>2, SavesKept DEF RemoveDomain, SavesFit
<1>6. ASSUME NEW o \in Operators, Demote(o) PROVE SavesFit'
  <2>1. op[o] \in Operation
    BY DEF TypeOK
  <2>2. /\ op'[o].host = op[o].host /\ op'[o].pk = op[o].pk
        /\ op'[o].seen = Primaries(Pk(o)) \ {op[o].host}
        /\ \A q \in Operators \ {o} : op'[q] = op[q]
    BY <1>6, <2>1 DEF Demote, TypeOK, Operation
  <2>3. \A p \in Pks : Primaries(p)' = Primaries(p)
    BY <1>6 DEF Demote, Primaries, HostsOf
  <2>4. SUFFICES ASSUME NEW p \in Pks \ raced' PROVE SavesOf(p)'
    BY DEF SavesFit
  <2>5. SavesOf(p)
    BY <1>6 DEF Demote, SavesFit
  <2>6. CASE p # Pk(o)
    BY <2>2, <2>3, <2>5, <2>6, SavesKept DEF Pk
  <2>7. CASE p = Pk(o)
    <3>1. \A q \in Operators \ {o} : ~(At(q) = "insert" /\ Pk(q) = p)
      BY <1>6, <2>7 DEF Demote
    <3>2. \A q \in Operators : At(q)' = "insert" /\ Pk(q)' = p => q = o
      BY <2>2, <3>1 DEF At, Pk
    <3>3. Primaries(p)' \ {op'[o].host} \subseteq op'[o].seen
      BY <2>2, <2>3, <2>7
    <3> QED BY <2>3, <2>5, <3>2, <3>3 DEF SavesOf
  <2> QED BY <2>6, <2>7
<1>7. ASSUME NEW o \in Operators, SaveDomain(o) PROVE SavesFit'
  <2>0. op[o] \in Operation /\ Pk(o) \in Pks /\ op[o].host \in Hosts
    BY <1>7 DEF SaveDomain, Holds, TypeOK
  <2>1. \A q \in Operators : At(q)' = "insert" => q # o /\ op'[q] = op[q]
    BY <1>7, <1>b DEF SaveDomain
  <2>2. CASE ~Saved(o)
    BY <1>0, <1>7, <2>1, <2>2 DEF SaveDomain
  <2>3. CASE Saved(o)
    <3>0. [pk |-> Pk(o), primary |-> op[o].primary].pk = Pk(o)
      OBVIOUS
    <3>1. ASSUME NEW h \in Hosts \ {op[o].host}
          PROVE  \/ domain'[h] = domain[h]
                 \/ /\ domain[h] # NoDomain /\ domain[h].pk = Pk(o) /\ domain'[h].pk = Pk(o)
                    /\ ~domain'[h].primary
      <4>1. \/ domain'[h] = domain[h]
            \/ h \in HostsOf(Pk(o)) /\ domain'[h] = [domain[h] EXCEPT !.primary = FALSE]
        BY <1>7, <2>3 DEF SaveDomain
      <4> QED BY <4>1 DEF HostsOf, TypeOK, Domains
    <3>2. /\ domain'[op[o].host] = [pk |-> Pk(o), primary |-> op[o].primary]
          /\ domain'[op[o].host].pk = Pk(o)
      BY <1>7, <2>0, <2>3, <3>0 DEF SaveDomain
    <3>3. \A p \in Pks : Primaries(p)' \ {op[o].host} \subseteq Primaries(p)
      BY <3>1 DEF Primaries, HostsOf
    <3>4. SUFFICES ASSUME NEW p \in Pks \ raced PROVE SavesOf(p)'
      BY <1>7 DEF SaveDomain, SavesFit
    <3>5. SavesOf(p)
      BY DEF SavesFit
    <3>6. CASE p # Pk(o)
      <4>1. Primaries(p)' \subseteq Primaries(p)
        BY <3>2, <3>3, <3>6 DEF Primaries, HostsOf
      <4> QED BY <2>1, <3>5, <4>1, SavesKept
    <3>7. CASE p = Pk(o)
      <4>1. At(o) = "insert" /\ \A q \in Operators : At(q) = "insert" /\ Pk(q) = p => q = o
        BY <1>7, <3>5, <3>7 DEF SaveDomain, SavesOf
      <4>2. \A q \in Operators : ~(At(q)' = "insert" /\ Pk(q)' = p)
        BY <2>1, <4>1 DEF At, Pk
      <4>3. CASE op[o].primary
        <5>1. Primaries(p) \ {op[o].host} \subseteq op[o].seen
          BY <3>5, <3>7, <4>1 DEF SavesOf
        <5>2. ASSUME NEW h \in Hosts \ {op[o].host}, h \in Primaries(p)' PROVE FALSE
          <6>1. h \in Primaries(p) /\ h \in op[o].seen /\ h \in HostsOf(p)
            BY <3>3, <5>1, <5>2 DEF Primaries
          <6>2. domain'[h] = [domain[h] EXCEPT !.primary = FALSE] /\ domain[h] \in Domains
            BY <1>7, <2>3, <3>7, <4>3, <6>1 DEF SaveDomain, HostsOf, TypeOK
          <6>3. ~domain'[h].primary
            BY <6>2 DEF Domains
          <6> QED BY <5>2, <6>3 DEF Primaries
        <5>3. Primaries(p)' \subseteq {op[o].host}
          BY <5>2 DEF Primaries, HostsOf
        <5> QED BY <4>2, <5>3 DEF SavesOf
      <4>4. CASE ~op[o].primary
        <5>1. op[o].host \notin Primaries(p)'
          BY <3>2, <4>4 DEF Primaries
        <5>2. Primaries(p)' \subseteq Primaries(p)
          BY <3>3, <5>1
        <5> QED BY <3>5, <4>2, <5>2 DEF SavesOf
      <4> QED BY <4>3, <4>4
    <3> QED BY <3>6, <3>7
  <2> QED BY <2>2, <2>3
<1>8. ASSUME NEW s \in Schemas, NEW h \in Hosts, AddTenant(s, h) PROVE SavesFit'
  <2>1. PICK b \in Pks \ used : domain' = [domain EXCEPT ![h] = [pk |-> b, primary |-> TRUE]]
    BY <1>8 DEF AddTenant
  <2>2. op' = op /\ raced' = raced /\ domain[h] = NoDomain
    BY <1>8 DEF AddTenant
  <2>3. SUFFICES ASSUME NEW p \in Pks \ raced PROVE SavesOf(p)'
    BY <2>2 DEF SavesFit
  <2>4. CASE p # b
    <3>1. \A g \in Hosts : domain'[g] = domain[g] \/ domain'[g].pk = b
      BY <2>1 DEF TypeOK
    <3>2. Primaries(p)' \subseteq Primaries(p)
      BY <2>4, <3>1 DEF Primaries, HostsOf
    <3> QED BY <2>2, <3>2, SavesKept DEF SavesFit
  <2>5. CASE p = b
    <3>1. \A g \in Hosts \ {h} : domain'[g] = domain[g]
      BY <2>1 DEF TypeOK
    <3>2. Primaries(p)' \subseteq {h}
      BY <2>1, <2>5, <3>1 DEF Primaries, HostsOf, RowsFit
    <3>3. \A o \in Operators : Pk(o) # p
      BY <2>1, <2>5 DEF Holds
    <3> QED BY <2>2, <3>2, <3>3 DEF SavesOf, Pk
  <2> QED BY <2>4, <2>5
<1>9. ASSUME NEW o \in Operators, SaveTenant(o) \/ Die(o) PROVE SavesFit'
  BY <1>0, <1>9, <1>b DEF SaveTenant, Die
<1>10. ASSUME NEW o \in Operators, CreateSchema(o) \/ Migrate(o) \/ MigrateFails(o) \/ UndoSchema(o)
                                   \/ Confirm(o) \/ DropSchema(o)
       PROVE  SavesFit'
  BY <1>10, <1>a DEF CreateSchema, Migrate, MigrateFails, UndoSchema, Confirm, DropSchema, Stages
<1>11. CASE UNCHANGED <<domain, op, raced>>
  BY <1>0, <1>11
<1> QED BY <1>1, <1>2, <1>3, <1>4, <1>5, <1>6, <1>7, <1>8, <1>9, <1>10, <1>11
    DEF Next, Continue, Serve, Arrive, Present, Login, Answer, vars

\* Who explains a schema's disagreement goes on explaining it.
Explains(o) ==
    /\ Name(o)' = Name(o) /\ Pk(o)' = Pk(o)
    /\ At(o) \in {"inserted", "migrating", "undo"} => At(o)' \in {"inserted", "migrating", "undo"}
    /\ At(o) \in {"migrating", "undo"} => At(o)' \in {"migrating", "undo"}
    /\ At(o) \in {"cascade", "delete"} => At(o)' \in {"cascade", "delete"}
Explaining == {"inserted", "migrating", "undo", "cascade", "delete"}

LEMMA SchemaKept ==
    ASSUME NEW s \in Schemas, SchemaFits(s), \A o \in Operators : Holds(o),
           schema'[s] = schema[s], s \in kept => s \in kept',
           \A p \in Pks : Owns(p, s)' <=> Owns(p, s),
           \A o \in Operators : Name(o) = s /\ At(o) \in Explaining => Explains(o)
    PROVE  SchemaFits(s)'
<1>1. Owned(s)' <=> Owned(s)
  BY DEF Owned
<1>2. Migrating(s) => Migrating(s)'
  BY DEF Migrating, Explaining, Explains
<1>3. Creating(s) => Creating(s)'
  BY DEF Creating, Explaining, Explains
<1>4. Deleting(s) => Deleting(s)'
  <2> SUFFICES ASSUME NEW o \in Operators, Name(o) = s, At(o) \in {"cascade", "delete"},
                      Owns(Pk(o), s)
               PROVE  Deleting(s)'
    BY DEF Deleting
  <2>1. Explains(o) /\ Pk(o) \in Pks
    BY DEF Explaining, Holds
  <2>2. Owns(Pk(o), s)'
    BY <2>1 DEF Explains, Owns, Listed
  <2> QED BY <2>1, <2>2 DEF Deleting, Explains
<1> QED BY <1>1, <1>2, <1>3, <1>4 DEF SchemaFits

\* A step explains the disagreements it leaves, or leaves the schema disturbed.
LEMMA SchemasStep ==
    ASSUME TypeOK, TypeOK', \A o \in Operators : Holds(o), HoldTheSame, RowsFit, SchemasFit,
           [Next]_vars
    PROVE  SchemasFit'
<1> USE CatalogueAssumption DEF rows, requests, history
<1>0. ASSUME UNCHANGED tenant PROVE \A p \in Pks, s \in Schemas : Owns(p, s)' <=> Owns(p, s)
  BY <1>0 DEF Owns, Listed
\* Nothing moves but operators that explain nothing, or go on explaining.
<1>a. ASSUME UNCHANGED <<tenant, schema, kept, disturbed>>,
             \A o \in Operators : At(o) \in Explaining => Explains(o)
      PROVE  SchemasFit'
  BY <1>0, <1>a, SchemaKept DEF SchemasFit
<1>b. ASSUME NEW o \in Operators, NEW stage \in Stages, Goto(o, stage)
      PROVE  /\ At(o)' = stage /\ Pk(o)' = Pk(o) /\ Name(o)' = Name(o)
             /\ \A q \in Operators \ {o} : Explains(q)
  <2>1. op[o] \in Operation
    BY DEF TypeOK
  <2>2. /\ op'[o].at = stage /\ op'[o].pk = op[o].pk /\ op'[o].schema = op[o].schema
        /\ \A q \in Operators \ {o} : op'[q] = op[q]
    BY <1>b, <2>1 DEF Goto, TypeOK, Operation
  <2> QED BY <2>2 DEF At, Pk, Name, Explains
<1>c. ASSUME NEW o \in Operators, Finish(o) PROVE \A q \in Operators \ {o} : Explains(q)
  <2>1. \A q \in Operators \ {o} : op'[q] = op[q]
    BY <1>c DEF Finish, TypeOK
  <2> QED BY <2>1 DEF At, Pk, Name, Explains
\* Only the schema named by one operator is touched: the others keep what they have.
<1>d. ASSUME NEW o \in Operators, \A q \in Operators \ {o} : Explains(q), disturbed \subseteq disturbed',
             \A s \in Schemas : s # Name(o) =>
                /\ schema'[s] = schema[s] /\ (s \in kept => s \in kept')
                /\ \A p \in Pks : Owns(p, s)' <=> Owns(p, s),
             \A s \in Schemas \ disturbed' : s = Name(o) => SchemaFits(s)'
      PROVE  SchemasFit'
  <2> SUFFICES ASSUME NEW s \in Schemas \ disturbed', s # Name(o) PROVE SchemaFits(s)'
    BY <1>d DEF SchemasFit
  <2>1. SchemaFits(s)
    BY <1>d DEF SchemasFit
  <2> QED BY <1>d, <2>1, SchemaKept
<1>1. ASSUME NEW o \in Operators, Begin(o) PROVE SchemasFit'
  <2>1. Begun(o) /\ At(o) = "idle" /\ UNCHANGED <<schema, deleted, kept, disturbed, raced>>
    BY <1>1, BeginBegins
  <2>2. \A q \in Operators : At(q) \in Explaining => Explains(q)
    BY <2>1 DEF Begun, At, Pk, Name, Explains, Explaining
  <2> QED BY <1>a, <2>1, <2>2 DEF Begun
<1>2. ASSUME NEW o \in Operators, InsertTenant(o) PROVE SchemasFit'
  <2>0. Name(o) \in Schemas /\ op[o] \in Operation /\ At(o) = "checked"
    BY <1>2 DEF InsertTenant, Holds, TypeOK
  <2>1. CASE Owned(Name(o))
    BY <1>2, <1>a, <1>c, <2>0, <2>1 DEF InsertTenant, Explaining
  <2>2. CASE ~Owned(Name(o))
    <3>1. PICK b \in Pks \ used :
              /\ tenant' = [tenant EXCEPT ![b] = [schema |-> Name(o), active |-> TRUE]]
              /\ op' = [op EXCEPT ![o].at = "inserted", ![o].pk = b]
      BY <1>2, <2>2 DEF InsertTenant
    <3>2. /\ op'[o].at = "inserted" /\ op'[o].schema = op[o].schema
          /\ \A q \in Operators \ {o} : op'[q] = op[q]
      BY <2>0, <3>1 DEF TypeOK, Operation
    <3>3. \A q \in Operators \ {o} : Explains(q)
      BY <3>2 DEF Explains, At, Pk, Name
    <3>4. /\ tenant'[b].schema = Name(o) /\ ~Listed(b)
          /\ \A p \in Pks \ {b} : tenant'[p] = tenant[p]
      BY <3>1 DEF TypeOK, RowsFit
    <3>5. \A s \in Schemas, p \in Pks : s # Name(o) => (Owns(p, s)' <=> Owns(p, s))
      BY <3>4 DEF Owns, Listed
    <3>6. ASSUME NEW s \in Schemas \ disturbed, s = Name(o) PROVE SchemaFits(s)'
      <4>1. Creating(s)'
        BY <3>2, <3>6 DEF Creating, At, Name
      <4>2. Migrating(s) => Migrating(s)'
        BY <2>0, <3>2 DEF Migrating, At, Name
      <4>3. SchemaFits(s) /\ schema' = schema /\ kept' = kept
        BY <1>2 DEF SchemasFit, InsertTenant
      <4> QED BY <2>2, <3>6, <4>1, <4>2, <4>3 DEF SchemaFits
    <3> QED BY <1>2, <1>d, <3>3, <3>5, <3>6 DEF InsertTenant
  <2> QED BY <2>1, <2>2
\* A step of o on its own schema s alone, which is left as the step found the tenant.
<1>e. ASSUME NEW o \in Operators, UNCHANGED tenant, Name(o) \in Schemas,
             \A s \in Schemas \ {Name(o)} : schema'[s] = schema[s],
             kept' = kept \/ kept' = kept \ {Name(o)},
             disturbed \subseteq disturbed',
             \A q \in Operators \ {o} : Explains(q),
             \A s \in Schemas \ disturbed' : s = Name(o) => SchemaFits(s)'
      PROVE  SchemasFit'
  BY <1>0, <1>d, <1>e
<1>3. ASSUME NEW o \in Operators, CreateSchema(o) PROVE SchemasFit'
  <2>0. Name(o) \in Schemas /\ At(o) = "inserted"
    BY <1>3 DEF CreateSchema, Holds
  <2>1. PICK stage \in {"migrating", "save"} : Goto(o, stage) /\ (schema[Name(o)] = "absent" <=> stage = "migrating")
    BY <1>3 DEF CreateSchema
  <2>2. /\ At(o)' = stage /\ Pk(o)' = Pk(o) /\ Name(o)' = Name(o)
        /\ \A q \in Operators \ {o} : Explains(q)
    BY <2>1, <1>b DEF Stages
  <2>3. ASSUME NEW s \in Schemas \ disturbed', s = Name(o) PROVE SchemaFits(s)'
    <3>1. schema[s] = "absent" /\ schema'[s] = "partial" /\ stage = "migrating"
      BY <1>3, <2>1, <2>3 DEF CreateSchema, TypeOK
    <3> QED BY <2>2, <2>3, <3>1 DEF SchemaFits, Migrating
  <2>4. \A s \in Schemas \ {Name(o)} : schema'[s] = schema[s]
    BY <1>3 DEF CreateSchema, TypeOK
  <2> QED BY <1>3, <1>e, <2>0, <2>2, <2>3, <2>4 DEF CreateSchema
<1>4. ASSUME NEW o \in Operators, Migrate(o) PROVE SchemasFit'
  <2>0. Name(o) \in Schemas
    BY <1>4 DEF Migrate, Holds
  <2>2. \A q \in Operators \ {o} : Explains(q)
    BY <1>4, <1>b DEF Migrate, Stages
  <2>3. ASSUME NEW s \in Schemas \ disturbed', s = Name(o) PROVE SchemaFits(s)'
    <3>1. schema'[s] = "whole" /\ Owns(Pk(o), s)
      BY <1>4, <2>3 DEF Migrate, TypeOK, Disturb
    <3>2. Pk(o) \in Pks
      BY <1>4 DEF Migrate, Holds
    <3>3. Owned(s)'
      BY <1>0, <1>4, <3>1, <3>2 DEF Owned, Migrate
    <3> QED BY <3>1, <3>3 DEF SchemaFits
  <2>4. \A s \in Schemas \ {Name(o)} : schema'[s] = schema[s]
    BY <1>4 DEF Migrate, TypeOK
  <2> QED BY <1>4, <1>e, <2>0, <2>2, <2>3, <2>4 DEF Migrate, Disturb
<1>5. ASSUME NEW o \in Operators, MigrateFails(o) PROVE SchemasFit'
  <2>1. \A q \in Operators : At(q) \in Explaining => Explains(q)
    BY <1>5, <1>b DEF MigrateFails, Stages, Explains
  <2> QED BY <1>5, <1>a, <2>1 DEF MigrateFails
<1>6. ASSUME NEW o \in Operators, UndoSchema(o) \/ DropSchema(o) PROVE SchemasFit'
  <2>0. Name(o) \in Schemas /\ Pk(o) \in Pks
    BY <1>6 DEF UndoSchema, DropSchema, Holds
  <2>2. /\ At(o)' = "cascade" /\ Pk(o)' = Pk(o) /\ Name(o)' = Name(o)
        /\ \A q \in Operators \ {o} : Explains(q)
    BY <1>6, <1>b DEF UndoSchema, DropSchema, Stages
  <2>3. ASSUME NEW s \in Schemas \ disturbed', s = Name(o) PROVE SchemaFits(s)'
    <3>1. schema'[s] = "absent" /\ Owns(Pk(o), s)
      BY <1>6, <2>3 DEF UndoSchema, DropSchema, TypeOK, Disturb
    <3>2. tenant' = tenant
      BY <1>6 DEF UndoSchema, DropSchema
    <3>3. Deleting(s)'
      BY <2>2, <2>3, <3>1, <3>2 DEF Deleting, Owns, Listed
    <3> QED BY <3>1, <3>3 DEF SchemaFits
  <2>4. \A s \in Schemas \ {Name(o)} : schema'[s] = schema[s]
    BY <1>6 DEF UndoSchema, DropSchema, TypeOK
  <2> QED BY <1>6, <1>e, <2>0, <2>2, <2>3, <2>4 DEF UndoSchema, DropSchema, Disturb
<1>7. ASSUME NEW o \in Operators, Confirm(o) PROVE SchemasFit'
  <2>1. \A q \in Operators : At(q) \in Explaining => Explains(q)
    BY <1>7, <1>b DEF Confirm, Stages, Explaining
  <2> QED BY <1>7, <1>a, <2>1 DEF Confirm
<1>8. ASSUME NEW o \in Operators, DeleteDomains(o) \/ Demote(o) PROVE SchemasFit'
  <2>0. op[o] \in Operation
    BY DEF TypeOK
  <2>1. \A q \in Operators \ {o} : op'[q] = op[q]
    BY <1>8 DEF DeleteDomains, Demote, TypeOK
  <2>2. CASE DeleteDomains(o)
    <3>1. At(o)' = "delete" /\ At(o) = "cascade" /\ Pk(o)' = Pk(o) /\ Name(o)' = Name(o)
      BY <2>0, <2>2 DEF DeleteDomains, TypeOK, Operation, At, Pk, Name
    <3>2. \A q \in Operators : Explains(q)
      BY <2>1, <3>1 DEF Explains, At, Pk, Name
    <3> QED BY <1>a, <2>2, <3>2 DEF DeleteDomains
  <2>3. CASE Demote(o)
    <3>1. \A q \in Operators : At(q) \in Explaining => Explains(q)
      BY <2>1, <2>3 DEF Demote, Explains, Explaining, At, Pk, Name
    <3> QED BY <1>a, <2>3, <3>1 DEF Demote
  <2> QED BY <1>8, <2>2, <2>3
<1>9. ASSUME NEW o \in Operators, DeleteTenant(o) PROVE SchemasFit'
  <2>0. /\ Name(o) \in Schemas /\ Pk(o) \in Pks /\ At(o) = "delete"
        /\ Listed(Pk(o)) => tenant[Pk(o)].schema = Name(o)
    BY <1>9 DEF DeleteTenant, Holds
  <2>1. \A q \in Operators \ {o} : Explains(q)
    BY <1>9, <1>c DEF DeleteTenant
  <2>2. CASE HostsOf(Pk(o)) \subseteq op[o].seen
    <3>1. /\ tenant'[Pk(o)] = NoTenant
          /\ \A p \in Pks \ {Pk(o)} : tenant'[p] = tenant[p]
      BY <1>9, <2>0, <2>2 DEF DeleteTenant, TypeOK
    <3>2. \A s \in Schemas, p \in Pks : Owns(p, s)' <=> Owns(p, s) /\ p # Pk(o)
      BY <3>1 DEF Owns, Listed
    <3>3. \A s \in Schemas, p \in Pks : s # Name(o) => (Owns(p, s)' <=> Owns(p, s))
      BY <2>0, <3>2 DEF Owns
    <3>4. /\ schema' = schema /\ disturbed' = disturbed
          /\ kept' = IF Listed(Pk(o)) /\ schema[Name(o)] = "whole"
                     THEN kept \union {Name(o)} ELSE kept
      BY <1>9, <2>2 DEF DeleteTenant
    <3>5. ASSUME NEW s \in Schemas \ disturbed, s = Name(o) PROVE SchemaFits(s)'
      <4>0. SchemaFits(s)
        BY DEF SchemasFit
      <4>1. schema[s] = "partial" => Migrating(s)'
        BY <2>0, <2>1, <4>0 DEF SchemaFits, Migrating, Explains
      <4>2. ASSUME schema[s] = "absent", Owned(s)' PROVE Creating(s)' \/ Deleting(s)'
        <5>1. PICK p \in Pks : Owns(p, s) /\ p # Pk(o)
          BY <3>2, <4>2 DEF Owned
        <5>2. CASE Creating(s)
          BY <2>0, <2>1, <5>2 DEF Creating, Explains
        <5>3. CASE Deleting(s)
          <6>1. PICK q \in Operators : Name(q) = s /\ At(q) \in {"cascade", "delete"} /\ Owns(Pk(q), s)
            BY <5>3 DEF Deleting
          <6>2. Pk(q) \in Pks
            BY <6>1 DEF Holds
          <6>3. Pk(q) = p
            BY <5>1, <6>1, <6>2 DEF RowsFit, Owns
          <6>4. q # o /\ Explains(q)
            BY <2>1, <5>1, <6>3
          <6>5. Owns(p, s)'
            BY <3>2, <5>1
          <6> QED BY <6>1, <6>3, <6>4, <6>5 DEF Deleting, Explains
        <5> QED BY <4>0, <4>2, <5>1, <5>2, <5>3 DEF SchemaFits, Owned
      <4>3. ASSUME schema[s] = "whole", ~Owned(s)' PROVE s \in kept'
        <5>1. CASE Listed(Pk(o))
          BY <3>4, <3>5, <4>3, <5>1
        <5>2. CASE ~Listed(Pk(o))
          <6>1. ~Owned(s)
            BY <3>2, <4>3, <5>2 DEF Owned, Owns
          <6> QED BY <3>4, <4>0, <4>3, <6>1 DEF SchemaFits
        <5> QED BY <5>1, <5>2
      <4> QED BY <3>4, <4>1, <4>2, <4>3 DEF SchemaFits
    <3> QED BY <1>d, <2>1, <3>3, <3>4, <3>5
  <2>3. CASE ~(HostsOf(Pk(o)) \subseteq op[o].seen)
    <3>1. /\ UNCHANGED <<tenant, kept, schema>>
          /\ disturbed' = IF schema[Name(o)] = "absent" THEN disturbed \union {Name(o)} ELSE disturbed
      BY <1>9, <2>3 DEF DeleteTenant, Disturb
    <3>2. ASSUME NEW s \in Schemas \ disturbed', s = Name(o) PROVE SchemaFits(s)'
      <4>0. SchemaFits(s) /\ schema[s] # "absent"
        BY <3>1, <3>2 DEF SchemasFit
      <4>1. Migrating(s) => Migrating(s)'
        BY <2>0, <2>1 DEF Migrating, Explains
      <4>2. Owned(s)' <=> Owned(s)
        BY <1>0, <3>1 DEF Owned
      <4> QED BY <3>1, <4>0, <4>1, <4>2 DEF SchemaFits
    <3> QED BY <1>e, <2>0, <2>1, <3>1, <3>2
  <2> QED BY <2>2, <2>3
<1>10. ASSUME NEW o \in Operators, SaveDomain(o) PROVE SchemasFit'
  BY <1>10, <1>a, <1>c DEF SaveDomain, Explaining
<1>11. ASSUME NEW o \in Operators, SaveTenant(o) PROVE SchemasFit'
  <2>0. /\ Name(o) \in Schemas /\ Pk(o) \in Pks /\ At(o) = "form"
        /\ Listed(Pk(o)) => tenant[Pk(o)].schema = Name(o)
    BY <1>11 DEF SaveTenant, Holds
  <2>1. \A q \in Operators \ {o} : Explains(q)
    BY <1>11, <1>c DEF SaveTenant
  <2>2. \A p \in Pks \ {Pk(o)} : tenant'[p] = tenant[p]
    BY <1>11 DEF SaveTenant, TypeOK
  <2>3. UNCHANGED tenant \/ tenant'[Pk(o)].schema = Name(o)
    <3>1. ASSUME NEW active \in BOOLEAN,
                 tenant' = [tenant EXCEPT ![Pk(o)] = [schema |-> Name(o), active |-> active]]
          PROVE  tenant'[Pk(o)].schema = Name(o)
      BY <2>0, <3>1 DEF TypeOK
    <3> QED BY <1>11, <3>1 DEF SaveTenant
  <2>4. \A s \in Schemas, p \in Pks : s # Name(o) => (Owns(p, s)' <=> Owns(p, s))
    BY <2>0, <2>2, <2>3 DEF Owns, Listed
  <2>5. ASSUME NEW s \in Schemas \ disturbed', s = Name(o) PROVE SchemaFits(s)'
    <3>1. Listed(Pk(o)) /\ disturbed' = disturbed /\ UNCHANGED <<schema, kept>>
      BY <1>11, <2>5 DEF SaveTenant, Disturb
    <3>2. tenant'[Pk(o)] # NoTenant
      <4>1. ASSUME NEW active \in BOOLEAN,
                   tenant' = [tenant EXCEPT ![Pk(o)] = [schema |-> Name(o), active |-> active]]
            PROVE  tenant'[Pk(o)] # NoTenant
        <5>1. tenant'[Pk(o)] = [schema |-> Name(o), active |-> active]
          BY <2>0, <4>1 DEF TypeOK
        <5> QED BY <2>0, <5>1, RowIsListed
      <4> QED BY <1>11, <3>1, <4>1 DEF SaveTenant, Listed
    <3>3. \A p \in Pks : Owns(p, s)' <=> Owns(p, s)
      BY <2>0, <2>2, <2>3, <2>5, <3>1, <3>2 DEF Owns, Listed
    <3>4. \A q \in Operators : At(q) \in Explaining => Explains(q)
      BY <2>0, <2>1 DEF Explaining
    <3> QED BY <3>1, <3>3, <3>4, SchemaKept DEF SchemasFit
  <2> QED BY <1>11, <1>d, <2>1, <2>4, <2>5 DEF SaveTenant, Disturb
<1>12. ASSUME NEW o \in Operators, Die(o) PROVE SchemasFit'
  <2>1. Name(o) \in Schemas /\ \A q \in Operators \ {o} : Explains(q)
    BY <1>12, <1>c DEF Die, Holds
  <2>2. ASSUME NEW s \in Schemas \ disturbed', s = Name(o) PROVE SchemaFits(s)'
    <3>1. ~Busy(s)
      BY <1>12, <2>2 DEF Die, Disturb
    <3>2. \A q \in Operators : Name(q) = s /\ At(q) \in Explaining => Explains(q)
      BY <3>1 DEF Busy, Explaining
    <3>3. SchemaFits(s) /\ UNCHANGED <<tenant, schema, kept>>
      BY <1>12, <2>2 DEF SchemasFit, Die, Disturb
    <3> QED BY <1>0, <3>2, <3>3, SchemaKept
  <2> QED BY <1>12, <1>e, <2>1, <2>2 DEF Die, Disturb
<1>13. ASSUME NEW s \in Schemas, NEW h \in Hosts, AddTenant(s, h) PROVE SchemasFit'
  <2>1. PICK b \in Pks \ used : tenant' = [tenant EXCEPT ![b] = [schema |-> s, active |-> TRUE]]
    BY <1>13 DEF AddTenant
  <2>2. /\ tenant'[b].schema = s /\ tenant'[b] = [schema |-> s, active |-> TRUE] /\ ~Listed(b)
        /\ \A p \in Pks \ {b} : tenant'[p] = tenant[p]
    BY <2>1 DEF TypeOK, RowsFit
  <2>3. \A q \in Operators : Explains(q)
    BY <1>13 DEF AddTenant, Explains, At, Pk, Name
  <2>4. SUFFICES ASSUME NEW z \in Schemas \ disturbed PROVE SchemaFits(z)'
    BY <1>13 DEF AddTenant, SchemasFit
  <2>5. SchemaFits(z)
    BY DEF SchemasFit
  <2>6. CASE z # s
    <3>1. schema'[z] = schema[z] /\ (z \in kept => z \in kept')
      BY <1>13, <2>6 DEF AddTenant, TypeOK
    <3>2. \A p \in Pks : Owns(p, z)' <=> Owns(p, z)
      BY <2>2, <2>6 DEF Owns, Listed
    <3> QED BY <2>3, <2>5, <3>1, <3>2, SchemaKept
  <2>7. CASE z = s
    <3>1. Owned(s)'
      <4>1. tenant'[b] # NoTenant
        BY <2>2, RowIsListed
      <4> QED BY <2>2, <4>1 DEF Owned, Owns, Listed
    <3>2. schema'[s] # "absent" /\ (schema'[s] = "partial" => schema[s] = "partial")
      BY <1>13 DEF AddTenant, TypeOK
    <3>3. Migrating(s) => Migrating(s)'
      BY <2>3 DEF Migrating, Explains
    <3> QED BY <2>5, <2>7, <3>1, <3>2, <3>3 DEF SchemaFits
  <2> QED BY <2>6, <2>7
<1>14. CASE UNCHANGED <<tenant, schema, op, kept, disturbed>>
  <2>1. \A q \in Operators : Explains(q)
    BY <1>14 DEF Explains, At, Pk, Name
  <2> QED BY <1>14, <1>a, <2>1
<1> QED BY <1>1, <1>2, <1>3, <1>4, <1>5, <1>6, <1>7, <1>8, <1>9, <1>10, <1>11, <1>12, <1>13, <1>14
    DEF Next, Continue, Serve, Arrive, Present, Login, Answer, RemoveDomain, vars

\* A request keeps the tenant it was routed to, which was not a deleted one.
LEMMA RequestsStep ==
    ASSUME TypeOK, RowsFit, RequestsFit, [Next]_vars
    PROVE  RequestsFit'
<1> USE DEF rows, requests, history
<1>0. ASSUME req' = req PROVE RequestsFit'
  BY <1>0 DEF RequestsFit
<1>a. ASSUME NEW r \in Requests, \A q \in Requests \ {r} : req'[q] = req[q],
             req'[r].at # "idle" =>
                /\ req'[r].pk \notin req'[r].gone
                /\ req'[r].at = "accepted" => req'[r].token.tid = req'[r].pk
      PROVE  RequestsFit'
  BY <1>a DEF RequestsFit
<1>1. ASSUME NEW r \in Requests, NEW h \in Hosts, Arrive(r, h) PROVE RequestsFit'
  <2>1. /\ req'[r].at = "routed" /\ req'[r].pk = Resolve(h) /\ req'[r].gone = deleted
        /\ \A q \in Requests \ {r} : req'[q] = req[q]
    BY <1>1 DEF Arrive, TypeOK
  <2>2. Listed(Resolve(h))
    BY <1>1 DEF Arrive, Routed, Resolve
  <2>3. Resolve(h) \notin deleted
    BY <2>2 DEF RowsFit
  <2> QED BY <1>a, <2>1, <2>3
<1>2. ASSUME NEW r \in Requests, NEW t \in tokens, Present(r, t) PROVE RequestsFit'
  <2>1. req[r] \in Request /\ req[r].at = "routed"
    BY <1>2 DEF Present, TypeOK, NoRequest
  <2>2. \A q \in Requests \ {r} : req'[q] = req[q]
    BY <1>2 DEF Present, TypeOK
  <2>3. CASE Accepts(r, t)
    <3>1. req'[r] = [req[r] EXCEPT !.at = "accepted", !.token = t]
      BY <1>2, <2>3 DEF Present, TypeOK
    <3>2. req'[r].pk = req[r].pk /\ req'[r].gone = req[r].gone /\ req'[r].token = t
      BY <2>1, <3>1 DEF Request
    <3> QED BY <1>a, <2>1, <2>2, <2>3, <3>2 DEF Accepts, RequestsFit
  <2>4. CASE ~Accepts(r, t)
    BY <1>a, <1>2, <2>2, <2>4 DEF Present, TypeOK, NoRequest
  <2> QED BY <2>3, <2>4
<1>3. ASSUME NEW r \in Requests, Login(r) \/ Answer(r) PROVE RequestsFit'
  <2>1. req'[r].at = "idle" /\ \A q \in Requests \ {r} : req'[q] = req[q]
    BY <1>3 DEF Login, Answer, TypeOK, NoRequest
  <2> QED BY <1>a, <2>1
<1>4. ASSUME NEW o \in Operators, Begin(o) \/ Continue(o) \/ Die(o) PROVE req' = req
  BY <1>4 DEF Begin, BeginCreate, BeginDelete, BeginSave, BeginEdit, Continue, InsertTenant,
     CreateSchema, Migrate, MigrateFails, UndoSchema, Confirm, DropSchema, DeleteDomains,
     DeleteTenant, Demote, SaveDomain, SaveTenant, Die
<1> QED BY <1>0, <1>1, <1>2, <1>3, <1>4 DEF Next, Serve, AddTenant, RemoveDomain, vars

LEMMA StepCInv == CInv /\ [Next]_vars => CInv'
<1> SUFFICES ASSUME CInv, [Next]_vars PROVE CInv'
  OBVIOUS
<1>1. TypeOK'
  BY TypeStep DEF CInv
<1> QED BY <1>1, HoldStep, RowsStep, SavesStep, SchemasStep, RequestsStep DEF CInv

\* The inductive invariant, over every state of every behaviour.
THEOREM Invariance == Spec => []CInv
  BY InitCInv, StepCInv, PTL DEF Spec

\* The tables, operators and requests keep the values of their types.
THEOREM TypeCorrect == Spec => []TypeOK
<1>1. CInv => TypeOK
  BY DEF CInv
<1> QED BY <1>1, Invariance, PTL

\* Rows and Postgres schemas agree but while a command is at work on the name, or
\* after one died on it or was overtaken.
THEOREM CatalogueMatches == Spec => []SchemasMatchRows
<1>1. CInv => SchemasMatchRows
  <2> SUFFICES ASSUME CInv, NEW s \in Schemas \ disturbed, ~Busy(s)
               PROVE  /\ Owned(s) => schema[s] = "whole"
                      /\ schema[s] # "absent" => Owned(s) \/ s \in kept
    BY DEF SchemasMatchRows
  <2>1. SchemaFits(s) /\ schema[s] \in {"absent", "partial", "whole"}
    BY DEF CInv, SchemasFit, TypeOK
  <2>2. ~Migrating(s) /\ ~Creating(s) /\ ~Deleting(s)
    BY DEF Busy, Migrating, Creating, Deleting
  <2> QED BY <2>1, <2>2 DEF SchemaFits
<1> QED BY <1>1, Invariance, PTL

\* A deleted tenant's tokens open no later request, whoever has its schema by then.
THEOREM TokensDie == Spec => []TokensDieWithTenant
<1>1. CInv => TokensDieWithTenant
  BY DEF CInv, RequestsFit, TokensDieWithTenant
<1> QED BY <1>1, Invariance, PTL

\* Saves of a tenant's domains that do not overlap leave it one primary domain.
THEOREM PrimaryIsUnique == Spec => []OnePrimary
<1>1. CInv => OnePrimary
  BY DEF CInv, SavesFit, SavesOf, OnePrimary
<1> QED BY <1>1, Invariance, PTL

\* A command drops another tenant's schema only once its own tenant is deleted.
THEOREM DropsOwn == Spec => DropsItsOwnSchema
<1>1. ASSUME CInv, NEW o \in Operators, DropSchema(o) \/ UndoSchema(o), NEW p \in Pks,
             Owns(p, Name(o))
      PROVE  p = Pk(o) \/ Pk(o) \in deleted
  <2>1. Holds(o) /\ Pk(o) \in Pks
    BY <1>1 DEF CInv, Holds, DropSchema, UndoSchema
  <2>2. CASE Listed(Pk(o))
    BY <1>1, <2>1, <2>2 DEF CInv, RowsFit, Owns, Holds
  <2>3. CASE ~Listed(Pk(o))
    BY <1>1, <2>1, <2>3 DEF CInv, RowsFit, Holds
  <2> QED BY <2>2, <2>3
<1>2. CInv => \A o \in Operators : DropSchema(o) \/ UndoSchema(o) =>
         \A p \in Pks : Owns(p, Name(o)) => p = Pk(o) \/ Pk(o) \in deleted
  BY <1>1
<1> QED BY <1>2, Invariance, PTL DEF DropsItsOwnSchema
=============================================================================
