-------------------------- MODULE TenantCatalogue --------------------------
(***************************************************************************)
(* The tenant catalogue (Tenant and Domain rows in the public schema), the   *)
(* Postgres schemas it describes and the hostnames it routes, under the      *)
(* commands tenant_create, tenant_delete and tenant_domain_add, the control  *)
(* plane's admin pages and the requests that arrive meanwhile.               *)
(*                                                                         *)
(* A schema is created, migrated and dropped outside the transactions of    *)
(* the rows, so rows and schemas can disagree; who reads a row and acts     *)
(* later may find another tenant under its name.  The public tenant is       *)
(* registered once and cannot be deleted, and is left out; slugs are unique  *)
(* as schema names are, and are left out with them.                         *)
(***************************************************************************)

CONSTANTS
    Schemas,    \* schema names
    Hosts,      \* hostnames, folded to lower case
    Pks,        \* bound on the primary keys, which are never used twice
    Operators,  \* management commands and control-plane requests
    Requests,   \* tenants' requests
    NoTenant, NoDomain, NoPk, NoHost, NoSchema, NoToken

ASSUME CatalogueAssumption ==
    /\ NoPk \notin Pks /\ NoHost \notin Hosts /\ NoSchema \notin Schemas
    /\ NoTenant \notin [schema : Schemas, active : BOOLEAN]
    /\ NoDomain \notin [pk : Pks, primary : BOOLEAN]

VARIABLES
    tenant,    \* the Tenant row of each primary key
    domain,    \* the Domain row of each hostname
    schema,    \* Postgres: "absent", "partial" (not migrated through) or "whole"
    used,      \* primary keys the sequence has given out
    op,        \* what each operator is doing
    req,       \* what each request is doing
    tokens,    \* access tokens minted: the tenant and the schema they name
    deleted,   \* history: tenants whose row was deleted and not put back
    kept,      \* history: schemas left in place by a deletion
    disturbed, \* history: schemas on which a command died half-way, or was
               \* overtaken by another one between reading a row and acting
    raced      \* history: tenants that had two of their domains saved at once

vars == <<tenant, domain, schema, used, op, req, tokens, deleted, kept, disturbed, raced>>
rows == <<tenant, domain, used>>
history == <<deleted, kept, disturbed, raced>>
requests == <<req, tokens>>

Rows == [schema : Schemas, active : BOOLEAN]
Domains == [pk : Pks, primary : BOOLEAN]
Tokens == [tid : Pks, sch : Schemas]

Listed(p) == tenant[p] # NoTenant
Owns(p, s) == Listed(p) /\ tenant[p].schema = s
Owned(s) == \E p \in Pks : Owns(p, s)
HostsOf(p) == {h \in Hosts : domain[h] # NoDomain /\ domain[h].pk = p}
Primaries(p) == {h \in HostsOf(p) : domain[h].primary}

Stages == {"idle",
           "checked", "inserted", "migrating", "undo",  \* tenant_create
           "prompt", "drop", "cascade", "delete",       \* tenant_delete
           "save", "insert",                            \* a domain is saved
           "form"}                                      \* a tenant is edited

Request == [at : {"routed", "accepted"}, pk : Pks, schema : Schemas,
            token : Tokens \union {NoToken}, gone : SUBSET Pks]
NoRequest == [at |-> "idle"]

\* The tenant an operator has in hand with its schema, the domain it saves and
\* whether as the primary one, whether it drops the schema, and the hosts its
\* last query saw.
Operation == [at : Stages, pk : Pks \union {NoPk}, schema : Schemas \union {NoSchema},
              host : Hosts \union {NoHost}, primary : BOOLEAN, drop : BOOLEAN,
              new : BOOLEAN, seen : SUBSET Hosts]
Idle == [at |-> "idle", pk |-> NoPk, schema |-> NoSchema, host |-> NoHost,
         primary |-> FALSE, drop |-> FALSE, new |-> FALSE, seen |-> {}]

At(o) == op[o].at
Pk(o) == op[o].pk
Name(o) == op[o].schema
Goto(o, stage) == op' = [op EXCEPT ![o].at = stage]
Start(o, operation) == At(o) = "idle" /\ op' = [op EXCEPT ![o] = operation]
Finish(o) == op' = [op EXCEPT ![o] = Idle]
Disturb(s) == disturbed' = disturbed \union {s}

\* Rows and schemas of s disagree as long as one of these is under way.
Busy(s) == \E o \in Operators :
    Name(o) = s /\ At(o) \in {"inserted", "migrating", "undo", "cascade", "delete"}

-----------------------------------------------------------------------------
(***************************************************************************)
(* tenant_create.                                                          *)
(***************************************************************************)

\* The command's own checks: no row has the schema, no domain the host and the
\* database has no such schema.  With --if-not-exists it stops at the first.
BeginCreate(o, s, h) ==
    /\ ~Owned(s) /\ domain[h] = NoDomain /\ schema[s] = "absent"
    /\ Start(o, [Idle EXCEPT !.at = "checked", !.schema = s, !.host = h,
                             !.primary = TRUE, !.new = TRUE])
    /\ UNCHANGED <<rows, schema, requests, history>>

\* Mutant: the schema name is not unique in the catalogue.
InsertTenantTwice(o) ==
    /\ At(o) = "checked"
    /\ \E p \in Pks \ used :
          /\ used' = used \union {p}
          /\ tenant' = [tenant EXCEPT ![p] = [schema |-> Name(o), active |-> TRUE]]
          /\ op' = [op EXCEPT ![o].at = "inserted", ![o].pk = p]
    /\ UNCHANGED <<domain, schema, requests, history>>

\* tenant.save() inserts and commits the row, if schema_name is still unique.
InsertTenant(o) ==
    /\ At(o) = "checked"
    /\ \/ /\ Owned(Name(o))
          /\ Finish(o)
          /\ UNCHANGED rows
       \/ /\ ~Owned(Name(o))
          /\ \E p \in Pks \ used :
                /\ used' = used \union {p}
                /\ tenant' = [tenant EXCEPT ![p] = [schema |-> Name(o), active |-> TRUE]]
                /\ op' = [op EXCEPT ![o].at = "inserted", ![o].pk = p]
          /\ UNCHANGED domain
    /\ UNCHANGED <<schema, requests, history>>

\* create_schema(check_if_exists=True): a schema that is there is taken as it is.
CreateSchema(o) ==
    /\ At(o) = "inserted"
    /\ IF schema[Name(o)] = "absent"
       THEN schema' = [schema EXCEPT ![Name(o)] = "partial"] /\ Goto(o, "migrating")
       ELSE UNCHANGED schema /\ Goto(o, "save")
    /\ disturbed' = IF Owns(Pk(o), Name(o)) /\ schema[Name(o)] = "absent" THEN disturbed
                    ELSE disturbed \union {Name(o)}
    /\ UNCHANGED <<rows, requests, deleted, kept, raced>>

\* migrate_schemas runs through.
Migrate(o) ==
    /\ At(o) = "migrating" /\ schema[Name(o)] # "absent"
    /\ schema' = [schema EXCEPT ![Name(o)] = "whole"]
    /\ Goto(o, "save")
    /\ IF Owns(Pk(o), Name(o)) THEN UNCHANGED disturbed ELSE Disturb(Name(o))
    /\ UNCHANGED <<rows, requests, deleted, kept, raced>>

\* It raises: the mixin drops the schema it was given and then deletes its row.
MigrateFails(o) ==
    /\ At(o) = "migrating"
    /\ Goto(o, "undo")
    /\ UNCHANGED <<rows, schema, requests, history>>

\* Mutant: a failed migration takes back the row only.
UndoRowOnly(o) ==
    /\ At(o) = "undo"
    /\ Goto(o, "cascade")
    /\ UNCHANGED <<rows, schema, requests, history>>

UndoSchema(o) ==
    /\ At(o) = "undo"
    /\ schema' = [schema EXCEPT ![Name(o)] = "absent"]
    /\ Goto(o, "cascade")
    /\ kept' = kept \ {Name(o)}
    /\ IF Owns(Pk(o), Name(o)) THEN UNCHANGED disturbed ELSE Disturb(Name(o))
    /\ UNCHANGED <<rows, requests, deleted, raced>>

-----------------------------------------------------------------------------
(***************************************************************************)
(* tenant_delete, and the control plane's deletion, which keeps the schema. *)
(***************************************************************************)

\* The row is read, and the operator asked to confirm.
BeginDelete(o, p, drop) ==
    /\ Listed(p)
    /\ Start(o, [Idle EXCEPT !.at = "prompt", !.pk = p, !.drop = drop,
                             !.schema = tenant[p].schema])
    /\ UNCHANGED <<rows, schema, requests, history>>

Confirm(o) ==
    /\ At(o) = "prompt"
    /\ IF op[o].drop THEN Goto(o, "drop") ELSE Goto(o, "cascade")
    /\ UNCHANGED <<rows, schema, requests, history>>

\* DROP SCHEMA by name, in a transaction of its own.
DropSchema(o) ==
    /\ At(o) = "drop"
    /\ schema' = [schema EXCEPT ![Name(o)] = "absent"]
    /\ Goto(o, "cascade")
    /\ kept' = kept \ {Name(o)}
    /\ IF Owns(Pk(o), Name(o)) THEN UNCHANGED disturbed ELSE Disturb(Name(o))
    /\ UNCHANGED <<rows, requests, deleted, raced>>

\* The transaction of Model.delete(): the tenant's domains, as they are now,
\* then its row; a domain added in between fails the foreign key and the whole.
DeleteDomains(o) ==
    /\ At(o) = "cascade"
    /\ op' = [op EXCEPT ![o].at = "delete", ![o].seen = HostsOf(Pk(o))]
    /\ UNCHANGED <<rows, schema, requests, history>>
DeleteTenant(o) ==
    /\ At(o) = "delete"
    /\ Finish(o)
    /\ IF HostsOf(Pk(o)) \subseteq op[o].seen
       THEN /\ tenant' = [tenant EXCEPT ![Pk(o)] = NoTenant]
            /\ domain' = [h \in Hosts |-> IF h \in HostsOf(Pk(o)) THEN NoDomain
                                          ELSE domain[h]]
            /\ kept' = IF Listed(Pk(o)) /\ schema[Name(o)] = "whole"
                       THEN kept \union {Name(o)} ELSE kept
            /\ deleted' = deleted \union {Pk(o)}
            /\ UNCHANGED disturbed
       ELSE /\ UNCHANGED <<tenant, domain, kept, deleted>>
            /\ IF schema[Name(o)] = "absent" THEN Disturb(Name(o))
               ELSE UNCHANGED disturbed
    /\ UNCHANGED <<schema, used, requests, raced>>

-----------------------------------------------------------------------------
(***************************************************************************)
(* DomainMixin.save, for tenant_domain_add, the first domain of             *)
(* tenant_create and the control plane.                                     *)
(***************************************************************************)

\* tenant_domain_add reads the tenant and finds the host free; the control plane
\* saves a domain that exists, too, for its tenant or for another one.
BeginSave(o, p, h, primary) ==
    /\ Listed(p)
    /\ Start(o, [Idle EXCEPT !.at = "save", !.pk = p, !.schema = tenant[p].schema,
                             !.host = h, !.primary = primary,
                             !.new = domain[h] = NoDomain])
    /\ UNCHANGED <<rows, schema, requests, history>>

\* The transaction's queries: the tenant's other primary domains, and with none
\* of them this one is primary.  They see what is committed now.
Demote(o) ==
    LET others == Primaries(Pk(o)) \ {op[o].host} IN
    /\ At(o) = "save"
    /\ op' = [op EXCEPT ![o].at = "insert", ![o].seen = others,
                        ![o].primary = op[o].primary \/ others = {}]
    /\ raced' = IF \E q \in Operators \ {o} : At(q) = "insert" /\ Pk(q) = Pk(o)
                THEN raced \union {Pk(o)} ELSE raced
    /\ UNCHANGED <<rows, schema, requests, deleted, kept, disturbed>>

\* Its commit: the hostname is unique, the tenant must still be there.
Saved(o) == Listed(Pk(o)) /\ (op[o].new => domain[op[o].host] = NoDomain)

\* Mutant: the other primary domains stay primary.
SaveBesideOthers(o) ==
    /\ At(o) = "insert"
    /\ Finish(o)
    /\ domain' = IF ~Saved(o) THEN domain
                 ELSE [domain EXCEPT ![op[o].host] = [pk |-> Pk(o), primary |-> op[o].primary]]
    /\ UNCHANGED <<tenant, used, schema, requests, history>>

SaveDomain(o) ==
    /\ At(o) = "insert"
    /\ Finish(o)
    /\ domain' =
          IF ~Saved(o) THEN domain
          ELSE [h \in Hosts |->
                   IF h = op[o].host THEN [pk |-> Pk(o), primary |-> op[o].primary]
                   ELSE IF op[o].primary /\ h \in op[o].seen \intersect HostsOf(Pk(o))
                   THEN [domain[h] EXCEPT !.primary = FALSE] ELSE domain[h]]
    /\ UNCHANGED <<tenant, used, schema, requests, history>>

-----------------------------------------------------------------------------
(***************************************************************************)
(* The control plane's other pages.                                        *)
(***************************************************************************)

\* A tenant and its first domain are added in one transaction, DDL included; a
\* schema of that name that is there already is taken as it is.
AddTenant(s, h) ==
    /\ ~Owned(s) /\ domain[h] = NoDomain
    /\ \E p \in Pks \ used :
          /\ used' = used \union {p}
          /\ tenant' = [tenant EXCEPT ![p] = [schema |-> s, active |-> TRUE]]
          /\ domain' = [domain EXCEPT ![h] = [pk |-> p, primary |-> TRUE]]
    /\ schema' = IF schema[s] = "absent" THEN [schema EXCEPT ![s] = "whole"] ELSE schema
    /\ kept' = kept \ {s}
    /\ UNCHANGED <<op, requests, deleted, disturbed, raced>>

\* The change form loads the row and saves all of it; a row that was deleted in
\* between is inserted again, unless the schema name is taken by now.
BeginEdit(o, p) ==
    /\ Listed(p)
    /\ Start(o, [Idle EXCEPT !.at = "form", !.pk = p, !.schema = tenant[p].schema])
    /\ UNCHANGED <<rows, schema, requests, history>>
SaveTenant(o) ==
    /\ At(o) = "form"
    /\ Finish(o)
    /\ IF Listed(Pk(o)) \/ ~Owned(Name(o))
       THEN /\ deleted' = deleted \ {Pk(o)}
            /\ \E active \in BOOLEAN :
                  tenant' = [tenant EXCEPT ![Pk(o)] = [schema |-> Name(o), active |-> active]]
       ELSE UNCHANGED <<tenant, deleted>>
    /\ IF Listed(Pk(o)) THEN UNCHANGED disturbed ELSE Disturb(Name(o))
    /\ UNCHANGED <<domain, used, schema, requests, kept, raced>>

RemoveDomain(h) ==
    /\ domain' = [domain EXCEPT ![h] = NoDomain]
    /\ UNCHANGED <<tenant, used, schema, op, requests, history>>

\* An operator dies, or answers no at the prompt: open transactions roll back.
Die(o) ==
    /\ At(o) # "idle"
    /\ Finish(o)
    /\ IF Busy(Name(o)) THEN Disturb(Name(o)) ELSE UNCHANGED disturbed
    /\ UNCHANGED <<rows, schema, requests, deleted, kept, raced>>

-----------------------------------------------------------------------------
(***************************************************************************)
(* A tenant's requests.                                                    *)
(***************************************************************************)

\* TenantMainMiddleware: the host's tenant, if it is not suspended.
Routed(h) == /\ domain[h] # NoDomain
             /\ Listed(domain[h].pk) /\ tenant[domain[h].pk].active
Resolve(h) == domain[h].pk

\* gone: a history of the tenants that were deleted at this time.
Arrive(r, h) ==
    /\ req[r].at = "idle" /\ Routed(h)
    /\ req' = [req EXCEPT ![r] =
                  [at |-> "routed", pk |-> Resolve(h), schema |-> tenant[Resolve(h)].schema,
                   token |-> NoToken, gone |-> deleted]]
    /\ UNCHANGED <<rows, schema, op, tokens, history>>

\* A login mints for the tenant of the request and the schema of its connection.
Login(r) ==
    /\ req[r].at = "routed"
    /\ tokens' = tokens \union {[tid |-> req[r].pk, sch |-> req[r].schema]}
    /\ req' = [req EXCEPT ![r] = NoRequest]
    /\ UNCHANGED <<rows, schema, op, history>>

\* Mutant: without assert_tenant_binding.
AcceptsBySchema(r, t) == t.sch = req[r].schema

\* assert_schema_binding, then assert_tenant_binding.
Accepts(r, t) == t.sch = req[r].schema /\ t.tid = req[r].pk
Present(r, t) ==
    /\ req[r].at = "routed"
    /\ req' = [req EXCEPT ![r] = IF Accepts(r, t) THEN [@ EXCEPT !.at = "accepted", !.token = t]
                                 ELSE NoRequest]
    /\ UNCHANGED <<rows, schema, op, tokens, history>>

Answer(r) ==
    /\ req[r].at = "accepted"
    /\ req' = [req EXCEPT ![r] = NoRequest]
    /\ UNCHANGED <<rows, schema, op, tokens, history>>

-----------------------------------------------------------------------------
Init ==
    /\ tenant = [p \in Pks |-> NoTenant]
    /\ domain = [h \in Hosts |-> NoDomain]
    /\ schema = [s \in Schemas |-> "absent"]
    /\ used = {} /\ tokens = {} /\ deleted = {} /\ kept = {} /\ disturbed = {} /\ raced = {}
    /\ op = [o \in Operators |-> Idle]
    /\ req = [r \in Requests |-> NoRequest]

Begin(o) ==
    \/ \E s \in Schemas, h \in Hosts : BeginCreate(o, s, h)
    \/ \E p \in Pks, drop \in BOOLEAN : BeginDelete(o, p, drop)
    \/ \E p \in Pks, h \in Hosts, primary \in BOOLEAN : BeginSave(o, p, h, primary)
    \/ \E p \in Pks : BeginEdit(o, p)

Continue(o) ==
    \/ InsertTenant(o) \/ CreateSchema(o) \/ Migrate(o) \/ MigrateFails(o)
    \/ UndoSchema(o) \/ Confirm(o) \/ DropSchema(o) \/ DeleteDomains(o)
    \/ DeleteTenant(o) \/ Demote(o) \/ SaveDomain(o) \/ SaveTenant(o)

Serve(r) ==
    \/ \E h \in Hosts : Arrive(r, h)
    \/ \E t \in tokens : Present(r, t)
    \/ Login(r) \/ Answer(r)

Next ==
    \/ \E o \in Operators : Begin(o) \/ Continue(o) \/ Die(o)
    \/ \E s \in Schemas, h \in Hosts : AddTenant(s, h)
    \/ \E h \in Hosts : RemoveDomain(h)
    \/ \E r \in Requests : Serve(r)

Spec == Init /\ [][Next]_vars

-----------------------------------------------------------------------------

\* Rows, schemas, operators and requests have the values they can have.
TypeOK ==
    /\ tenant \in [Pks -> Rows \union {NoTenant}]
    /\ domain \in [Hosts -> Domains \union {NoDomain}]
    /\ schema \in [Schemas -> {"absent", "partial", "whole"}]
    /\ used \subseteq Pks
    /\ op \in [Operators -> Operation]
    /\ req \in [Requests -> Request \union {NoRequest}]
    /\ tokens \subseteq Tokens
    /\ deleted \subseteq Pks /\ kept \subseteq Schemas /\ disturbed \subseteq Schemas /\ raced \subseteq Pks

\* Rows and schemas agree: a tenant has a migrated schema, a schema has a tenant
\* or was left in place by a deletion, except while a creation or a deletion of
\* that name is under way, and after one that died or was overtaken.  A request
\* routed to a tenant without its schema would read the public schema's tables.
SchemasMatchRows ==
    \A s \in Schemas : Busy(s) \/ s \in disturbed \/
        /\ Owned(s) => schema[s] = "whole"
        /\ schema[s] # "absent" => Owned(s) \/ s \in kept

\* A token of a tenant that was deleted before the request arrived is refused,
\* also by a tenant created later under the same schema name, on the data the
\* deletion left in place.
TokensDieWithTenant ==
    \A r \in Requests : req[r].at = "accepted" => req[r].token.tid \notin req[r].gone

\* A tenant has two primary domains only after two saves of its domains overlapped.
OnePrimary ==
    \A p \in Pks \ raced : \A g, h \in Primaries(p) : g = h

\* The schema of a tenant in the catalogue is dropped by who has this tenant in
\* hand: another operator drops it only if its own tenant was deleted after it
\* had read it, which is how the name could change hands behind its back.
DropsItsOwnSchema ==
    [][\A o \in Operators : DropSchema(o) \/ UndoSchema(o) =>
          \A p \in Pks : Owns(p, Name(o)) => p = Pk(o) \/ Pk(o) \in deleted]_vars

-----------------------------------------------------------------------------
(***************************************************************************)
(* The inductive invariant.                                                *)
(***************************************************************************)

\* What an operator has in hand: the schema of its tenant, as long as that exists,
\* and the same schema as every other operator that has this tenant in hand.
Holds(o) ==
    /\ At(o) # "idle" => Name(o) \in Schemas
    /\ At(o) \notin {"idle", "checked"} => Pk(o) \in Pks
    /\ At(o) \in {"checked", "inserted", "migrating", "save", "insert"} => op[o].host \in Hosts
    /\ Pk(o) \in Pks => Pk(o) \in used
    /\ Pk(o) \in Pks /\ Listed(Pk(o)) => tenant[Pk(o)].schema = Name(o)
HoldTheSame == \A o, q \in Operators :
    Pk(o) \in Pks /\ Pk(o) = Pk(q) => Name(o) = Name(q)

\* Primary keys in rows, domains and histories come from the sequence; a schema
\* name is in one row; a deleted tenant has no row.
RowsFit ==
    /\ \A p \in Pks : Listed(p) => p \in used
    /\ \A h \in Hosts : domain[h] # NoDomain => domain[h].pk \in used
    /\ \A p \in deleted : p \in used /\ ~Listed(p)
    /\ \A p \in used : Listed(p) \/ p \in deleted
    /\ \A p, q \in Pks : Listed(p) /\ Listed(q) /\ tenant[p].schema = tenant[q].schema => p = q

\* What a save has seen of a tenant's primary domains is all there is of them,
\* unless another save of its domains overlapped.
SavesOf(p) ==
    /\ \A g, h \in Primaries(p) : g = h
    /\ \A o \in Operators : At(o) = "insert" /\ Pk(o) = p =>
          /\ Primaries(p) \ {op[o].host} \subseteq op[o].seen
          /\ \A q \in Operators : At(q) = "insert" /\ Pk(q) = p => q = o
SavesFit == \A p \in Pks \ raced : SavesOf(p)

\* Who explains that the schema s and the rows disagree.
Creating(s) == \E o \in Operators : Name(o) = s /\ At(o) \in {"inserted", "migrating", "undo"}
Migrating(s) == \E o \in Operators : Name(o) = s /\ At(o) \in {"migrating", "undo"}
Deleting(s) == \E o \in Operators :
    Name(o) = s /\ At(o) \in {"cascade", "delete"} /\ Owns(Pk(o), s)
SchemaFits(s) ==
    /\ schema[s] = "partial" => Migrating(s)
    /\ schema[s] = "absent" /\ Owned(s) => Creating(s) \/ Deleting(s)
    /\ schema[s] = "whole" /\ ~Owned(s) => s \in kept
SchemasFit == \A s \in Schemas \ disturbed : SchemaFits(s)

\* A request's tenant was in the catalogue when it arrived.
RequestsFit == \A r \in Requests : req[r].at # "idle" =>
    /\ req[r].pk \notin req[r].gone
    /\ req[r].at = "accepted" => req[r].token.tid = req[r].pk

\* What the commands and requests have in hand agrees with the rows, and the rows with
\* the schemas (tenant_create, tenant_delete, Domain.save, the routing).
CInv == /\ TypeOK /\ (\A o \in Operators : Holds(o)) /\ HoldTheSame /\ RowsFit
        /\ SavesFit /\ SchemasFit /\ RequestsFit
=============================================================================
