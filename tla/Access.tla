------------------------------- MODULE Access -------------------------------
(***************************************************************************)
(* Operators, tenants and the address pools: what a request may change.    *)
(*                                                                         *)
(* The mTLS middleware looks up the operator by the CN of the certificate  *)
(* (and registers the bootstrap CN on its first contact), refuses disabled *)
(* operators and revoked certificates, and stashes the operator's tenants  *)
(* on the request.  The handler that runs later decides from that stash,   *)
(* reads what it needs and commits; nothing locks the rows in between.     *)
(* The CLI works on the same tables without the middleware.                *)
(*                                                                         *)
(* A CIDR is the set of the address blocks it covers.                      *)
(***************************************************************************)
EXTENDS Integers, FiniteSets

CONSTANTS
    Operator,     \* CNs
    Bootstrap,    \* AUTH_BOOTSTRAP_OPERATOR_CN
    Tenant,       \* tenants, by slug
    Default,      \* the tenant with id 1
    NoTenant,     \* no tenant_id in the body
    Server,       \* server ids
    Cidr,         \* the CIDRs in use, as sets of blocks
    DefaultPool,  \* 10.0.0.0/8
    Request,      \* concurrent API requests
    Shell,        \* concurrent wg-manager commands
    Limit         \* bound on each kind of rare event, see Rare

Worker == Request \cup Shell
Rare   == {"request", "patch", "default", "dberror", "member", "add", "disable", "revoke"}

ASSUME AccessAssumption ==
    /\ Bootstrap \in Operator /\ Default \in Tenant /\ NoTenant \notin Tenant
    /\ DefaultPool \in Cidr /\ {} \notin Cidr
    /\ Request \cap Shell = {}
    /\ Limit \in [Rare -> Nat]

VARIABLES
    status,  \* Operator.status of the row with each CN, "none" for no row
    role,    \* Operator.role
    member,  \* OperatorTenant.role of each pair, NoRole for no row
    barred,  \* operators whose certificate's row is revoked
    pool,    \* Tenant.subnet_pool, NoPool for no row
    server,  \* Server.tenant_id and Server.subnet
    req,     \* what each request or command knows and is about to do
    strangers, \* ghost: CNs that were told "operator not registered"
    raced,   \* ghost: a tenant was written between the check of another and its commit
    used     \* rare events so far

vars == <<status, role, member, barred, pool, server, req, strangers, raced, used>>

Role   == {"admin", "operator", "auditor"}
NoRole == "none"
NoPool == {}
Nobody == [t \in Tenant |-> NoRole]

NoServer == [tenant |-> NoTenant, subnet |-> {}]

\* idle; missing: no row for the bootstrap CN; found: row read; admitted: past
\* the middleware; register, create, patch: checks passed, about to commit.
Progress == {"idle", "missing", "found", "admitted", "register", "create", "patch"}

\* status, super and roles are the stash; held (ghost) the memberships when it was
\* taken; seen (ghost) the pools when a tenant's pool was checked.
Idle == [pc |-> "idle", who |-> Bootstrap, status |-> "none", super |-> FALSE,
         roles |-> Nobody, held |-> Nobody, tenant |-> NoTenant, cidr |-> NoPool,
         seen |-> [t \in Tenant |-> NoPool]]

Existing == {t \in Tenant : pool[t] # NoPool}

TypeOK ==
    /\ status \in [Operator -> {"none", "active", "disabled"}]
    /\ role \in [Operator -> Role]
    /\ member \in [Operator -> [Tenant -> Role \cup {NoRole}]]
    /\ barred \subseteq Operator
    /\ pool \in [Tenant -> Cidr \cup {NoPool}]
    /\ server \in [Server -> [tenant : Tenant \cup {NoTenant}, subnet : Cidr \cup {NoPool}]]
    /\ req \in [Worker -> [pc : Progress, who : Operator,
                           status : {"none", "active", "disabled"}, super : BOOLEAN,
                           roles : [Tenant -> Role \cup {NoRole}],
                           held : [Tenant -> Role \cup {NoRole}],
                           tenant : Tenant \cup {NoTenant}, cidr : Cidr \cup {NoPool},
                           seen : [Tenant -> Cidr \cup {NoPool}]]]
    /\ strangers \subseteq Operator
    /\ raced \in BOOLEAN
    /\ used \in [Rare -> Nat]

\* After the migrations: the default tenant, no operator, no server.
Init ==
    /\ status = [o \in Operator |-> "none"]
    /\ role = [o \in Operator |-> "operator"]
    /\ member = [o \in Operator |-> Nobody]
    /\ barred = {}
    /\ pool = [t \in Tenant |-> IF t = Default THEN DefaultPool ELSE NoPool]
    /\ server = [s \in Server |-> NoServer]
    /\ req = [w \in Worker |-> Idle]
    /\ strangers = {}
    /\ raced = FALSE
    /\ used = [m \in Rare |-> 0]

Spend(m) == /\ used[m] < Limit[m]
            /\ used' = [used EXCEPT ![m] = @ + 1]

\* The request is over.
End(w) == req' = [req EXCEPT ![w] = Idle]

optables  == <<status, role, member, barred>>
resources == <<pool, server, raced>>

(***************************************************************************)
(* MTLSAuthMiddleware                                                      *)
(***************************************************************************)

\* The detached copy of the operator's row.
Snapshot(o, st, ro) == [Idle EXCEPT !.pc = "found", !.who = o, !.status = st, !.super = ro = "admin"]

ResolveOperator(r, o) ==
    /\ req[r].pc = "idle"
    /\ \/ /\ status[o] # "none"
          /\ req' = [req EXCEPT ![r] = Snapshot(o, status[o], role[o])]
          /\ UNCHANGED strangers
       \/ /\ status[o] = "none" /\ o = Bootstrap
          /\ req' = [req EXCEPT ![r] = [Idle EXCEPT !.pc = "missing", !.who = o]]
          /\ UNCHANGED strangers
       \/ /\ status[o] = "none" /\ o # Bootstrap
          /\ strangers' = strangers \cup {o}
          /\ End(r)
    /\ Spend("request")
    /\ UNCHANGED <<optables, resources>>

\* Mutant: the loser of the race reads again in its old snapshot.
LoserSeesNothing(r) ==
    /\ req[r].pc = "missing"
    /\ LET o == req[r].who
       IN  IF status[o] = "none"
           THEN /\ status' = [status EXCEPT ![o] = "active"]
                /\ role' = [role EXCEPT ![o] = "admin"]
                /\ req' = [req EXCEPT ![r] = Snapshot(o, "active", "admin")]
                /\ UNCHANGED strangers
           ELSE End(r) /\ strangers' = strangers \cup {o} /\ UNCHANGED <<status, role>>
    /\ UNCHANGED <<member, barred, resources, used>>

\* With auth_bootstrap_operator_role at its default, "admin"; a value that is no
\* role bootstraps nobody.
\* The row is inserted, or the unique CN says that another request was first:
\* roll back and read its row.
MaybeBootstrap(r) ==
    /\ req[r].pc = "missing"
    /\ LET o == req[r].who
       IN  IF status[o] = "none"
           THEN /\ status' = [status EXCEPT ![o] = "active"]
                /\ role' = [role EXCEPT ![o] = "admin"]
                /\ req' = [req EXCEPT ![r] = Snapshot(o, "active", "admin")]
           ELSE /\ req' = [req EXCEPT ![r] = Snapshot(o, status[o], role[o])]
                /\ UNCHANGED <<status, role>>
    /\ UNCHANGED <<member, barred, resources, strangers, used>>

\* A revoked row for the serial, as far as the lookup can tell.
SerialIsRevoked(r) == req[r].who \in barred

Refuse(r) ==
    /\ req[r].pc = "found"
    /\ req[r].status # "active" \/ SerialIsRevoked(r)
    /\ End(r)
    /\ UNCHANGED <<optables, resources, strangers, used>>

Admit(r, roles) ==
    req' = [req EXCEPT ![r].pc = "admitted", ![r].roles = roles, ![r].held = member[req[r].who]]

\* A registry that cannot be read counts as not revoked, memberships that cannot
\* be read as none.  The two lookups, each with a session of its own, are one
\* step, in which at most one of them fails.
Admitted(r) ==
    /\ req[r].pc = "found"
    /\ req[r].status = "active"
    /\ \/ ~SerialIsRevoked(r) /\ Admit(r, member[req[r].who]) /\ UNCHANGED used
       \/ Spend("dberror") /\ Admit(r, member[req[r].who])
       \/ ~SerialIsRevoked(r) /\ Spend("dberror") /\ Admit(r, Nobody)
    /\ UNCHANGED <<optables, resources, strangers>>

\* A command runs on the database with no operator.
StartCommand(c) ==
    /\ req[c].pc = "idle"
    /\ req' = [req EXCEPT ![c] = [Idle EXCEPT !.pc = "admitted", !.super = TRUE]]
    /\ Spend("request")
    /\ UNCHANGED <<optables, resources, strangers>>

(***************************************************************************)
(* Servers                                                                 *)
(***************************************************************************)

Writer == {"admin", "operator"}

\* Mutant: any membership will do.
AnyMember(w, t) == req[w].super \/ req[w].roles[t] # NoRole

\* require_tenant_role(scope, tenant_id, admin, operator)
MayWrite(w, t) == req[w].super \/ req[w].roles[t] \in Writer

\* The tenant of a new resource: the one named, or the default one for a
\* super-admin, or the only one of an operator.  None is a 403 or a 422.
CreateTenantOf(w, t) ==
    LET joined == {u \in Tenant : req[w].roles[u] # NoRole}
    IN  CASE t # NoTenant            -> {t}
          [] t = NoTenant /\ req[w].super -> {Default}
          [] OTHER                   -> IF Cardinality(joined) = 1 THEN joined ELSE {}

SubnetInPool(c, p) == c \subseteq p

CheckServer(r, body, c) ==
    /\ req[r].pc = "admitted"
    /\ \E t \in CreateTenantOf(r, body) \cap Existing :
         /\ MayWrite(r, t)
         /\ SubnetInPool(c, pool[t])
         /\ req' = [req EXCEPT ![r].pc = "register", ![r].tenant = t, ![r].cidr = c]
    /\ UNCHANGED <<optables, resources, strangers, used>>

InsertServer(r, s) ==
    /\ req[r].pc = "register"
    /\ server[s] = NoServer
    /\ server' = [server EXCEPT ![s] = [tenant |-> req[r].tenant, subnet |-> req[r].cidr]]
    /\ End(r)
    /\ UNCHANGED <<optables, pool, raced, strangers, used>>

\* 404 outside the scope, 403 with the wrong role.
DeleteServer(r, s) ==
    /\ req[r].pc = "admitted"
    /\ server[s] # NoServer
    /\ MayWrite(r, server[s].tenant)
    /\ server' = [server EXCEPT ![s] = NoServer]
    /\ End(r)
    /\ UNCHANGED <<optables, pool, raced, strangers, used>>

\* A read, or a handler that raises 403, 404, 409 or 422.
ReadOrReject(w) ==
    /\ req[w].pc = "admitted"
    /\ End(w)
    /\ UNCHANGED <<optables, resources, strangers, used>>

(***************************************************************************)
(* Tenants and memberships                                                 *)
(***************************************************************************)

\* Mutant: only a pool inside another one is refused, not one around it.
InsideOnly(p, q) == p \subseteq q

PoolsOverlap(p, q) == p \cap q # {}

RejectPoolOverlap(p, exclude) == \E u \in Existing \ exclude : PoolsOverlap(p, pool[u])

\* require_role(admin); a command needs no role.
RequireAdmin(w) == req[w].pc = "admitted" /\ req[w].super

\* A pool is checked only when the body names one; the column's default is not.
CheckTenant(w, t, p) ==
    /\ RequireAdmin(w)
    /\ t \notin Existing
    /\ IF p = NoPool THEN Spend("default")
                     ELSE ~RejectPoolOverlap(p, {}) /\ UNCHANGED used
    /\ req' = [req EXCEPT ![w].pc = "create", ![w].tenant = t, ![w].seen = pool,
                          ![w].cidr = IF p = NoPool THEN DefaultPool ELSE p]
    /\ UNCHANGED <<optables, resources, strangers>>

CheckPatch(r, t, p) ==
    /\ RequireAdmin(r)
    /\ t \in Existing
    /\ ~RejectPoolOverlap(p, {t})
    /\ Spend("patch")
    /\ req' = [req EXCEPT ![r].pc = "patch", ![r].tenant = t, ![r].cidr = p, ![r].seen = pool]
    /\ UNCHANGED <<optables, resources, strangers>>

\* The insert fails on the unique slug if another request was first.
CommitPool(w) ==
    /\ req[w].pc \in {"create", "patch"}
    /\ IF req[w].pc = "create" /\ req[w].tenant \in Existing
       THEN UNCHANGED <<pool, raced>>
       ELSE /\ pool' = [pool EXCEPT ![req[w].tenant] = req[w].cidr]
            /\ raced' = (raced \/ pool # req[w].seen)
    /\ End(w)
    /\ UNCHANGED <<optables, server, strangers, used>>

\* 404 for the tenant, 422 for the operator, 409 for the pair.
Attachable(o, t) == status[o] # "none" /\ t \in Existing /\ member[o][t] = NoRole

Attach(w, o, t, ro) ==
    /\ RequireAdmin(w)
    /\ Attachable(o, t)
    /\ Spend("member")
    /\ member' = [member EXCEPT ![o][t] = ro]
    /\ End(w)
    /\ UNCHANGED <<status, role, barred, resources, strangers>>

\* 404 for the tenant, the operator and the pair alike.
Detachable(o, t) == status[o] # "none" /\ t \in Existing /\ member[o][t] # NoRole

Detach(w, o, t) ==
    /\ RequireAdmin(w)
    /\ Detachable(o, t)
    /\ Spend("member")
    /\ member' = [member EXCEPT ![o][t] = NoRole]
    /\ End(w)
    /\ UNCHANGED <<status, role, barred, resources, strangers>>

OperatorsAdd(c, o, ro) ==
    /\ req[c].pc = "admitted"
    /\ status[o] = "none"
    /\ Spend("add")
    /\ status' = [status EXCEPT ![o] = "active"]
    /\ role' = [role EXCEPT ![o] = ro]
    /\ End(c)
    /\ UNCHANGED <<member, barred, resources, strangers>>

\* Nothing in the repository disables an operator: an administrator updates the row.
Disable(o) ==
    /\ status[o] = "active"
    /\ Spend("disable")
    /\ status' = [status EXCEPT ![o] = "disabled"]
    /\ UNCHANGED <<role, member, barred, resources, req, strangers>>

\* The flag of the operator's certificate is set, see Flip in Certs.
RevokeCertificate(o) ==
    /\ Spend("revoke")
    /\ barred' = barred \cup {o}
    /\ UNCHANGED <<status, role, member, resources, req, strangers>>

Next ==
    \/ \E r \in Request, o \in Operator : ResolveOperator(r, o)
    \/ \E r \in Request : MaybeBootstrap(r) \/ Refuse(r) \/ Admitted(r)
    \/ \E c \in Shell : StartCommand(c)
    \/ \E r \in Request, t \in Tenant \cup {NoTenant}, c \in Cidr : CheckServer(r, t, c)
    \/ \E r \in Request, s \in Server : InsertServer(r, s) \/ DeleteServer(r, s)
    \/ \E w \in Worker : ReadOrReject(w) \/ CommitPool(w)
    \/ \E w \in Worker, t \in Tenant, p \in Cidr \cup {NoPool} : CheckTenant(w, t, p)
    \/ \E r \in Request, t \in Tenant, p \in Cidr : CheckPatch(r, t, p)
    \/ \E w \in Worker, o \in Operator, t \in Tenant :
          \/ \E ro \in Role : Attach(w, o, t, ro)
          \/ Detach(w, o, t)
    \/ \E c \in Shell, o \in Operator, ro \in Role : OperatorsAdd(c, o, ro)
    \/ \E o \in Operator : Disable(o) \/ RevokeCertificate(o)

Spec == Init /\ [][Next]_vars

(***************************************************************************)
(* Properties                                                              *)
(***************************************************************************)

\* "so both requests succeed": however many first requests of the bootstrap CN
\* race, none is told that the operator is not registered.
BootstrapIsKnown == Bootstrap \notin strangers

\* A request writes only into a tenant whose admin or operator its caller was
\* when it was admitted; a detach, a new membership or a lost lookup in between
\* changes nothing of that.
ScopedWrites ==
    [][\A s \in Server :
          server'[s] # server[s] =>
              LET t == IF server'[s] = NoServer THEN server[s].tenant ELSE server'[s].tenant
              IN  \E r \in Request :
                     /\ req[r] # Idle /\ req'[r] = Idle
                     /\ req[r].super \/ req[r].held[t] \in Writer]_vars

\* Pools of two tenants overlap only when one took the unchecked default or when
\* two writes of pools raced: _reject_pool_overlap sees every other pool, also
\* those that were changed.
PoolsDisjoint ==
    used["default"] = 0 /\ ~raced =>
        \A t, u \in Existing : t # u => pool[t] \cap pool[u] = {}

\* Then servers of two tenants have no address in common, as long as no pool was
\* moved away from under a server.
AddressesDisjoint ==
    used["default"] = 0 /\ ~raced /\ used["patch"] = 0 =>
        \A s, z \in Server :
            server[s].tenant # server[z].tenant => server[s].subnet \cap server[z].subnet = {}
=============================================================================
