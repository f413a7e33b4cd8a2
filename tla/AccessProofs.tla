---------------------------- MODULE AccessProofs ----------------------------
(***************************************************************************)
(* Theorems about Access, for any operators, tenants, servers, pools and   *)
(* concurrent requests: its types; the first requests of the bootstrap CN  *)
(* are never turned away; every write is of somebody who was allowed to;   *)
(* and pools, and with them addresses, stay apart.                         *)
(***************************************************************************)
EXTENDS Access, TLAPS

USE DEF optables, resources

-----------------------------------------------------------------------------
(* Types *)

Working == [pc : Progress, who : Operator,
            status : {"none", "active", "disabled"}, super : BOOLEAN,
            roles : [Tenant -> Role \cup {NoRole}], held : [Tenant -> Role \cup {NoRole}],
            tenant : Tenant \cup {NoTenant}, cidr : Cidr \cup {NoPool},
            seen : [Tenant -> Cidr \cup {NoPool}]]

LEMMA IdleType == Idle \in Working
BY AccessAssumption DEF Idle, Working, Progress, Nobody

LEMMA SpendType ==
    ASSUME TypeOK, NEW m \in Rare, Spend(m)
    PROVE  used' \in [Rare -> Nat]
BY DEF TypeOK, Spend

LEMMA EndType ==
    ASSUME TypeOK, NEW w \in Worker, End(w)
    PROVE  req' \in [Worker -> Working]
BY IdleType DEF TypeOK, End, Working

LEMMA SnapshotType ==
    ASSUME NEW o \in Operator, NEW st \in {"none", "active", "disabled"}, NEW ro
    PROVE  Snapshot(o, st, ro) \in Working
BY AccessAssumption DEF Snapshot, Idle, Working, Progress, Nobody

LEMMA InitType == Init => TypeOK
<1>. SUFFICES ASSUME Init PROVE TypeOK
  OBVIOUS
<1>1. req \in [Worker -> Working]
  BY IdleType DEF Init
<1>2. pool \in [Tenant -> Cidr \cup {NoPool}]
  BY AccessAssumption DEF Init
<1>3. server \in [Server -> [tenant : Tenant \cup {NoTenant}, subnet : Cidr \cup {NoPool}]]
  BY DEF Init, NoServer, NoPool
<1>4. member \in [Operator -> [Tenant -> Role \cup {NoRole}]] /\ role \in [Operator -> Role]
  BY DEF Init, Nobody, Role
<1>. QED
  BY <1>1, <1>2, <1>3, <1>4 DEF Init, TypeOK, Working

\* The middleware.
LEMMA MiddlewareType ==
    ASSUME TypeOK, NEW r \in Worker,
           \/ \E o \in Operator : ResolveOperator(r, o)
           \/ MaybeBootstrap(r) \/ Refuse(r) \/ Admitted(r) \/ StartCommand(r)
    PROVE  TypeOK'
<1>0. req \in [Worker -> Working] /\ req[r] \in Working
  BY DEF TypeOK, Working
<1>1. ASSUME NEW o \in Operator, ResolveOperator(r, o) PROVE TypeOK'
  <2>1. req' \in [Worker -> Working] /\ strangers' \subseteq Operator
    <3>1. CASE req' = [req EXCEPT ![r] = Snapshot(o, status[o], role[o])] /\ UNCHANGED strangers
      BY <1>0, <3>1, SnapshotType DEF TypeOK
    <3>2. CASE req' = [req EXCEPT ![r] = [Idle EXCEPT !.pc = "missing", !.who = o]] /\ UNCHANGED strangers
      <4>1. [Idle EXCEPT !.pc = "missing", !.who = o] \in Working
        BY IdleType DEF Working, Progress
      <4>. QED
        BY <1>0, <3>2, <4>1 DEF TypeOK
    <3>3. CASE strangers' = strangers \cup {o} /\ End(r)
      BY <3>3, EndType DEF TypeOK
    <3>. QED
      BY <1>1, <3>1, <3>2, <3>3 DEF ResolveOperator
  <2>. QED
    BY <1>1, <2>1, SpendType DEF ResolveOperator, TypeOK, Rare, Working
<1>2. CASE MaybeBootstrap(r)
  <2>. DEFINE o == req[r].who
  <2>0. o \in Operator
    BY <1>0 DEF Working
  <2>1. CASE status[o] = "none"
    <3>1. /\ status' = [status EXCEPT ![o] = "active"]
          /\ role' = [role EXCEPT ![o] = "admin"]
          /\ req' = [req EXCEPT ![r] = Snapshot(o, "active", "admin")]
      BY <1>2, <2>1 DEF MaybeBootstrap
    <3>2. req' \in [Worker -> Working]
      BY <1>0, <2>0, <3>1, SnapshotType
    <3>. QED
      BY <1>2, <2>0, <3>1, <3>2 DEF MaybeBootstrap, TypeOK, Role, Working
  <2>2. CASE status[o] # "none"
    <3>1. /\ req' = [req EXCEPT ![r] = Snapshot(o, status[o], role[o])]
          /\ UNCHANGED <<status, role>>
      BY <1>2, <2>2 DEF MaybeBootstrap
    <3>2. status[o] \in {"none", "active", "disabled"}
      BY <2>0 DEF TypeOK
    <3>3. req' \in [Worker -> Working]
      BY <1>0, <2>0, <3>1, <3>2, SnapshotType
    <3>. QED
      BY <1>2, <3>1, <3>3 DEF MaybeBootstrap, TypeOK, Working
  <2>. QED
    BY <2>1, <2>2
<1>3. CASE Refuse(r)
  BY <1>3, EndType DEF Refuse, TypeOK, Working
<1>4. CASE Admitted(r)
  <2>1. PICK roles \in [Tenant -> Role \cup {NoRole}] : Admit(r, roles) /\ (UNCHANGED used \/ Spend("dberror"))
    BY <1>0, <1>4 DEF Admitted, TypeOK, Working, Nobody
  <2>2. member[req[r].who] \in [Tenant -> Role \cup {NoRole}]
    BY <1>0 DEF TypeOK, Working
  <2>3. req' \in [Worker -> Working]
    BY <1>0, <2>1, <2>2 DEF Admit, Working, Progress
  <2>. QED
    BY <1>4, <2>1, <2>3, SpendType DEF Admitted, TypeOK, Rare, Working
<1>5. CASE StartCommand(r)
  <2>1. [Idle EXCEPT !.pc = "admitted", !.super = TRUE] \in Working
    BY IdleType DEF Working, Progress
  <2>. QED
    BY <1>0, <1>5, <2>1, SpendType DEF StartCommand, TypeOK, Rare, Working
<1>. QED
  BY <1>1, <1>2, <1>3, <1>4, <1>5

\* The handlers.
LEMMA HandlerType ==
    ASSUME TypeOK, NEW w \in Worker,
           \/ \E t \in Tenant \cup {NoTenant}, c \in Cidr : CheckServer(w, t, c)
           \/ \E s \in Server : InsertServer(w, s) \/ DeleteServer(w, s)
           \/ ReadOrReject(w) \/ CommitPool(w)
           \/ \E t \in Tenant, p \in Cidr \cup {NoPool} : CheckTenant(w, t, p)
           \/ \E t \in Tenant, p \in Cidr : CheckPatch(w, t, p)
    PROVE  TypeOK'
<1>0. req \in [Worker -> Working] /\ req[w] \in Working
  BY DEF TypeOK, Working
<1>1. ASSUME NEW body, NEW c \in Cidr, CheckServer(w, body, c) PROVE TypeOK'
  <2>1. PICK t \in Existing : req' = [req EXCEPT ![w].pc = "register", ![w].tenant = t, ![w].cidr = c]
    BY <1>1 DEF CheckServer
  <2>2. req' \in [Worker -> Working]
    BY <1>0, <2>1 DEF Existing, Working, Progress
  <2>. QED
    BY <1>1, <2>2 DEF CheckServer, TypeOK, Working
<1>2. ASSUME NEW s \in Server, InsertServer(w, s) PROVE TypeOK'
  <2>1. req[w].tenant \in Tenant \cup {NoTenant} /\ req[w].cidr \in Cidr \cup {NoPool}
    BY <1>0 DEF Working
  <2>. QED
    BY <1>2, <2>1, EndType DEF InsertServer, TypeOK, Working
<1>3. ASSUME NEW s \in Server, DeleteServer(w, s) PROVE TypeOK'
  BY <1>3, EndType DEF DeleteServer, TypeOK, NoServer, NoPool, Working
<1>4. CASE ReadOrReject(w)
  BY <1>4, EndType DEF ReadOrReject, TypeOK, Working
<1>5. CASE CommitPool(w)
  <2>1. req[w].cidr \in Cidr \cup {NoPool}
    BY <1>0 DEF Working
  <2>. QED
    BY <1>5, <2>1, EndType DEF CommitPool, TypeOK, Working
<1>6. ASSUME NEW t \in Tenant, NEW p \in Cidr \cup {NoPool}, CheckTenant(w, t, p) PROVE TypeOK'
  <2>1. req' \in [Worker -> Working]
    <3>1. (IF p = NoPool THEN DefaultPool ELSE p) \in Cidr \cup {NoPool} /\ pool \in [Tenant -> Cidr \cup {NoPool}]
      BY AccessAssumption DEF TypeOK
    <3>. QED
      BY <1>0, <1>6, <3>1 DEF CheckTenant, Working, Progress
  <2>. QED
    BY <1>6, <2>1, SpendType DEF CheckTenant, TypeOK, Rare, Working
<1>7. ASSUME NEW t \in Tenant, NEW p \in Cidr, CheckPatch(w, t, p) PROVE TypeOK'
  <2>1. req' \in [Worker -> Working]
    <3>1. pool \in [Tenant -> Cidr \cup {NoPool}] /\ "patch" \in Progress
      BY DEF TypeOK, Progress
    <3>2. [req[w] EXCEPT !.pc = "patch", !.tenant = t, !.cidr = p, !.seen = pool] \in Working
      BY <1>0, <3>1 DEF Working
    <3>3. req' = [req EXCEPT ![w] = [req[w] EXCEPT !.pc = "patch", !.tenant = t, !.cidr = p, !.seen = pool]]
      BY <1>7 DEF CheckPatch
    <3>. QED
      BY <1>0, <3>2, <3>3
  <2>. QED
    BY <1>7, <2>1, SpendType DEF CheckPatch, TypeOK, Rare, Working
<1>. QED
  BY <1>1, <1>2, <1>3, <1>4, <1>5, <1>6, <1>7

\* Operators and memberships.
LEMMA RegistryType ==
    ASSUME TypeOK,
           \/ \E w \in Worker, o \in Operator, t \in Tenant :
                 (\E ro \in Role : Attach(w, o, t, ro)) \/ Detach(w, o, t)
           \/ \E c \in Worker, o \in Operator, ro \in Role : OperatorsAdd(c, o, ro)
           \/ \E o \in Operator : Disable(o) \/ RevokeCertificate(o)
    PROVE  TypeOK'
<1>1. ASSUME NEW w \in Worker, NEW o \in Operator, NEW t \in Tenant, NEW ro \in Role, Attach(w, o, t, ro)
      PROVE  TypeOK'
  BY <1>1, EndType, SpendType DEF Attach, TypeOK, Rare, Working
<1>2. ASSUME NEW w \in Worker, NEW o \in Operator, NEW t \in Tenant, Detach(w, o, t) PROVE TypeOK'
  BY <1>2, EndType, SpendType DEF Detach, TypeOK, Rare, Working
<1>3. ASSUME NEW c \in Worker, NEW o \in Operator, NEW ro \in Role, OperatorsAdd(c, o, ro) PROVE TypeOK'
  BY <1>3, EndType, SpendType DEF OperatorsAdd, TypeOK, Rare, Working
<1>4. ASSUME NEW o \in Operator, Disable(o) PROVE TypeOK'
  BY <1>4, SpendType DEF Disable, TypeOK, Rare
<1>5. ASSUME NEW o \in Operator, RevokeCertificate(o) PROVE TypeOK'
  BY <1>5, SpendType DEF RevokeCertificate, TypeOK, Rare
<1>. QED
  BY <1>1, <1>2, <1>3, <1>4, <1>5

LEMMA NextType == TypeOK /\ [Next]_vars => TypeOK'
<1>. SUFFICES ASSUME TypeOK, [Next]_vars PROVE TypeOK'
  OBVIOUS
<1>1. Request \subseteq Worker /\ Shell \subseteq Worker
  BY DEF Worker
<1>2. CASE UNCHANGED vars
  BY <1>2 DEF vars, TypeOK
<1>3. CASE Next
  BY <1>1, <1>3, MiddlewareType, HandlerType, RegistryType DEF Next
<1>. QED
  BY <1>2, <1>3

\* Every variable keeps its type.
THEOREM AccessTypeCorrect == Spec => []TypeOK
BY InitType, NextType, PTL DEF Spec

-----------------------------------------------------------------------------
(* The bootstrap operator *)

\* However many first requests race: whoever loses reads the winner's row.
THEOREM BootstrapNeverRefused == Spec => []BootstrapIsKnown
<1>1. Init => BootstrapIsKnown
  BY DEF Init, BootstrapIsKnown
<1>2. BootstrapIsKnown /\ [Next]_vars => BootstrapIsKnown'
  <2>. SUFFICES ASSUME BootstrapIsKnown, [Next]_vars PROVE BootstrapIsKnown'
    OBVIOUS
  <2>1. CASE \E r \in Request, o \in Operator : ResolveOperator(r, o)
    BY <2>1 DEF ResolveOperator, BootstrapIsKnown
  <2>2. CASE \E r \in Request : MaybeBootstrap(r) \/ Refuse(r) \/ Admitted(r)
    BY <2>2 DEF MaybeBootstrap, Refuse, Admitted, BootstrapIsKnown
  <2>3. CASE \E c \in Shell : StartCommand(c)
    BY <2>3 DEF StartCommand, BootstrapIsKnown
  <2>4. CASE \E r \in Request, t \in Tenant \cup {NoTenant}, c \in Cidr : CheckServer(r, t, c)
    BY <2>4 DEF CheckServer, BootstrapIsKnown
  <2>5. CASE \E r \in Request, s \in Server : InsertServer(r, s) \/ DeleteServer(r, s)
    BY <2>5 DEF InsertServer, DeleteServer, BootstrapIsKnown
  <2>6. CASE \E w \in Worker : ReadOrReject(w) \/ CommitPool(w)
    BY <2>6 DEF ReadOrReject, CommitPool, BootstrapIsKnown
  <2>7. CASE \E w \in Worker, t \in Tenant, p \in Cidr \cup {NoPool} : CheckTenant(w, t, p)
    BY <2>7 DEF CheckTenant, BootstrapIsKnown
  <2>8. CASE \E r \in Request, t \in Tenant, p \in Cidr : CheckPatch(r, t, p)
    BY <2>8 DEF CheckPatch, BootstrapIsKnown
  <2>9. CASE \E w \in Worker, o \in Operator, t \in Tenant :
                 (\E ro \in Role : Attach(w, o, t, ro)) \/ Detach(w, o, t)
    BY <2>9 DEF Attach, Detach, BootstrapIsKnown
  <2>10. CASE \E c \in Shell, o \in Operator, ro \in Role : OperatorsAdd(c, o, ro)
    BY <2>10 DEF OperatorsAdd, BootstrapIsKnown
  <2>11. CASE \E o \in Operator : Disable(o) \/ RevokeCertificate(o)
    BY <2>11 DEF Disable, RevokeCertificate, BootstrapIsKnown
  <2>12. CASE UNCHANGED vars
    BY <2>12 DEF vars, BootstrapIsKnown
  <2>. QED
    BY <2>1, <2>2, <2>3, <2>4, <2>5, <2>6, <2>7, <2>8, <2>9, <2>10, <2>11, <2>12 DEF Next
<1>. QED
  BY <1>1, <1>2, PTL DEF Spec

-----------------------------------------------------------------------------
(* Who writes *)

\* What a request may go by: the memberships its caller had when it was admitted,
\* or none; and what it is about to write was checked against them.
Entitled(r) ==
    /\ req[r].pc \in {"admitted", "register"} =>
          \A t \in Tenant : req[r].roles[t] = req[r].held[t] \/ req[r].roles[t] = NoRole
    /\ req[r].pc = "register" =>
          req[r].tenant \in Tenant /\ (req[r].super \/ req[r].held[req[r].tenant] \in Writer)

Scoped ==
    /\ \A r \in Request : Entitled(r)
    /\ \A s \in Server : server[s] = NoServer \/ server[s].tenant \in Tenant

LEMMA MayWriteHeld ==
    ASSUME NEW r \in Request, Entitled(r), req[r].pc = "admitted", NEW t \in Tenant, MayWrite(r, t)
    PROVE  req[r].super \/ req[r].held[t] \in Writer
BY DEF Entitled, MayWrite, Writer, NoRole

LEMMA InitScoped == Init => Scoped
BY DEF Init, Scoped, Entitled, Idle, NoServer, Worker

LEMMA IdleEntitled ==
    ASSUME NEW r, req'[r].pc \notin {"admitted", "register"}
    PROVE  Entitled(r)'
BY DEF Entitled

\* Only its own steps change what a request knows.
LEMMA EntitledAlone ==
    ASSUME Scoped, NEW w, \A r \in Request \ {w} : req'[r] = req[r], w \in Request => Entitled(w)'
    PROVE  \A r \in Request : Entitled(r)'
<1>. SUFFICES ASSUME NEW r \in Request, r # w PROVE Entitled(r)'
  OBVIOUS
<1>1. req'[r] = req[r] /\ Entitled(r)
  BY DEF Scoped
<1>. QED
  BY <1>1 DEF Entitled

LEMMA EndEntitled ==
    ASSUME TypeOK, Scoped, NEW w \in Worker, End(w)
    PROVE  \A r \in Request : Entitled(r)'
<1>1. req'[w] = Idle /\ \A r \in Worker \ {w} : req'[r] = req[r]
  BY DEF TypeOK, End
<1>2. Entitled(w)'
  BY <1>1, IdleEntitled DEF Idle
<1>. QED
  BY <1>1, <1>2, EntitledAlone DEF Worker

LEMMA NextScoped == TypeOK /\ Scoped /\ [Next]_vars => Scoped'
<1>. SUFFICES ASSUME TypeOK, Scoped, [Next]_vars PROVE Scoped'
  OBVIOUS
<1>. USE AccessAssumption
<1>0. Request \subseteq Worker /\ Shell \subseteq Worker /\ req \in [Worker -> Working]
  BY DEF Worker, TypeOK, Working
<1>1. ASSUME NEW w \in Worker, \A r \in Worker \ {w} : req'[r] = req[r], Entitled(w)', server' = server
      PROVE  Scoped'
  BY <1>0, <1>1, EntitledAlone DEF Scoped
<1>2. ASSUME NEW w \in Worker, End(w), server' = server PROVE Scoped'
  BY <1>2, EndEntitled DEF Scoped
<1>3. ASSUME req' = req, server' = server PROVE Scoped'
  BY <1>3 DEF Scoped, Entitled
<1>4. ASSUME NEW r \in Request, NEW o \in Operator, ResolveOperator(r, o) PROVE Scoped'
  <2>1. CASE req' = [req EXCEPT ![r] = Snapshot(o, status[o], role[o])]
    BY <1>0, <1>1, <1>4, <2>1, IdleEntitled DEF ResolveOperator, Snapshot, Idle
  <2>2. CASE req' = [req EXCEPT ![r] = [Idle EXCEPT !.pc = "missing", !.who = o]]
    BY <1>0, <1>1, <1>4, <2>2, IdleEntitled DEF ResolveOperator, Idle
  <2>3. CASE End(r)
    BY <1>0, <1>2, <1>4, <2>3 DEF ResolveOperator
  <2>. QED
    BY <1>4, <2>1, <2>2, <2>3 DEF ResolveOperator
<1>5. ASSUME NEW r \in Request, MaybeBootstrap(r) PROVE Scoped'
  <2>1. PICK st, ro : req' = [req EXCEPT ![r] = Snapshot(req[r].who, st, ro)]
    BY <1>5 DEF MaybeBootstrap
  <2>2. req'[r].pc = "found"
    BY <1>0, <2>1 DEF Snapshot, Idle
  <2>. QED
    BY <1>0, <1>1, <1>5, <2>1, <2>2, IdleEntitled DEF MaybeBootstrap
<1>6. ASSUME NEW r \in Request, Admitted(r) PROVE Scoped'
  <2>1. /\ Admit(r, member[req[r].who]) \/ Admit(r, Nobody)
        /\ server' = server
    BY <1>6 DEF Admitted
  <2>2. /\ req'[r].pc = "admitted" /\ req'[r].held = member[req[r].who]
        /\ req'[r].roles = member[req[r].who] \/ req'[r].roles = Nobody
    BY <1>0, <2>1 DEF Admit, Working
  <2>3. Entitled(r)'
    BY <2>2 DEF Entitled, Nobody
  <2>4. \A k \in Worker \ {r} : req'[k] = req[k]
    BY <1>0, <2>1 DEF Admit
  <2>. QED
    BY <1>0, <1>1, <2>1, <2>3, <2>4
<1>7. ASSUME NEW c \in Shell, StartCommand(c) PROVE Scoped'
  <2>1. (\A r \in Request : req'[r] = req[r]) /\ server' = server
    BY <1>0, <1>7 DEF StartCommand
  <2>. QED
    BY <2>1 DEF Scoped, Entitled
<1>8. ASSUME NEW r \in Request, NEW body, NEW c \in Cidr, CheckServer(r, body, c) PROVE Scoped'
  <2>1. PICK t \in Existing :
          /\ MayWrite(r, t)
          /\ req' = [req EXCEPT ![r].pc = "register", ![r].tenant = t, ![r].cidr = c]
    BY <1>8 DEF CheckServer
  <2>2. t \in Tenant /\ Entitled(r) /\ req[r].pc = "admitted" /\ server' = server
    BY <1>8, <2>1 DEF Existing, Scoped, CheckServer
  <2>3. /\ req'[r].pc = "register" /\ req'[r].tenant = t /\ req'[r].super = req[r].super
        /\ req'[r].roles = req[r].roles /\ req'[r].held = req[r].held
    BY <1>0, <2>1 DEF Working
  <2>4. Entitled(r)'
    BY <2>1, <2>2, <2>3, MayWriteHeld DEF Entitled
  <2>. QED
    BY <1>0, <1>1, <2>1, <2>2, <2>4
<1>9. ASSUME NEW r \in Request, NEW s \in Server, InsertServer(r, s) PROVE Scoped'
  <2>1. req[r].tenant \in Tenant
    BY <1>9 DEF InsertServer, Scoped, Entitled
  <2>2. \A z \in Server : server'[z] = NoServer \/ server'[z].tenant \in Tenant
    BY <1>9, <2>1 DEF InsertServer, Scoped, TypeOK
  <2>. QED
    BY <1>0, <1>9, <2>2, EndEntitled DEF InsertServer, Scoped
<1>10. ASSUME NEW r \in Request, NEW s \in Server, DeleteServer(r, s) PROVE Scoped'
  <2>1. \A z \in Server : server'[z] = NoServer \/ server'[z].tenant \in Tenant
    BY <1>10 DEF DeleteServer, Scoped, TypeOK
  <2>. QED
    BY <1>0, <1>10, <2>1, EndEntitled DEF DeleteServer, Scoped
<1>11. ASSUME NEW w \in Worker, Refuse(w) \/ ReadOrReject(w) \/ CommitPool(w) PROVE Scoped'
  BY <1>2, <1>11 DEF Refuse, ReadOrReject, CommitPool
<1>12. ASSUME NEW w \in Worker, NEW t \in Tenant, NEW p, CheckTenant(w, t, p) \/ CheckPatch(w, t, p)
       PROVE  Scoped'
  <2>1. /\ req'[w].pc \in {"create", "patch"} /\ server' = server
        /\ \A r \in Worker \ {w} : req'[r] = req[r]
    BY <1>0, <1>12 DEF CheckTenant, CheckPatch, Working
  <2>. QED
    BY <1>1, <2>1, IdleEntitled
<1>13. ASSUME NEW w \in Worker, NEW o, NEW t, NEW ro,
              Attach(w, o, t, ro) \/ Detach(w, o, t) \/ OperatorsAdd(w, o, ro)
       PROVE  Scoped'
  BY <1>2, <1>13 DEF Attach, Detach, OperatorsAdd
<1>14. ASSUME NEW o \in Operator, Disable(o) \/ RevokeCertificate(o) PROVE Scoped'
  BY <1>3, <1>14 DEF Disable, RevokeCertificate
<1>15. CASE UNCHANGED vars
  BY <1>3, <1>15 DEF vars
<1>16. CASE Next
  BY <1>0, <1>4, <1>5, <1>6, <1>7, <1>8, <1>9, <1>10, <1>11, <1>12, <1>13, <1>14, <1>16 DEF Next
<1>. QED
  BY <1>15, <1>16

LEMMA AccessScoped == Spec => [](TypeOK /\ Scoped)
<1>1. Init => TypeOK /\ Scoped
  BY InitType, InitScoped
<1>2. TypeOK /\ Scoped /\ [Next]_vars => (TypeOK /\ Scoped)'
  BY NextType, NextScoped
<1>. QED
  BY <1>1, <1>2, PTL DEF Spec

\* The server rows change only at the end of a request that may do it.
LEMMA ServerWriters ==
    ASSUME TypeOK, Next, server' # server
    PROVE  \E r \in Request, s \in Server : InsertServer(r, s) \/ DeleteServer(r, s)
<1>1. CASE \E r \in Request, o \in Operator : ResolveOperator(r, o)
  BY <1>1 DEF ResolveOperator
<1>2. CASE \E r \in Request : MaybeBootstrap(r) \/ Refuse(r) \/ Admitted(r)
  BY <1>2 DEF MaybeBootstrap, Refuse, Admitted
<1>3. CASE \E c \in Shell : StartCommand(c)
  BY <1>3 DEF StartCommand
<1>4. CASE \E r \in Request, t \in Tenant \cup {NoTenant}, c \in Cidr : CheckServer(r, t, c)
  BY <1>4 DEF CheckServer
<1>5. CASE \E w \in Worker : ReadOrReject(w) \/ CommitPool(w)
  BY <1>5 DEF ReadOrReject, CommitPool
<1>6. CASE \E w \in Worker, t \in Tenant, p \in Cidr \cup {NoPool} : CheckTenant(w, t, p)
  BY <1>6 DEF CheckTenant
<1>7. CASE \E r \in Request, t \in Tenant, p \in Cidr : CheckPatch(r, t, p)
  BY <1>7 DEF CheckPatch
<1>8. CASE \E w \in Worker, o \in Operator, t \in Tenant :
                 (\E ro \in Role : Attach(w, o, t, ro)) \/ Detach(w, o, t)
  BY <1>8 DEF Attach, Detach
<1>9. CASE \E c \in Shell, o \in Operator, ro \in Role : OperatorsAdd(c, o, ro)
  BY <1>9 DEF OperatorsAdd
<1>10. CASE \E o \in Operator : Disable(o) \/ RevokeCertificate(o)
  BY <1>10 DEF Disable, RevokeCertificate
<1>. QED
  BY <1>1, <1>2, <1>3, <1>4, <1>5, <1>6, <1>7, <1>8, <1>9, <1>10 DEF Next

\* Nothing is written into a tenant on a membership that the caller did not have
\* when the request was admitted, whatever is attached and detached meanwhile.
THEOREM WritesAreScoped == Spec => ScopedWrites
<1>. DEFINE Write ==
       \A s \in Server :
          server'[s] # server[s] =>
              LET t == IF server'[s] = NoServer THEN server[s].tenant ELSE server'[s].tenant
              IN  \E r \in Request :
                     /\ req[r] # Idle /\ req'[r] = Idle
                     /\ req[r].super \/ req[r].held[t] \in Writer
<1>1. ASSUME TypeOK, Scoped, [Next]_vars PROVE Write
  <2>. SUFFICES ASSUME NEW s \in Server, server'[s] # server[s]
                PROVE  LET t == IF server'[s] = NoServer THEN server[s].tenant ELSE server'[s].tenant
                       IN  \E r \in Request :
                              /\ req[r] # Idle /\ req'[r] = Idle
                              /\ req[r].super \/ req[r].held[t] \in Writer
    OBVIOUS
  <2>0. Request \subseteq Worker
    BY DEF Worker
  <2>1. PICK r \in Request, z \in Server : InsertServer(r, z) \/ DeleteServer(r, z)
    BY <1>1, ServerWriters DEF vars
  <2>2. req'[r] = Idle /\ req[r].pc \in {"register", "admitted"} /\ Entitled(r) /\ z = s
    BY <1>1, <2>0, <2>1 DEF InsertServer, DeleteServer, End, TypeOK, Scoped
  <2>3. req[r] # Idle
    BY <2>2 DEF Idle
  <2>4. CASE InsertServer(r, s)
    <3>1. /\ server'[s] = [tenant |-> req[r].tenant, subnet |-> req[r].cidr]
          /\ req[r].tenant \in Tenant /\ (req[r].super \/ req[r].held[req[r].tenant] \in Writer)
      BY <1>1, <2>2, <2>4 DEF InsertServer, TypeOK, Entitled
    <3>2. server'[s].tenant = req[r].tenant /\ server'[s] # NoServer
      BY <3>1, AccessAssumption DEF NoServer
    <3>. QED
      BY <2>2, <2>3, <3>1, <3>2
  <2>5. CASE DeleteServer(r, s)
    <3>1. server'[s] = NoServer /\ server[s].tenant \in Tenant /\ MayWrite(r, server[s].tenant)
          /\ req[r].pc = "admitted"
      BY <1>1, <2>5 DEF DeleteServer, TypeOK, Scoped
    <3>2. req[r].super \/ req[r].held[server[s].tenant] \in Writer
      BY <2>2, <3>1, MayWriteHeld
    <3>. QED
      BY <2>2, <2>3, <3>1, <3>2
  <2>. QED
    BY <2>1, <2>2, <2>4, <2>5
<1>. HIDE DEF Write
<1>2. TypeOK /\ Scoped /\ [Next]_vars => [Write]_vars
  BY <1>1
<1>3. Spec => [][Write]_vars
  BY <1>2, AccessScoped, PTL DEF Spec
<1>. QED
  BY <1>3 DEF ScopedWrites, Write

-----------------------------------------------------------------------------
(* Pools and addresses *)

\* What a write of a pool was checked against.
Checked(w) ==
    req[w].pc \in {"create", "patch"} =>
        /\ req[w].tenant \in Tenant
        /\ req[w].cidr # NoPool
        /\ \A u \in Tenant \ {req[w].tenant} : req[w].cidr \cap req[w].seen[u] = {}

Apart == \A t, u \in Tenant : t # u => pool[t] \cap pool[u] = {}

PoolInv ==
    /\ used["default"] = 0 => \A w \in Worker : Checked(w)
    /\ used["default"] = 0 /\ ~raced => Apart

LEMMA ApartIsDisjoint == TypeOK /\ PoolInv => PoolsDisjoint
BY DEF PoolInv, Apart, PoolsDisjoint, Existing

LEMMA InitPool == Init => PoolInv
BY DEF Init, PoolInv, Checked, Idle, Apart, NoPool

\* A counter of rare events only grows.
LEMMA UsedGrows ==
    ASSUME TypeOK, [Next]_vars
    PROVE  \A m \in Rare : used'[m] = 0 => used[m] = 0
<1>1. used' = used \/ \E m \in Rare : Spend(m)
  <2>1. CASE \E r \in Request, o \in Operator : ResolveOperator(r, o)
    BY <2>1 DEF ResolveOperator, Rare
  <2>2. CASE \E r \in Request : MaybeBootstrap(r) \/ Refuse(r) \/ Admitted(r)
    BY <2>2 DEF MaybeBootstrap, Refuse, Admitted, Rare
  <2>3. CASE \E c \in Shell : StartCommand(c)
    BY <2>3 DEF StartCommand, Rare
  <2>4. CASE \E r \in Request, t \in Tenant \cup {NoTenant}, c \in Cidr : CheckServer(r, t, c)
    BY <2>4 DEF CheckServer, Rare
  <2>5. CASE \E r \in Request, s \in Server : InsertServer(r, s) \/ DeleteServer(r, s)
    BY <2>5 DEF InsertServer, DeleteServer, Rare
  <2>6. CASE \E w \in Worker : ReadOrReject(w) \/ CommitPool(w)
    BY <2>6 DEF ReadOrReject, CommitPool, Rare
  <2>7. CASE \E w \in Worker, t \in Tenant, p \in Cidr \cup {NoPool} : CheckTenant(w, t, p)
    BY <2>7 DEF CheckTenant, Rare
  <2>8. CASE \E r \in Request, t \in Tenant, p \in Cidr : CheckPatch(r, t, p)
    BY <2>8 DEF CheckPatch, Rare
  <2>9. CASE \E w \in Worker, o \in Operator, t \in Tenant :
                 (\E ro \in Role : Attach(w, o, t, ro)) \/ Detach(w, o, t)
    BY <2>9 DEF Attach, Detach, Rare
  <2>10. CASE \E c \in Shell, o \in Operator, ro \in Role : OperatorsAdd(c, o, ro)
    BY <2>10 DEF OperatorsAdd, Rare
  <2>11. CASE \E o \in Operator : Disable(o) \/ RevokeCertificate(o)
    BY <2>11 DEF Disable, RevokeCertificate, Rare
  <2>12. CASE UNCHANGED vars
    BY <2>12 DEF vars, Rare
  <2>. QED
    BY <2>1, <2>2, <2>3, <2>4, <2>5, <2>6, <2>7, <2>8, <2>9, <2>10, <2>11, <2>12 DEF Next
<1>2. ASSUME NEW m \in Rare, Spend(m), NEW n \in Rare, used'[n] = 0 PROVE used[n] = 0
  BY <1>2 DEF Spend, TypeOK
<1>. QED
  BY <1>1, <1>2

\* Steps that write no pool and check none.
PoolStill ==
    /\ UNCHANGED <<pool, raced>>
    /\ \A w \in Worker : req'[w].pc \in {"create", "patch"} => req'[w] = req[w]

LEMMA PoolStillSteps ==
    ASSUME TypeOK, [Next]_vars,
           \A w \in Worker : ~CommitPool(w),
           \A w \in Worker, t \in Tenant, p \in Cidr \cup {NoPool} : ~CheckTenant(w, t, p),
           \A r \in Request, t \in Tenant, p \in Cidr : ~CheckPatch(r, t, p)
    PROVE  PoolStill
<1>0. Request \subseteq Worker /\ Shell \subseteq Worker /\ req \in [Worker -> Working]
  BY DEF Worker, TypeOK, Working
<1>1. ASSUME NEW w \in Worker, UNCHANGED <<pool, raced>>, \A k \in Worker \ {w} : req'[k] = req[k],
             req'[w].pc \notin {"create", "patch"}
      PROVE  PoolStill
  BY <1>1 DEF PoolStill
<1>2. ASSUME NEW w \in Worker, End(w), UNCHANGED <<pool, raced>> PROVE PoolStill
  BY <1>0, <1>1, <1>2 DEF End, Idle
<1>3. ASSUME NEW r \in Request, NEW o \in Operator, ResolveOperator(r, o) PROVE PoolStill
  <2>1. CASE req' = [req EXCEPT ![r] = Snapshot(o, status[o], role[o])]
    BY <1>0, <1>1, <1>3, <2>1 DEF ResolveOperator, Snapshot, Idle
  <2>2. CASE req' = [req EXCEPT ![r] = [Idle EXCEPT !.pc = "missing", !.who = o]]
    BY <1>0, <1>1, <1>3, <2>2 DEF ResolveOperator, Idle
  <2>3. CASE End(r)
    BY <1>0, <1>2, <1>3, <2>3 DEF ResolveOperator
  <2>. QED
    BY <1>3, <2>1, <2>2, <2>3 DEF ResolveOperator
<1>4. ASSUME NEW r \in Request, MaybeBootstrap(r) PROVE PoolStill
  <2>1. PICK st, ro : req' = [req EXCEPT ![r] = Snapshot(req[r].who, st, ro)]
    BY <1>4 DEF MaybeBootstrap
  <2>2. req'[r].pc = "found"
    BY <1>0, <2>1 DEF Snapshot, Idle
  <2>. QED
    BY <1>0, <1>1, <1>4, <2>1, <2>2 DEF MaybeBootstrap
<1>5. ASSUME NEW r \in Request, Admitted(r) PROVE PoolStill
  <2>1. PICK roles : Admit(r, roles)
    BY <1>5 DEF Admitted
  <2>2. req'[r].pc = "admitted" /\ \A k \in Worker \ {r} : req'[k] = req[k]
    BY <1>0, <2>1 DEF Admit, Working
  <2>. QED
    BY <1>0, <1>1, <1>5, <2>2 DEF Admitted
<1>6. ASSUME NEW c \in Shell, StartCommand(c) PROVE PoolStill
  BY <1>0, <1>1, <1>6 DEF StartCommand, Idle
<1>7. ASSUME NEW r \in Request, NEW body, NEW c, CheckServer(r, body, c) PROVE PoolStill
  <2>1. PICK t : req' = [req EXCEPT ![r].pc = "register", ![r].tenant = t, ![r].cidr = c]
    BY <1>7 DEF CheckServer
  <2>2. req'[r].pc = "register" /\ \A k \in Worker \ {r} : req'[k] = req[k]
    BY <1>0, <2>1 DEF Working
  <2>. QED
    BY <1>0, <1>1, <1>7, <2>2 DEF CheckServer
<1>8. ASSUME NEW w \in Worker, NEW s, InsertServer(w, s) \/ DeleteServer(w, s) PROVE PoolStill
  BY <1>2, <1>8 DEF InsertServer, DeleteServer
<1>9. ASSUME NEW w \in Worker, Refuse(w) \/ ReadOrReject(w) PROVE PoolStill
  BY <1>2, <1>9 DEF Refuse, ReadOrReject
<1>10. ASSUME NEW w \in Worker, NEW o, NEW t, NEW ro,
              Attach(w, o, t, ro) \/ Detach(w, o, t) \/ OperatorsAdd(w, o, ro)
       PROVE  PoolStill
  BY <1>2, <1>10 DEF Attach, Detach, OperatorsAdd
<1>11. ASSUME NEW o \in Operator, Disable(o) \/ RevokeCertificate(o) PROVE PoolStill
  BY <1>11 DEF Disable, RevokeCertificate, PoolStill
<1>12. CASE UNCHANGED vars
  BY <1>12 DEF vars, PoolStill
<1>13. CASE Next
  BY <1>0, <1>3, <1>4, <1>5, <1>6, <1>7, <1>8, <1>9, <1>10, <1>11, <1>13 DEF Next
<1>. QED
  BY <1>12, <1>13

LEMMA PoolKinds ==
    ASSUME TypeOK, [Next]_vars
    PROVE  \/ PoolStill
           \/ \E w \in Worker : CommitPool(w)
           \/ \E w \in Worker, t \in Tenant, p \in Cidr \cup {NoPool} : CheckTenant(w, t, p)
           \/ \E w \in Worker, t \in Tenant, p \in Cidr : CheckPatch(w, t, p)
BY PoolStillSteps DEF Worker

LEMMA NextPool == TypeOK /\ PoolInv /\ [Next]_vars => PoolInv'
<1>. SUFFICES ASSUME TypeOK, PoolInv, [Next]_vars PROVE PoolInv'
  OBVIOUS
<1>. USE AccessAssumption
<1>0. req \in [Worker -> Working] /\ (used'["default"] = 0 => used["default"] = 0)
  BY UsedGrows DEF TypeOK, Working, Rare
<1>1. ASSUME NEW w \in Worker, req'[w] = req[w], Checked(w) PROVE Checked(w)'
  BY <1>1 DEF Checked
<1>2. CASE PoolStill
  <2>1. ASSUME used'["default"] = 0, NEW w \in Worker PROVE Checked(w)'
    BY <1>0, <1>1, <1>2, <2>1 DEF PoolInv, PoolStill, Checked
  <2>. QED
    BY <1>0, <1>2, <2>1 DEF PoolInv, PoolStill, Apart
<1>3. ASSUME NEW w \in Worker, CommitPool(w) PROVE PoolInv'
  <2>1. req'[w].pc = "idle" /\ \A k \in Worker \ {w} : req'[k] = req[k]
    BY <1>0, <1>3 DEF CommitPool, End, Idle
  <2>2. ASSUME used'["default"] = 0, NEW k \in Worker PROVE Checked(k)'
    <3>1. CASE k = w
      BY <2>1, <3>1 DEF Checked
    <3>2. CASE k # w
      BY <1>0, <1>1, <2>1, <2>2, <3>2 DEF PoolInv
    <3>. QED
      BY <3>1, <3>2
  <2>3. ASSUME used'["default"] = 0, ~raced' PROVE Apart'
    <3>1. CASE UNCHANGED <<pool, raced>>
      BY <1>0, <2>3, <3>1 DEF PoolInv, Apart
    <3>2. CASE /\ pool' = [pool EXCEPT ![req[w].tenant] = req[w].cidr]
               /\ raced' = (raced \/ pool # req[w].seen)
      <4>1. ~raced /\ pool = req[w].seen
        BY <2>3, <3>2
      <4>2. /\ req[w].tenant \in Tenant
            /\ \A u \in Tenant \ {req[w].tenant} : req[w].cidr \cap pool[u] = {}
        BY <1>0, <1>3, <2>3, <4>1 DEF PoolInv, Checked, CommitPool
      <4>3. Apart /\ pool \in [Tenant -> Cidr \cup {NoPool}]
        BY <1>0, <2>3, <4>1 DEF PoolInv, TypeOK
      <4>. QED
        BY <3>2, <4>2, <4>3 DEF Apart
    <3>. QED
      BY <1>3, <3>1, <3>2 DEF CommitPool
  <2>. QED
    BY <2>2, <2>3 DEF PoolInv
<1>4. ASSUME NEW w \in Worker, UNCHANGED <<pool, raced>>, \A k \in Worker \ {w} : req'[k] = req[k],
             used'["default"] = 0 => Checked(w)'
      PROVE  PoolInv'
  <2>1. ASSUME used'["default"] = 0, NEW k \in Worker PROVE Checked(k)'
    <3>1. CASE k = w
      BY <1>4, <2>1, <3>1
    <3>2. CASE k # w
      BY <1>0, <1>1, <1>4, <2>1, <3>2 DEF PoolInv
    <3>. QED
      BY <3>1, <3>2
  <2>. QED
    BY <1>0, <1>4, <2>1 DEF PoolInv, Apart
<1>5. ASSUME NEW w \in Worker, NEW t \in Tenant, NEW p \in Cidr \cup {NoPool}, CheckTenant(w, t, p)
      PROVE  PoolInv'
  <2>1. CASE p = NoPool
    <3>1. used' = [used EXCEPT !["default"] = @ + 1]
      BY <1>5, <2>1 DEF CheckTenant, Spend
    <3>2. used'["default"] # 0
      BY <3>1 DEF TypeOK, Rare
    <3>. QED
      BY <3>2 DEF PoolInv
  <2>2. CASE p # NoPool
    <3>1. /\ \A u \in Tenant : p \cap pool[u] = {}
          /\ req'[w].pc = "create" /\ req'[w].tenant = t /\ req'[w].cidr = p /\ req'[w].seen = pool
          /\ \A k \in Worker \ {w} : req'[k] = req[k]
      <4>1. \A u \in Tenant : p \cap pool[u] = {}
        BY <1>5, <2>2 DEF CheckTenant, RejectPoolOverlap, PoolsOverlap, Existing, NoPool
      <4>2. req' = [req EXCEPT ![w] = [req[w] EXCEPT !.pc = "create", !.tenant = t, !.seen = pool, !.cidr = p]]
        BY <1>5, <2>2 DEF CheckTenant
      <4>. QED
        BY <1>0, <4>1, <4>2 DEF Working
    <3>2. Checked(w)'
      BY <2>2, <3>1 DEF Checked
    <3>. QED
      BY <1>4, <1>5, <3>1, <3>2 DEF CheckTenant
  <2>. QED
    BY <2>1, <2>2
<1>6. ASSUME NEW w \in Worker, NEW t \in Tenant, NEW p \in Cidr, CheckPatch(w, t, p)
      PROVE  PoolInv'
  <2>1. /\ \A u \in Tenant \ {t} : p \cap pool[u] = {}
        /\ req'[w].pc = "patch" /\ req'[w].tenant = t /\ req'[w].cidr = p /\ req'[w].seen = pool
        /\ \A k \in Worker \ {w} : req'[k] = req[k]
    <3>1. \A u \in Tenant \ {t} : p \cap pool[u] = {}
      BY <1>6 DEF CheckPatch, RejectPoolOverlap, PoolsOverlap, Existing, NoPool
    <3>2. req' = [req EXCEPT ![w] = [req[w] EXCEPT !.pc = "patch", !.tenant = t, !.cidr = p, !.seen = pool]]
      BY <1>6 DEF CheckPatch
    <3>. QED
      BY <1>0, <3>1, <3>2 DEF Working
  <2>2. Checked(w)'
    BY <2>1 DEF Checked, NoPool
  <2>. QED
    BY <1>4, <1>6, <2>1, <2>2 DEF CheckPatch
<1>. QED
  BY <1>2, <1>3, <1>5, <1>6, PoolKinds

LEMMA AccessPools == Spec => [](TypeOK /\ PoolInv)
<1>1. Init => TypeOK /\ PoolInv
  BY InitType, InitPool
<1>2. TypeOK /\ PoolInv /\ [Next]_vars => (TypeOK /\ PoolInv)'
  BY NextType, NextPool
<1>. QED
  BY <1>1, <1>2, PTL DEF Spec

\* Unless a tenant took the default pool or two writes raced, no two tenants'
\* pools overlap, however often they are created and changed.
THEOREM PoolsStayApart == Spec => []PoolsDisjoint
BY AccessPools, ApartIsDisjoint, PTL

\* As long as no pool is changed, every server stays inside its tenant's pool.
Within(rec) == rec.tenant \in Existing /\ rec.cidr \subseteq pool[rec.tenant]

Placed ==
    used["patch"] = 0 =>
        /\ \A w \in Worker : req[w].pc # "patch" /\ (req[w].pc = "register" => Within(req[w]))
        /\ \A s \in Server :
              \/ server[s] = NoServer
              \/ server[s].tenant \in Existing /\ server[s].subnet \subseteq pool[server[s].tenant]

LEMMA PlacedIsDisjoint == TypeOK /\ PoolInv /\ Placed => AddressesDisjoint
<1>. SUFFICES ASSUME TypeOK, PoolInv, Placed, used["default"] = 0, ~raced, used["patch"] = 0,
                     NEW s \in Server, NEW z \in Server, server[s].tenant # server[z].tenant
              PROVE  server[s].subnet \cap server[z].subnet = {}
  BY DEF AddressesDisjoint
<1>1. Apart
  BY DEF PoolInv
<1>2. CASE server[s] = NoServer \/ server[z] = NoServer
  BY <1>2 DEF NoServer
<1>3. CASE server[s] # NoServer /\ server[z] # NoServer
  BY <1>1, <1>3 DEF Placed, Existing, Apart
<1>. QED
  BY <1>2, <1>3

LEMMA InitPlaced == Init => Placed
BY DEF Init, Placed, Idle

\* A tenant that exists keeps its pool, unless it is changed.
LEMMA PoolsKept ==
    ASSUME TypeOK, Placed, [Next]_vars, used["patch"] = 0
    PROVE  \A t \in Existing : t \in Existing' /\ pool'[t] = pool[t]
<1>1. CASE pool' = pool
  BY <1>1 DEF Existing
<1>2. ASSUME NEW w \in Worker, CommitPool(w)
      PROVE  \A t \in Existing : t \in Existing' /\ pool'[t] = pool[t]
  BY <1>2 DEF CommitPool, Placed, Existing, TypeOK
<1>3. ASSUME NEW w \in Worker, NEW t, NEW p, CheckTenant(w, t, p) \/ CheckPatch(w, t, p)
      PROVE  pool' = pool
  BY <1>3 DEF CheckTenant, CheckPatch
<1>. QED
  BY <1>1, <1>2, <1>3, PoolKinds DEF PoolStill

\* Only a check brings a request to the point where it registers or changes.
LEMMA Placers ==
    ASSUME TypeOK, [Next]_vars, NEW w \in Worker, req'[w] # req[w]
    PROVE  \/ req'[w].pc \notin {"register", "patch"}
           \/ \E t \in Tenant \cup {NoTenant}, c \in Cidr : CheckServer(w, t, c)
           \/ \E t \in Tenant, p \in Cidr : CheckPatch(w, t, p)
<1>0. Request \subseteq Worker /\ Shell \subseteq Worker /\ req \in [Worker -> Working]
  BY DEF Worker, TypeOK, Working
<1>. DEFINE Other == req'[w].pc \notin {"register", "patch"}
<1>1. ASSUME NEW k \in Worker, End(k) PROVE Other
  BY <1>0, <1>1 DEF End, Idle
<1>2. ASSUME NEW r \in Request, NEW o \in Operator, ResolveOperator(r, o) PROVE Other
  <2>1. CASE req' = [req EXCEPT ![r] = Snapshot(o, status[o], role[o])]
    BY <1>0, <2>1 DEF Snapshot, Idle
  <2>2. CASE req' = [req EXCEPT ![r] = [Idle EXCEPT !.pc = "missing", !.who = o]]
    BY <1>0, <2>2 DEF Idle
  <2>3. CASE End(r)
    BY <1>0, <1>1, <2>3
  <2>. QED
    BY <1>2, <2>1, <2>2, <2>3 DEF ResolveOperator
<1>3. ASSUME NEW r \in Request, MaybeBootstrap(r) PROVE Other
  <2>1. PICK st, ro : req' = [req EXCEPT ![r] = Snapshot(req[r].who, st, ro)]
    BY <1>3 DEF MaybeBootstrap
  <2>2. req'[r].pc = "found" /\ w = r
    BY <1>0, <2>1 DEF Snapshot, Idle
  <2>. QED
    BY <2>2
<1>4. ASSUME NEW r \in Request, Admitted(r) PROVE Other
  <2>1. PICK roles : Admit(r, roles)
    BY <1>4 DEF Admitted
  <2>2. req'[r].pc = "admitted" /\ w = r
    BY <1>0, <2>1 DEF Admit, Working
  <2>. QED
    BY <2>2
<1>5. ASSUME NEW c \in Shell, StartCommand(c) PROVE Other
  BY <1>0, <1>5 DEF StartCommand, Idle
<1>6. ASSUME NEW r \in Request, NEW body \in Tenant \cup {NoTenant}, NEW c \in Cidr, CheckServer(r, body, c)
      PROVE  w = r
  BY <1>0, <1>6 DEF CheckServer
<1>7. ASSUME NEW k \in Worker, NEW t \in Tenant, NEW p, CheckTenant(k, t, p) PROVE Other
  BY <1>0, <1>7 DEF CheckTenant, Working
<1>8. ASSUME NEW k \in Request, NEW t \in Tenant, NEW p, CheckPatch(k, t, p) PROVE w = k
  BY <1>0, <1>8 DEF CheckPatch
<1>9. ASSUME NEW k \in Worker, NEW s, InsertServer(k, s) \/ DeleteServer(k, s) PROVE Other
  BY <1>1, <1>9 DEF InsertServer, DeleteServer
<1>10. ASSUME NEW k \in Worker, Refuse(k) \/ ReadOrReject(k) \/ CommitPool(k) PROVE Other
  BY <1>1, <1>10 DEF Refuse, ReadOrReject, CommitPool
<1>11. ASSUME NEW k \in Worker, NEW o, NEW t, NEW ro,
              Attach(k, o, t, ro) \/ Detach(k, o, t) \/ OperatorsAdd(k, o, ro)
       PROVE  Other
  BY <1>1, <1>11 DEF Attach, Detach, OperatorsAdd
<1>12. ASSUME NEW o \in Operator, Disable(o) \/ RevokeCertificate(o) PROVE FALSE
  BY <1>12 DEF Disable, RevokeCertificate
<1>13. Next
  BY DEF vars
<1>. HIDE DEF Other
<1>14. \/ Other
       \/ \E t \in Tenant \cup {NoTenant}, c \in Cidr : CheckServer(w, t, c)
       \/ \E t \in Tenant, p \in Cidr : CheckPatch(w, t, p)
  BY <1>0, <1>2, <1>3, <1>4, <1>5, <1>6, <1>7, <1>8, <1>9, <1>10, <1>11, <1>12, <1>13 DEF Next
<1>. QED
  BY <1>14 DEF Other

LEMMA NextPlaced == TypeOK /\ Placed /\ [Next]_vars => Placed'
<1>. SUFFICES ASSUME TypeOK, Placed, [Next]_vars, used'["patch"] = 0
              PROVE  /\ \A w \in Worker : req'[w].pc # "patch" /\ (req'[w].pc = "register" => Within(req[w])')
                     /\ \A s \in Server :
                           \/ server'[s] = NoServer
                           \/ /\ server'[s].tenant \in Existing'
                              /\ server'[s].subnet \subseteq pool'[server'[s].tenant]
  BY DEF Placed
<1>0. used["patch"] = 0 /\ req \in [Worker -> Working]
  BY UsedGrows DEF TypeOK, Working, Rare
<1>1. \A t \in Existing : t \in Existing' /\ pool'[t] = pool[t]
  BY <1>0, PoolsKept
<1>2. ASSUME NEW w \in Worker
      PROVE  req'[w].pc # "patch" /\ (req'[w].pc = "register" => Within(req[w])')
  <2>1. CASE req'[w] = req[w]
    BY <1>0, <1>1, <2>1 DEF Placed, Within
  <2>2. CASE req'[w].pc \notin {"register", "patch"}
    BY <2>2
  <2>3. ASSUME NEW body, NEW c \in Cidr, CheckServer(w, body, c)
        PROVE  req'[w].pc = "register" /\ Within(req[w])'
    <3>1. PICK t \in Existing :
            /\ c \subseteq pool[t]
            /\ req' = [req EXCEPT ![w].pc = "register", ![w].tenant = t, ![w].cidr = c]
      BY <2>3 DEF CheckServer, SubnetInPool
    <3>2. req'[w].pc = "register" /\ req'[w].tenant = t /\ req'[w].cidr = c
      BY <1>0, <3>1 DEF Working
    <3>. QED
      BY <1>1, <3>1, <3>2 DEF Within
  <2>4. ASSUME NEW t \in Tenant, NEW p, CheckPatch(w, t, p) PROVE FALSE
    <3>1. used' = [used EXCEPT !["patch"] = @ + 1]
      BY <2>4 DEF CheckPatch, Spend
    <3>. QED
      BY <1>0, <3>1 DEF TypeOK, Rare
  <2>. QED
    BY <2>1, <2>2, <2>3, <2>4, Placers
<1>3. ASSUME NEW s \in Server
      PROVE  \/ server'[s] = NoServer
             \/ server'[s].tenant \in Existing' /\ server'[s].subnet \subseteq pool'[server'[s].tenant]
  <2>1. CASE server'[s] = server[s]
    BY <1>0, <1>1, <2>1 DEF Placed
  <2>2. ASSUME NEW r \in Request, NEW z \in Server, InsertServer(r, z), s = z
        PROVE  server'[s].tenant \in Existing' /\ server'[s].subnet \subseteq pool'[server'[s].tenant]
    <3>1. Within(req[r])
      BY <1>0, <2>2 DEF InsertServer, Placed, Worker
    <3>2. server'[s].tenant = req[r].tenant /\ server'[s].subnet = req[r].cidr
      BY <2>2 DEF InsertServer, TypeOK
    <3>. QED
      BY <1>1, <3>1, <3>2 DEF Within
  <2>3. ASSUME NEW r \in Request, NEW z \in Server, InsertServer(r, z) \/ DeleteServer(r, z), s # z
        PROVE  server'[s] = server[s]
    BY <2>3 DEF InsertServer, DeleteServer, TypeOK
  <2>4. ASSUME NEW r \in Request, DeleteServer(r, s) PROVE server'[s] = NoServer
    BY <2>4 DEF DeleteServer, TypeOK
  <2>5. CASE server' # server
    <3>1. PICK r \in Request, z \in Server : InsertServer(r, z) \/ DeleteServer(r, z)
      BY <2>5, ServerWriters DEF vars
    <3>. QED
      BY <2>1, <2>2, <2>3, <2>4, <3>1
  <2>. QED
    BY <2>1, <2>5
<1>. QED
  BY <1>2, <1>3

\* Then no two tenants' servers share an address.
THEOREM AddressesStayApart == Spec => []AddressesDisjoint
<1>1. Init => Placed
  BY InitPlaced
<1>2. TypeOK /\ Placed /\ [Next]_vars => Placed'
  BY NextPlaced
<1>3. Spec => []Placed
  BY <1>1, <1>2, AccessTypeCorrect, PTL DEF Spec
<1>. QED
  BY <1>3, AccessPools, PlacedIsDisjoint, PTL
=============================================================================
