--------------------------- MODULE HostCertProofs ---------------------------
(***************************************************************************)
(* Theorems about HostCert, for any names, messages, windows and bounds.   *)
(*                                                                         *)
(* Types.  Its variables keep their types.                                 *)
(*                                                                         *)
(* The record.  As long as nobody has installed a certificate outside the  *)
(* lock, the host_cert_* columns never promise more than the host has.     *)
(*                                                                         *)
(* Renewal.  What a ready host presents does not lapse while the renew     *)
(* window leaves room for one more sweep than have come to nothing.        *)
(* AgeInv says how old a certificate can be that is being installed;       *)
(* PaceInv, that every sweep since the certificate became due is accounted *)
(* for, by a rotation that is still waiting or by one that was missed.     *)
(*                                                                         *)
(* Renames.  A row whose hostname was edited can be reached, as long as no *)
(* task was cut short and nobody changed the host outside the lock.        *)
(***************************************************************************)
EXTENDS HostCert, FiniteSetTheorems, WellFoundedInduction, TLAPS

USE DEF bootvars

-----------------------------------------------------------------------------
(* Types *)

LEMMA IssuedType ==
    ASSUME TypeOK, NEW n \in Name
    PROVE  Issued(n) \in Cert /\ NoCert \in Cert
BY HostCertAssumption DEF TypeOK, Issued, Cert, NoCert

LEMMA SpendType ==
    ASSUME TypeOK, NEW m \in Rare, Spend(m)
    PROVE  used' \in [Rare -> Nat]
BY DEF TypeOK, Spend

\* What a task leaves behind when it gives the lock back.
LEMMA LeaveType ==
    ASSUME TypeOK, NEW t \in Task, NEW next \in Progress, Leave(t, next)
    PROVE  /\ lock' \in Task \cup {NoTask}
           /\ pc' \in [Task -> Progress] /\ kind' \in [Task -> Kind]
           /\ age' \in [Task -> Nat]
           /\ mine' \in [Task -> [name : Name, known : SUBSET Name, status : NodeStatus]]
           /\ session' \in [Task -> {"ca", "tofu"}]
           /\ cert' \in [Task -> Cert]
BY HostCertAssumption DEF TypeOK, Leave, Cert, NoCert

LEMMA SetStatusType ==
    ASSUME TypeOK, NEW t \in Task, NEW s \in NodeStatus, SetStatus(t, s)
    PROVE  status' \in NodeStatus
BY DEF TypeOK, SetStatus

LEMMA EndInFailureType ==
    ASSUME TypeOK, NEW t \in Task, EndInFailure(t)
    PROVE  status' \in NodeStatus /\ missed' \in Nat
BY SetStatusType DEF TypeOK, EndInFailure, CountMiss, NodeStatus

LEMMA CutShortType ==
    ASSUME TypeOK, NEW t \in Task, CutShort(t)
    PROVE  disk' \in Cert /\ served' \in Cert
BY DEF TypeOK, CutShort, hostvars

LEMMA SendType ==
    ASSUME TypeOK, NEW k \in Kind, Send(k)
    PROVE  /\ pc' \in [Task -> Progress] /\ kind' \in [Task -> Kind]
           /\ age' \in [Task -> Nat]
           /\ mine' = mine /\ session' = session /\ cert' = cert
BY DEF TypeOK, Send, Progress, Held

LEMMA InitType == Init => TypeOK
<1>1. SUFFICES ASSUME Init PROVE TypeOK
  OBVIOUS
<1>2. /\ NoCert \in Cert
      /\ \A n \in Name : Issued(n) \in Cert
  BY <1>1, HostCertAssumption DEF Init, Issued, Cert, NoCert
<1>3. pc \in [Task -> Progress] /\ kind \in [Task -> Kind]
  BY <1>1 DEF Init, Progress, Held, Kind
<1>4. mine \in [Task -> [name : Name, known : SUBSET Name, status : NodeStatus]]
  BY <1>1 DEF Init, NodeStatus
<1>5. rec \in Cert /\ disk \in Cert /\ served \in Cert /\ status \in NodeStatus
  BY <1>1, <1>2 DEF Init, NodeStatus
<1>. QED
  BY <1>1, <1>2, <1>3, <1>4, <1>5, HostCertAssumption DEF Init, TypeOK

LEMMA RequestType == TypeOK /\ RequestStep => TypeOK'
<1>. SUFFICES ASSUME TypeOK, RequestStep PROVE TypeOK'
  OBVIOUS
<1>1. ASSUME NEW n \in Name, Rename(n) PROVE TypeOK'
  BY <1>1, SpendType DEF TypeOK, Rename, Rare, rowvars, hostvars, taskvars
<1>2. ASSUME NEW n \in Name, BootstrapSign(n) PROVE TypeOK'
  <2>1. bootCert' \in Cert
    BY <1>2, HostCertAssumption DEF TypeOK, BootstrapSign, Cert
  <2>. QED
    BY <1>2, <2>1, SpendType DEF TypeOK, BootstrapSign, Rare, rowvars, hostvars, taskvars
<1>3. ASSUME NEW k \in Kind, Request(k) PROVE TypeOK'
  BY <1>3, SendType, SpendType DEF TypeOK, Request, Rare, rowvars, hostvars
<1>4. ASSUME Reprovision PROVE TypeOK'
  <2>1. Send("provision") /\ "provision" \in Kind
    BY <1>4 DEF Reprovision, Kind
  <2>. QED
    BY <1>4, <2>1, SendType, SpendType DEF TypeOK, Reprovision, Rare, NodeStatus, hostvars
<1>5. ASSUME BootstrapWrite \/ BootstrapReload \/ BootstrapFails PROVE TypeOK'
  BY <1>5, HostCertAssumption
     DEF TypeOK, BootstrapWrite, BootstrapReload, BootstrapFails, Cert, NoCert,
         rowvars, hostvars, taskvars
<1>. QED
  BY <1>1, <1>2, <1>3, <1>4, <1>5 DEF RequestStep

LEMMA ClockType == TypeOK /\ (Tick \/ Sweep) => TypeOK'
<1>1. ASSUME TypeOK, Tick PROVE TypeOK'
  BY <1>1, HostCertAssumption DEF TypeOK, Tick, rowvars, hostvars
<1>2. ASSUME TypeOK, Sweep PROVE TypeOK'
  <2>1. lastSweep' \in 0 .. now' /\ now' \in 0 .. MaxTime
    BY <1>2, HostCertAssumption DEF TypeOK, Sweep
  <2>2. /\ pc' \in [Task -> Progress] /\ kind' \in [Task -> Kind]
        /\ age' \in [Task -> Nat]
        /\ mine' = mine /\ session' = session /\ cert' = cert
    <3>1. CASE Send("rotate")
      BY <1>2, <3>1, SendType DEF Kind
    <3>2. CASE UNCHANGED taskvars
      BY <1>2, <3>2 DEF TypeOK, taskvars
    <3>. QED
      BY <1>2, <3>1, <3>2 DEF Sweep, taskvars
  <2>3. missed' \in Nat /\ used' \in [Rare -> Nat]
    BY <1>2, SpendType DEF TypeOK, Sweep, Rare
  <2>. QED
    BY <1>2, <2>1, <2>2, <2>3 DEF TypeOK, Sweep, rowvars, hostvars
<1>. QED
  BY <1>1, <1>2

LEMMA TaskType ==
    ASSUME TypeOK, NEW t \in Task, TaskStep(t) \/ Mishap(t)
    PROVE  TypeOK'
<1>. USE DEF Progress, Held
<1>1. CASE Start(t)
  <2>1. mine' \in [Task -> [name : Name, known : SUBSET Name, status : NodeStatus]]
    BY <1>1 DEF TypeOK, Start, Cert
  <2>2. session' \in [Task -> {"ca", "tofu"}] /\ pc' \in [Task -> Progress]
    BY <1>1 DEF TypeOK, Start
  <2>. QED
    BY <1>1, <2>1, <2>2 DEF TypeOK, Start, rowvars, hostvars
<1>2. CASE Skip(t)
  BY <1>2 DEF TypeOK, Skip, CountMiss, rowvars, hostvars
<1>3. CASE Connect(t)
  BY <1>3 DEF TypeOK, Connect, rowvars, hostvars
<1>4. CASE Refused(t)
  BY <1>4, LeaveType, EndInFailureType DEF TypeOK, Refused, EndInFailure, hostvars
<1>5. CASE Sign(t)
  <2>1. mine[t].name \in Name
    BY DEF TypeOK
  <2>. QED
    BY <1>5, <2>1, IssuedType DEF TypeOK, Sign, rowvars, hostvars
<1>6. CASE WriteCert(t)
  BY <1>6 DEF TypeOK, WriteCert, rowvars
<1>7. CASE ReloadSshd(t)
  BY <1>7 DEF TypeOK, ReloadSshd, rowvars
<1>8. CASE Bootstrapped(t)
  <2>1. NoCert \in Cert
    BY HostCertAssumption DEF NoCert, Cert
  <2>. QED
    BY <1>8, <2>1 DEF TypeOK, Bootstrapped, rowvars, hostvars
<1>9. CASE Record(t)
  BY <1>9, LeaveType, SetStatusType DEF TypeOK, Record, NodeStatus, hostvars
<1>10. CASE Reconfigured(t)
  BY <1>10, LeaveType DEF TypeOK, Reconfigured, rowvars, hostvars
<1>11. CASE Ack(t)
  BY <1>11 DEF TypeOK, Ack, rowvars, hostvars
<1>12. CASE TaskFails(t)
  BY <1>12, LeaveType, EndInFailureType, CutShortType, SpendType
     DEF TypeOK, TaskFails, EndInFailure, Rare
<1>13. CASE Crash(t)
  BY <1>13, LeaveType, CutShortType, SpendType DEF TypeOK, Crash, rowvars, Rare
<1>14. CASE CrashBeforeAck(t)
  BY <1>14, SpendType DEF TypeOK, CrashBeforeAck, rowvars, hostvars, Rare
<1>. QED
  BY <1>1, <1>2, <1>3, <1>4, <1>5, <1>6, <1>7, <1>8, <1>9, <1>10, <1>11, <1>12,
     <1>13, <1>14 DEF TaskStep, Mishap

LEMMA StutterType == TypeOK /\ UNCHANGED vars => TypeOK'
BY DEF TypeOK, vars, rowvars, hostvars, taskvars

LEMMA NextType == TypeOK /\ [Next]_vars => TypeOK'
BY RequestType, ClockType, TaskType, StutterType DEF Next

\* Every variable keeps its type; in particular no certificate outlives the TTL
\* it was signed with.
THEOREM HostCertTypeCorrect == Spec => []TypeOK
BY InitType, NextType, PTL DEF Spec

-----------------------------------------------------------------------------
(* The columns and the host *)

\* Only the holder of the row's lock is inside a task.
Excludes == \A t \in Task : pc[t] \in Held => lock = t

\* No certificate reaches further than one that were signed now.
NoneReachesFurther ==
    /\ disk.before <= now + Ttl /\ served.before <= now + Ttl
    /\ \A t \in Task : cert[t].before <= now + Ttl

\* What the host has and what the task is about to record, at each point.
Installing ==
    \A t \in Task :
        /\ pc[t] = "signed" => disk.before <= cert[t].before
        /\ pc[t] = "written" => disk = cert[t]
        /\ pc[t] = "reloaded" => disk = cert[t] /\ served = cert[t]

Agrees ==
    /\ TypeOK
    /\ boot = "idle"
    /\ Excludes
    /\ NoneReachesFurther
    /\ Installing
    /\ rec.before <= disk.before /\ rec.before <= served.before

\* bootstrap-host is the only installation outside the lock.
RecordInv == TypeOK /\ (used["bootstrap"] = 0 => Agrees)

LEMMA CertsAreTimed ==
    ASSUME TypeOK
    PROVE  /\ rec.before \in Int /\ disk.before \in Int /\ served.before \in Int
           /\ now \in Int /\ now + Ttl \in Int
           /\ \A t \in Task : cert[t].before \in Int
           /\ NoCert.before = 0 /\ 0 <= now + Ttl
BY HostCertAssumption DEF TypeOK, Cert, NoCert

LEMMA InitRecord == Init => Agrees
<1>. SUFFICES ASSUME Init PROVE Agrees
  OBVIOUS
<1>1. TypeOK
  BY InitType
<1>2. \A t \in Task : pc[t] \notin Held
  BY DEF Init, Held
<1>3. /\ disk.before <= now + Ttl /\ served.before <= now + Ttl
      /\ rec.before <= disk.before /\ rec.before <= served.before
  BY HostCertAssumption DEF Init, Issued, NoCert
<1>4. \A t \in Task : cert[t].before <= now + Ttl
  BY <1>1, CertsAreTimed DEF Init
<1>. QED
  BY <1>1, <1>2, <1>3, <1>4
     DEF Init, Agrees, Excludes, NoneReachesFurther, Installing, Held

LEMMA AddBoth == \A x, y, z \in Int : x <= y => x + z <= y + z
OBVIOUS

\* Steps that touch neither the host, the columns nor a task inside the lock.
LEMMA QuietRecord ==
    ASSUME Agrees, TypeOK',
           UNCHANGED <<rec, disk, served, lock, cert, boot>>,
           now <= now',
           \A t \in Task : pc'[t] = pc[t] \/ pc'[t] \notin Held
    PROVE  Agrees'
<1>1. now \in Int /\ now' \in Int
  BY DEF Agrees, TypeOK
<1>2. Ttl \in Int
  BY HostCertAssumption
<1>3. now + Ttl <= now' + Ttl
  BY <1>1, <1>2, AddBoth
<1>4. NoneReachesFurther'
  BY <1>1, <1>2, <1>3, CertsAreTimed DEF Agrees, NoneReachesFurther
<1>5. Excludes'
  BY DEF Agrees, Excludes
<1>6. Installing'
  BY DEF Agrees, Installing, Held
<1>. QED
  BY <1>4, <1>5, <1>6 DEF Agrees

\* A task gives the lock back: nobody is inside any more.
LEMMA LeaveRecord ==
    ASSUME Agrees, TypeOK', NEW t \in Task, NEW next \in {"queued", "finished"},
           Leave(t, next), pc[t] \in Held,
           UNCHANGED <<now, boot>>,
           disk'.before <= now + Ttl, served'.before <= now + Ttl,
           rec'.before <= disk'.before, rec'.before <= served'.before
    PROVE  Agrees'
<1>1. \A u \in Task : pc'[u] \notin Held
  <2>. SUFFICES ASSUME NEW u \in Task PROVE pc'[u] \notin Held
    OBVIOUS
  <2>1. CASE u = t
    BY <2>1 DEF Agrees, TypeOK, Leave, Held
  <2>2. CASE u # t
    BY <2>2 DEF Agrees, TypeOK, Leave, Excludes
  <2>. QED
    BY <2>1, <2>2
<1>2. \A u \in Task : cert'[u].before <= now + Ttl
  BY CertsAreTimed DEF Agrees, TypeOK, NoneReachesFurther, Leave
<1>. QED
  BY <1>1, <1>2 DEF Agrees, Excludes, NoneReachesFurther, Installing, Held

\* A task that is cut short leaves certificates that last as long as the columns
\* promise.
LEMMA CutShortRecord ==
    ASSUME Agrees, NEW t \in Task, pc[t] \in Held, CutShort(t)
    PROVE  /\ disk'.before <= now + Ttl /\ served'.before <= now + Ttl
           /\ rec.before <= disk'.before /\ rec.before <= served'.before
<1>. TypeOK
  BY DEF Agrees
<1>. QED
  BY CertsAreTimed
     DEF Agrees, CutShort, NoneReachesFurther, Installing, Held, hostvars

\* The holder of the lock takes a step inside it.
LEMMA InsideRecord ==
    ASSUME Agrees, TypeOK', NEW t \in Task, NEW next \in Held,
           pc[t] \in Held \/ (pc[t] = "queued" /\ lock = NoTask),
           lock' = t,
           pc' = [pc EXCEPT ![t] = next],
           \A u \in Task \ {t} : cert'[u] = cert[u],
           UNCHANGED <<now, rec, boot>>,
           disk'.before <= now + Ttl, served'.before <= now + Ttl,
           cert'[t].before <= now + Ttl,
           rec.before <= disk'.before, rec.before <= served'.before,
           next = "signed" => disk'.before <= cert'[t].before,
           next = "written" => disk' = cert'[t],
           next = "reloaded" => disk' = cert'[t] /\ served' = cert'[t]
    PROVE  Agrees'
<1>1. pc'[t] = next /\ \A u \in Task \ {t} : pc'[u] = pc[u]
  BY DEF Agrees, TypeOK
<1>2. \A u \in Task \ {t} : pc'[u] \notin Held
  BY <1>1, HostCertAssumption DEF Agrees, Excludes
<1>. QED
  BY <1>1, <1>2 DEF Agrees, Excludes, NoneReachesFurther, Installing, Held

LEMMA OutsideRecord ==
    ASSUME Agrees, used'["bootstrap"] = 0, Tick \/ Sweep \/ RequestStep
    PROVE  Agrees'
<1>1. TypeOK /\ TypeOK'
  BY ClockType, RequestType DEF Agrees
<1>2. /\ UNCHANGED <<rec, disk, served, lock, cert>> /\ now <= now'
      /\ \A t \in Task : pc'[t] = pc[t] \/ pc'[t] = "queued"
  <2>1. CASE Tick
    BY <1>1, <2>1 DEF Tick, TypeOK, rowvars, hostvars
  <2>2. ASSUME NEW k, Send(k)
        PROVE  cert' = cert /\ \A t \in Task : pc'[t] = pc[t] \/ pc'[t] = "queued"
    BY <1>1, <2>2 DEF Send, TypeOK
  <2>3. CASE Sweep
    BY <1>1, <2>3, <2>2 DEF Sweep, TypeOK, rowvars, hostvars, taskvars
  <2>4. CASE RequestStep
    BY <1>1, <2>4, <2>2
       DEF RequestStep, Rename, BootstrapSign, Request, Reprovision, BootstrapWrite, BootstrapReload, BootstrapFails,
           Agrees, TypeOK, rowvars, hostvars, taskvars
  <2>. QED
    BY <2>1, <2>3, <2>4
<1>3. boot' = boot
  BY <1>1, HostCertAssumption
     DEF Agrees, Tick, Sweep, RequestStep, Rename, BootstrapSign,
         Request, Reprovision, BootstrapWrite, BootstrapReload, BootstrapFails, Spend, Rare, TypeOK
<1>. QED
  BY <1>1, <1>2, <1>3, QuietRecord DEF Held

LEMMA TaskRecord ==
    ASSUME Agrees, NEW t \in Task, TaskStep(t) \/ Mishap(t)
    PROVE  Agrees'
<1>1. TypeOK /\ TypeOK'
  BY TaskType DEF Agrees
<1>2. CASE Start(t)
  BY <1>1, <1>2, InsideRecord, CertsAreTimed
     DEF Start, Agrees, NoneReachesFurther, Held, rowvars, hostvars
<1>3. CASE Skip(t) \/ Ack(t) \/ CrashBeforeAck(t)
  <2>1. /\ UNCHANGED <<rec, disk, served, lock, cert, boot, now>>
        /\ \A u \in Task : pc'[u] = pc[u] \/ pc'[u] \in {"free", "queued", "finished"}
    BY <1>1, <1>3 DEF Skip, Ack, CrashBeforeAck, TypeOK, rowvars, hostvars
  <2>2. now <= now'
    BY <1>1, <2>1 DEF TypeOK
  <2>. QED
    BY <1>1, <2>1, <2>2, QuietRecord DEF Held
<1>4. CASE Connect(t)
  BY <1>1, <1>4, InsideRecord
     DEF Connect, Agrees, Excludes, NoneReachesFurther, Held, rowvars, hostvars
<1>5. CASE Refused(t)
  BY <1>1, <1>5, LeaveRecord
     DEF Refused, EndInFailure, Agrees, NoneReachesFurther, Held, hostvars
<1>6. CASE Sign(t)
  <2>1. cert'[t].before = now + Ttl /\ \A u \in Task \ {t} : cert'[u] = cert[u]
    BY <1>1, <1>6 DEF Sign, Issued, TypeOK
  <2>2. disk.before <= now + Ttl /\ served.before <= now + Ttl /\ now + Ttl \in Int
    BY <1>1, CertsAreTimed DEF Agrees, NoneReachesFurther
  <2>3. rec.before <= disk.before /\ rec.before <= served.before
    BY DEF Agrees
  <2>4. pc[t] \in Held /\ lock = t /\ "signed" \in Held
    BY <1>6 DEF Sign, Agrees, Excludes, Held
  <2>5. /\ UNCHANGED <<now, rec, boot, disk, served, lock>>
        /\ pc' = [pc EXCEPT ![t] = "signed"]
    BY <1>6 DEF Sign, rowvars, hostvars
  <2>6. /\ disk'.before <= now + Ttl /\ served'.before <= now + Ttl
        /\ cert'[t].before <= now + Ttl /\ disk'.before <= cert'[t].before
        /\ rec.before <= disk'.before /\ rec.before <= served'.before
    BY <2>1, <2>2, <2>3, <2>5
  <2>. QED
    BY <1>1, <2>1, <2>4, <2>5, <2>6, InsideRecord
<1>7. CASE WriteCert(t)
  BY <1>1, <1>7, InsideRecord, CertsAreTimed
     DEF WriteCert, Agrees, Excludes, NoneReachesFurther, Installing, Held, rowvars
<1>8. CASE ReloadSshd(t)
  BY <1>1, <1>8, InsideRecord, CertsAreTimed
     DEF ReloadSshd, Agrees, Excludes, NoneReachesFurther, Installing, Held, rowvars
<1>9. CASE Bootstrapped(t)
  <2>1. cert'[t].before <= now + Ttl /\ \A u \in Task \ {t} : cert'[u] = cert[u]
    BY <1>1, <1>9, CertsAreTimed DEF Bootstrapped, TypeOK
  <2>. QED
    BY <1>1, <1>9, <2>1, InsideRecord
       DEF Bootstrapped, Agrees, Excludes, NoneReachesFurther, Held, rowvars, hostvars
<1>10. CASE Record(t)
  BY <1>1, <1>10, LeaveRecord, CertsAreTimed
     DEF Record, Agrees, NoneReachesFurther, Installing, Held, hostvars
<1>11. CASE Reconfigured(t)
  BY <1>1, <1>11, LeaveRecord
     DEF Reconfigured, Agrees, NoneReachesFurther, Held, rowvars, hostvars
<1>12. CASE TaskFails(t)
  BY <1>1, <1>12, LeaveRecord, CutShortRecord DEF TaskFails, EndInFailure
<1>13. CASE Crash(t)
  BY <1>1, <1>13, LeaveRecord, CutShortRecord DEF Crash, rowvars
<1>. QED
  BY <1>2, <1>3, <1>4, <1>5, <1>6, <1>7, <1>8, <1>9, <1>10, <1>11, <1>12, <1>13
     DEF TaskStep, Mishap

Grown == \A m \in Rare : used[m] <= used'[m]

LEMMA UsedGrows ==
    ASSUME TypeOK, [Next]_vars
    PROVE  Grown
<1>1. ASSUME NEW m \in Rare, Spend(m) PROVE Grown
  BY <1>1 DEF TypeOK, Spend, Grown
<1>2. ASSUME used' = used PROVE Grown
  BY <1>2 DEF TypeOK, Grown
<1>3. CASE Tick \/ Sweep
  BY <1>1, <1>2, <1>3 DEF Tick, Sweep, Rare
<1>4. CASE RequestStep
  BY <1>1, <1>2, <1>4
     DEF RequestStep, Rename, BootstrapSign, Request, Reprovision, BootstrapWrite,
         BootstrapReload, BootstrapFails, Rare
<1>5. ASSUME NEW t \in Task, TaskStep(t) \/ Mishap(t)
      PROVE  Grown
  BY <1>1, <1>2, <1>5
     DEF TaskStep, Mishap, Start, Skip, Connect, Refused, Sign, WriteCert, ReloadSshd,
         Bootstrapped, Record, Reconfigured, Ack, TaskFails, Crash, CrashBeforeAck, Rare
<1>6. CASE UNCHANGED vars
  BY <1>2, <1>6 DEF vars
<1>. QED
  BY <1>3, <1>4, <1>5, <1>6 DEF Next

LEMMA NextRecord == RecordInv /\ [Next]_vars => RecordInv'
<1>. SUFFICES ASSUME RecordInv, [Next]_vars PROVE RecordInv'
  OBVIOUS
<1>1. TypeOK /\ TypeOK'
  BY NextType DEF RecordInv
<1>. SUFFICES ASSUME used'["bootstrap"] = 0 PROVE Agrees'
  BY <1>1 DEF RecordInv
<1>2. used["bootstrap"] \in Nat /\ used["bootstrap"] <= used'["bootstrap"]
  BY <1>1, UsedGrows DEF TypeOK, Rare, Grown
<1>3. Agrees
  BY <1>2 DEF RecordInv
<1>4. ASSUME UNCHANGED vars PROVE Agrees'
  BY <1>1, <1>3, <1>4
     DEF Agrees, Excludes, NoneReachesFurther, Installing, vars, rowvars, hostvars,
         taskvars
<1>. QED
  BY <1>3, <1>4, OutsideRecord, TaskRecord DEF Next

\* Tasks may die anywhere between the signature and the commit, be retried and run
\* twice, and as long as bootstrap-host was not run the columns the sweep goes by
\* still never promise more time than the host has.
THEOREM RecordIsNotAhead == Spec => []RecordNotAhead
<1>1. Init => RecordInv
  BY InitRecord DEF RecordInv, Agrees
<1>2. RecordInv => RecordNotAhead
  BY DEF RecordInv, Agrees, RecordNotAhead, Presented
<1>. QED
  BY <1>1, <1>2, NextRecord, PTL DEF Spec

-----------------------------------------------------------------------------
(* How old what the host has can be, bootstrap-host included *)

LEMMA Numbers ==
    ASSUME TypeOK
    PROVE  /\ now \in Nat /\ lastSweep \in Nat /\ lastSweep <= now /\ missed \in Nat
           /\ rec.before \in Nat /\ disk.before \in Nat /\ served.before \in Nat
           /\ bootCert.before \in Nat
           /\ \A t \in Task : cert[t].before \in Nat /\ age[t] \in Nat
           /\ Ttl \in Nat /\ RenewBefore \in Nat /\ Interval \in Nat /\ MaxAge \in Nat
           /\ 1 <= Interval /\ NoCert.before = 0
BY HostCertAssumption DEF TypeOK, Cert, NoCert

\* Nothing reaches further than a certificate signed now.
Timed ==
    /\ rec.before <= now + Ttl /\ bootCert.before <= now + Ttl
    /\ disk.before <= now + Ttl /\ served.before <= now + Ttl
    /\ \A t \in Task : cert[t].before <= now + Ttl

\* Messages end in time, and the sweep is on time.
Punctual == (\A t \in Task : age[t] <= MaxAge) /\ now <= lastSweep + Interval

Signed == {"signed", "written", "reloaded"}

\* A certificate is at most as old as the message that asked for it, and what is
\* installed in its place at most MaxAge older.
InFlight(t) ==
    pc[t] \in Signed =>
        /\ now + Ttl <= cert[t].before + age[t]
        /\ rec.before <= cert[t].before
        /\ pc[t] # "signed" => cert[t].before <= disk.before + MaxAge
        /\ pc[t] = "reloaded" => cert[t].before <= served.before + MaxAge

Booting ==
    /\ boot # "idle" => now + Ttl <= bootCert.before + MaxAge
    /\ boot = "written" => bootCert.before <= disk.before + MaxAge

\* The columns promise at most MaxAge more than the host has.
NearRecord == rec.before <= disk.before + MaxAge /\ rec.before <= served.before + MaxAge

AgeInv ==
    /\ TypeOK /\ Excludes /\ Timed /\ Punctual /\ Booting /\ NearRecord
    /\ \A t \in Task : InFlight(t)

LEMMA InitAge == Init => AgeInv
<1>. SUFFICES ASSUME Init PROVE AgeInv
  OBVIOUS
<1>1. TypeOK /\ Excludes
  BY InitRecord DEF Agrees
<1>2. \A t \in Task : pc[t] \notin Signed
  BY DEF Init, Signed
<1>3. /\ rec.before <= now + Ttl /\ disk.before <= now + Ttl /\ served.before <= now + Ttl
      /\ rec.before <= disk.before + MaxAge /\ rec.before <= served.before + MaxAge
  BY HostCertAssumption DEF Init, Issued, NoCert
<1>4. bootCert.before <= now + Ttl /\ \A t \in Task : cert[t].before <= now + Ttl
  BY <1>1, Numbers DEF Init
<1>5. Punctual
  BY HostCertAssumption DEF Init, Punctual
<1>. QED
  BY <1>1, <1>2, <1>3, <1>4, <1>5 DEF Init, AgeInv, Timed, Booting, NearRecord, InFlight

\* The holder of the lock keeps it to itself.
LEMMA NextExcludes == TypeOK /\ Excludes /\ [Next]_vars => Excludes'
<1>. SUFFICES ASSUME TypeOK, Excludes, [Next]_vars PROVE Excludes'
  OBVIOUS
<1>1. ASSUME lock' = lock, \A u \in Task : pc'[u] \in Held => pc[u] \in Held PROVE Excludes'
  BY <1>1 DEF Excludes
<1>2. ASSUME NEW t \in Task, NEW next \in Progress, pc' = [pc EXCEPT ![t] = next]
      PROVE  pc'[t] = next /\ \A u \in Task \ {t} : pc'[u] = pc[u]
  BY <1>2 DEF TypeOK
<1>3. ASSUME NEW k, Send(k) PROVE \A u \in Task : pc'[u] \in Held => pc[u] \in Held
  BY <1>3 DEF Send, TypeOK, Held
<1>4. CASE Tick \/ Sweep
  BY <1>1, <1>3, <1>4 DEF Tick, Sweep, taskvars
<1>5. CASE RequestStep
  BY <1>1, <1>3, <1>5
     DEF RequestStep, Rename, BootstrapSign, Request, Reprovision, BootstrapWrite,
         BootstrapReload, BootstrapFails, taskvars
<1>6. ASSUME NEW t \in Task, NEW next \in {"queued", "finished"}, Leave(t, next), pc[t] \in Held
      PROVE  Excludes'
  <2>1. pc'[t] = next /\ \A u \in Task \ {t} : pc'[u] = pc[u]
    BY <1>2, <1>6 DEF Leave, Progress
  <2>2. \A u \in Task : pc'[u] \notin Held
    BY <1>6, <2>1 DEF Excludes, Held
  <2>. QED
    BY <2>2 DEF Excludes
<1>7. ASSUME NEW t \in Task, Start(t) PROVE Excludes'
  <2>1. lock = NoTask /\ lock' = t /\ \A u \in Task \ {t} : pc'[u] = pc[u]
    BY <1>2, <1>7 DEF Start, Progress, Held
  <2>. QED
    BY <2>1, HostCertAssumption DEF Excludes
<1>8. ASSUME NEW t \in Task, Skip(t) \/ Ack(t) \/ CrashBeforeAck(t) PROVE Excludes'
  BY <1>1, <1>8 DEF Skip, Ack, CrashBeforeAck, TypeOK, Held
<1>9. ASSUME NEW t \in Task, Connect(t) \/ Sign(t) \/ WriteCert(t) \/ ReloadSshd(t) \/ Bootstrapped(t)
      PROVE  Excludes'
  BY <1>1, <1>9 DEF Connect, Sign, WriteCert, ReloadSshd, Bootstrapped, TypeOK, Held
<1>10. ASSUME NEW t \in Task, Refused(t) \/ Record(t) \/ Reconfigured(t) \/ TaskFails(t) \/ Crash(t)
       PROVE  Excludes'
  BY <1>6, <1>10 DEF Refused, Record, Reconfigured, TaskFails, Crash, EndInFailure, Held
<1>11. CASE UNCHANGED vars
  BY <1>11 DEF vars, taskvars, Excludes
<1>. QED
  BY <1>4, <1>5, <1>7, <1>8, <1>9, <1>10, <1>11 DEF Next, TaskStep, Mishap

\* What a step may do to the host: install a certificate that is at most MaxAge
\* old, and load what is installed.
HostStep ==
    /\ disk' = disk \/ now + Ttl <= disk'.before + MaxAge
    /\ disk'.before <= now + Ttl
    /\ served' = served \/ (served' = disk /\ disk' = disk)

\* A task that the step does not concern, or that is not between the signature and
\* the commit.
Apart(u) ==
    \/ pc'[u] \notin Signed
    \/ pc'[u] = pc[u] /\ cert'[u] = cert[u] /\ age'[u] = age[u]

LEMMA StillInFlight ==
    ASSUME AgeInv, TypeOK', NEW u \in Task, Apart(u), now' = now, rec' = rec, HostStep
    PROVE  InFlight(u)'
<1>0. TypeOK /\ InFlight(u) /\ Timed
  BY DEF AgeInv
<1>1. /\ cert[u].before \in Nat /\ age[u] \in Nat /\ disk.before \in Nat /\ disk'.before \in Nat
      /\ served.before \in Nat /\ served'.before \in Nat /\ MaxAge \in Nat /\ Ttl \in Nat
      /\ now \in Nat /\ cert[u].before <= now + Ttl
  BY <1>0, Numbers, HostCertAssumption DEF TypeOK, Cert, Timed
<1>2. CASE pc'[u] \notin Signed
  BY <1>2 DEF InFlight
<1>3. CASE pc'[u] \in Signed /\ pc'[u] = pc[u] /\ cert'[u] = cert[u] /\ age'[u] = age[u]
  <2>1. pc[u] # "signed" => cert[u].before <= disk'.before + MaxAge
    BY <1>0, <1>1, <1>3 DEF InFlight, HostStep
  <2>2. pc[u] = "reloaded" => cert[u].before <= served'.before + MaxAge
    BY <1>0, <1>1, <1>3 DEF InFlight, HostStep
  <2>. QED
    BY <1>0, <1>3, <2>1, <2>2 DEF InFlight
<1>. QED
  BY <1>2, <1>3 DEF Apart

LEMMA AgeStep ==
    ASSUME AgeInv, TypeOK', Excludes', now' = now, rec' = rec, HostStep,
           lastSweep' = lastSweep \/ lastSweep' = now,
           \A u \in Task : age'[u] = age[u] \/ age'[u] = 0,
           \A u \in Task : cert'[u] = cert[u] \/ cert'[u] = NoCert \/ cert'[u].before = now + Ttl,
           (boot' = "idle" /\ bootCert' = NoCert) \/ UNCHANGED <<boot, bootCert>>,
           \A u \in Task : Apart(u) \/ InFlight(u)'
    PROVE  AgeInv'
<1>0. TypeOK /\ Timed /\ Punctual /\ Booting /\ NearRecord
  BY DEF AgeInv
<1>1. /\ now \in Nat /\ lastSweep \in Nat /\ lastSweep <= now /\ Ttl \in Nat /\ MaxAge \in Nat
      /\ Interval \in Nat /\ NoCert.before = 0
      /\ rec.before \in Nat /\ disk.before \in Nat /\ served.before \in Nat /\ bootCert.before \in Nat
      /\ disk'.before \in Nat /\ served'.before \in Nat
  BY <1>0, Numbers, HostCertAssumption DEF TypeOK, Cert
<1>2. Timed'
  <2>1. disk'.before <= now + Ttl /\ served'.before <= now + Ttl
    BY <1>0 DEF HostStep, Timed
  <2>2. bootCert'.before <= now + Ttl
    BY <1>0, <1>1 DEF Timed
  <2>3. \A t \in Task : cert'[t].before <= now + Ttl
    BY <1>0, <1>1 DEF Timed
  <2>. QED
    BY <1>0, <2>1, <2>2, <2>3 DEF Timed
<1>3. Punctual'
  <2>1. \A t \in Task : age'[t] <= MaxAge
    BY <1>0, <1>1 DEF Punctual
  <2>2. now <= lastSweep' + Interval
    BY <1>0, <1>1 DEF Punctual
  <2>. QED
    BY <2>1, <2>2 DEF Punctual
<1>4. Booting'
  BY <1>0, <1>1 DEF Booting, HostStep, Timed
<1>5. NearRecord'
  <2>1. rec.before <= disk'.before + MaxAge
    BY <1>0, <1>1 DEF NearRecord, HostStep, Timed
  <2>2. rec.before <= served'.before + MaxAge
    BY <1>0, <1>1 DEF NearRecord, HostStep
  <2>. QED
    BY <2>1, <2>2 DEF NearRecord
<1>6. \A u \in Task : InFlight(u)'
  BY StillInFlight
<1>. QED
  BY <1>2, <1>3, <1>4, <1>5, <1>6 DEF AgeInv

\* The host is left alone, or a task's certificate replaces what is on disk.
LEMMA SameHost == AgeInv /\ UNCHANGED <<disk, served>> => HostStep
<1>1. AgeInv => disk.before <= now + Ttl
  BY DEF AgeInv, Timed
<1>. QED
  BY <1>1 DEF HostStep

LEMMA TaskCert ==
    ASSUME AgeInv, NEW t \in Task, pc[t] \in Signed
    PROVE  now + Ttl <= cert[t].before + MaxAge /\ cert[t].before <= now + Ttl
<1>1. TypeOK /\ InFlight(t) /\ Timed /\ Punctual
  BY DEF AgeInv
<1>2. /\ now \in Nat /\ Ttl \in Nat /\ MaxAge \in Nat /\ age[t] \in Nat /\ cert[t].before \in Nat
      /\ age[t] <= MaxAge /\ now + Ttl <= cert[t].before + age[t]
  BY <1>1, Numbers DEF InFlight, Punctual
<1>. QED
  BY <1>1, <1>2 DEF Timed

LEMMA CutShortHost ==
    ASSUME AgeInv, NEW t \in Task, CutShort(t)
    PROVE  HostStep
<1>1. disk.before <= now + Ttl
  BY DEF AgeInv, Timed
<1>2. pc[t] = "signed" => now + Ttl <= cert[t].before + MaxAge /\ cert[t].before <= now + Ttl
  BY TaskCert DEF Signed
<1>. QED
  BY <1>1, <1>2 DEF CutShort, HostStep, hostvars

LEMMA TickAge == AgeInv /\ Tick /\ TypeOK' /\ Excludes' => AgeInv'
<1>. SUFFICES ASSUME AgeInv, Tick, TypeOK', Excludes' PROVE AgeInv'
  OBVIOUS
<1>0. TypeOK /\ Timed /\ Punctual /\ Booting /\ NearRecord /\ \A t \in Task : InFlight(t)
  BY DEF AgeInv
<1>1. /\ now \in Nat /\ lastSweep \in Nat /\ Ttl \in Nat /\ MaxAge \in Nat
      /\ Interval \in Nat /\ now' = now + 1 /\ lastSweep' = lastSweep
      /\ rec.before \in Nat /\ disk.before \in Nat /\ served.before \in Nat /\ bootCert.before \in Nat
      /\ \A t \in Task : cert[t].before \in Nat /\ age[t] \in Nat
  BY <1>0, Numbers DEF Tick
<1>2. UNCHANGED <<rec, disk, served, pc, cert, boot, bootCert>>
  BY DEF Tick, rowvars, hostvars
<1>3. Timed'
  BY <1>0, <1>1, <1>2 DEF Timed
<1>4. \A t \in Task : age'[t] <= age[t] + 1 /\ (pc[t] # "free" => age'[t] = age[t] + 1)
                      /\ age'[t] <= MaxAge
  BY <1>0, <1>1 DEF Tick, Punctual
<1>5. Punctual'
  BY <1>1, <1>4 DEF Punctual, Tick, SweepIsDue
<1>6. Booting'
  BY <1>0, <1>1, <1>2 DEF Booting, Tick
<1>7. NearRecord'
  BY <1>0, <1>2 DEF NearRecord
<1>8. ASSUME NEW t \in Task PROVE InFlight(t)'
  <2>1. pc[t] \in Signed => age'[t] = age[t] + 1
    BY <1>4 DEF Signed
  <2>2. cert[t].before \in Nat /\ age[t] \in Nat /\ InFlight(t)
    BY <1>0, <1>1
  <2>3. pc[t] \in Signed => now' + Ttl <= cert[t].before + age'[t]
    BY <1>1, <2>1, <2>2 DEF InFlight
  <2>. QED
    BY <1>2, <2>2, <2>3 DEF InFlight
<1>. QED
  BY <1>3, <1>5, <1>6, <1>7, <1>8 DEF AgeInv

\* What Send, and a step of one task, do to the others.
LEMMA SendApart ==
    ASSUME TypeOK, NEW k, Send(k)
    PROVE  /\ \A u \in Task : Apart(u)
           /\ \A u \in Task : age'[u] = age[u] \/ age'[u] = 0
           /\ cert' = cert
BY DEF TypeOK, Send, Apart, Signed

LEMMA OthersApart ==
    ASSUME TypeOK, NEW t \in Task, NEW next, pc' = [pc EXCEPT ![t] = next],
           \A u \in Task \ {t} : cert'[u] = cert[u] /\ age'[u] = age[u]
    PROVE  /\ pc'[t] = next /\ \A u \in Task \ {t} : Apart(u)
BY DEF TypeOK, Apart

LEMMA OutsideAge ==
    ASSUME AgeInv, TypeOK', Excludes', Sweep \/ RequestStep
    PROVE  AgeInv'
<1>0. TypeOK /\ Timed /\ Booting
  BY DEF AgeInv
<1>1. ASSUME UNCHANGED <<now, rec, disk, served, bootvars>>, lastSweep' = lastSweep \/ lastSweep' = now,
             UNCHANGED <<pc, age, cert>> \/ \E k \in Kind : Send(k)
      PROVE  AgeInv'
  <2>1. HostStep
    BY <1>1, SameHost
  <2>2. /\ \A u \in Task : Apart(u)
        /\ \A u \in Task : age'[u] = age[u] \/ age'[u] = 0
        /\ cert' = cert
    <3>1. CASE UNCHANGED <<pc, age, cert>>
      BY <3>1 DEF Apart
    <3>2. CASE \E k \in Kind : Send(k)
      BY <3>2, <1>0, SendApart
    <3>. QED
      BY <1>1, <3>1, <3>2
  <2>. QED
    BY <1>1, <2>1, <2>2, AgeStep
<1>2. CASE Sweep
  BY <1>1, <1>2 DEF Sweep, rowvars, hostvars, taskvars, Kind
<1>3. ASSUME NEW n \in Name, Rename(n) PROVE AgeInv'
  BY <1>1, <1>3 DEF Rename, hostvars, taskvars
<1>4. ASSUME NEW k \in Kind, Request(k) PROVE AgeInv'
  BY <1>1, <1>4 DEF Request, rowvars, hostvars
<1>5. CASE Reprovision
  BY <1>1, <1>5 DEF Reprovision, hostvars, Kind
<1>6. ASSUME NEW n \in Name, BootstrapSign(n) PROVE AgeInv'
  <2>1. /\ UNCHANGED <<now, lastSweep, rec, disk, served, pc, cert, age>>
        /\ boot' = "signed" /\ bootCert'.before = now + Ttl
    BY <1>6 DEF BootstrapSign, rowvars, hostvars, taskvars
  <2>2. now \in Nat /\ Ttl \in Nat /\ MaxAge \in Nat
    BY <1>0, Numbers
  <2>3. Timed' /\ Booting'
    BY <1>0, <2>1, <2>2 DEF Timed, Booting
  <2>. QED
    BY <2>1, <2>3 DEF AgeInv, Punctual, NearRecord, InFlight
<1>7. CASE BootstrapWrite
  <2>1. /\ UNCHANGED <<now, lastSweep, rec, served, pc, cert, age, bootCert>>
        /\ boot = "signed" /\ boot' = "written" /\ disk' = bootCert
    BY <1>7 DEF BootstrapWrite, rowvars, taskvars
  <2>2. now \in Nat /\ Ttl \in Nat /\ MaxAge \in Nat /\ bootCert.before \in Nat /\ rec.before \in Nat
    BY <1>0, Numbers
  <2>3. HostStep
    BY <1>0, <2>1 DEF HostStep, Booting, Timed
  <2>4. Timed' /\ Booting'
    BY <1>0, <2>1, <2>2 DEF Timed, Booting
  <2>5. \A u \in Task : InFlight(u)'
    BY <2>1, <2>3, StillInFlight DEF Apart
  <2>6. NearRecord'
    <3>1. rec.before <= bootCert.before + MaxAge
      BY <1>0, <2>1, <2>2 DEF Timed, Booting
    <3>. QED
      BY <3>1, <2>1 DEF AgeInv, NearRecord
  <2>. QED
    BY <2>1, <2>4, <2>5, <2>6 DEF AgeInv, Punctual
<1>8. CASE BootstrapReload \/ BootstrapFails
  <2>1. /\ UNCHANGED <<now, lastSweep, rec, disk, pc, cert, age>>
        /\ boot' = "idle" /\ bootCert' = NoCert /\ (served' = served \/ served' = disk)
    BY <1>8 DEF BootstrapReload, BootstrapFails, rowvars, hostvars, taskvars
  <2>2. HostStep
    BY <1>0, <2>1 DEF HostStep, Timed
  <2>. QED
    BY <2>1, <2>2, AgeStep DEF Apart
<1>. QED
  BY <1>2, <1>3, <1>4, <1>5, <1>6, <1>7, <1>8 DEF RequestStep

LEMMA TaskAge ==
    ASSUME AgeInv, TypeOK', Excludes', NEW t \in Task, TaskStep(t) \/ Mishap(t)
    PROVE  AgeInv'
<1>0. TypeOK /\ Timed /\ Excludes /\ InFlight(t) /\ NearRecord /\ Punctual
  BY DEF AgeInv
<1>1. ASSUME NEW next, next \notin Signed, pc' = [pc EXCEPT ![t] = next],
             \A u \in Task \ {t} : cert'[u] = cert[u] /\ age'[u] = age[u],
             cert'[t] = cert[t] \/ cert'[t] = NoCert, age'[t] = age[t] \/ age'[t] = 0,
             UNCHANGED <<now, lastSweep, rec, bootvars>>, HostStep
      PROVE  AgeInv'
  <2>1. pc'[t] = next /\ \A u \in Task \ {t} : Apart(u)
    BY <1>0, <1>1, OthersApart
  <2>2. Apart(t)
    BY <1>1, <2>1 DEF Apart
  <2>. QED
    BY <1>1, <2>1, <2>2, AgeStep
<1>2. ASSUME NEW next \in {"queued", "finished"}, Leave(t, next)
      PROVE  /\ pc' = [pc EXCEPT ![t] = next] /\ next \notin Signed
             /\ \A u \in Task \ {t} : cert'[u] = cert[u] /\ age'[u] = age[u]
             /\ cert'[t] = NoCert /\ age'[t] = age[t]
  BY <1>0, <1>2 DEF Leave, TypeOK, Signed
<1>3. CASE Start(t)
  <2>1. UNCHANGED <<now, lastSweep, rec, disk, served, age, cert, bootvars>>
        /\ pc' = [pc EXCEPT ![t] = "loaded"]
    BY <1>3 DEF Start, rowvars, hostvars
  <2>. QED
    BY <1>1, <2>1, SameHost DEF Signed
<1>4. CASE Skip(t) \/ Ack(t) \/ CrashBeforeAck(t)
  <2>1. /\ UNCHANGED <<now, lastSweep, rec, disk, served, cert, bootvars>>
        /\ \E next \in {"free", "queued", "finished"} : pc' = [pc EXCEPT ![t] = next]
        /\ \A u \in Task \ {t} : age'[u] = age[u]
        /\ age'[t] = age[t] \/ age'[t] = 0
    BY <1>0, <1>4 DEF Skip, Ack, CrashBeforeAck, rowvars, hostvars, TypeOK
  <2>. QED
    BY <1>1, <2>1, SameHost DEF Signed
<1>5. CASE Connect(t)
  <2>1. UNCHANGED <<now, lastSweep, rec, disk, served, age, cert, bootvars>>
        /\ pc' = [pc EXCEPT ![t] = "connected"]
    BY <1>5 DEF Connect, rowvars, hostvars
  <2>. QED
    BY <1>1, <2>1, SameHost DEF Signed
<1>6. CASE Refused(t) \/ Reconfigured(t)
  <2>1. UNCHANGED <<now, lastSweep, rec, disk, served, bootvars>> /\ Leave(t, "finished")
    BY <1>6 DEF Refused, Reconfigured, EndInFailure, rowvars, hostvars
  <2>. QED
    BY <1>1, <1>2, <2>1, SameHost
<1>7. CASE TaskFails(t) \/ Crash(t)
  <2>1. /\ UNCHANGED <<now, lastSweep, rec, bootvars>> /\ CutShort(t)
        /\ \E next \in {"queued", "finished"} : Leave(t, next)
    BY <1>7 DEF TaskFails, Crash, EndInFailure, rowvars
  <2>. QED
    BY <1>1, <1>2, <2>1, CutShortHost
<1>8. CASE Bootstrapped(t)
  <2>1. /\ UNCHANGED <<now, lastSweep, rec, disk, served, age, bootvars>>
        /\ pc' = [pc EXCEPT ![t] = "loaded"]
        /\ cert'[t] = NoCert /\ \A u \in Task \ {t} : cert'[u] = cert[u]
    BY <1>0, <1>8 DEF Bootstrapped, rowvars, hostvars, TypeOK
  <2>. QED
    BY <1>1, <2>1, SameHost DEF Signed
<1>9. ASSUME NEW next, pc' = [pc EXCEPT ![t] = next],
             \A u \in Task \ {t} : cert'[u] = cert[u],
             cert'[t] = cert[t] \/ cert'[t].before = now + Ttl,
             UNCHANGED <<now, lastSweep, rec, age, bootvars>>, HostStep, InFlight(t)'
      PROVE  AgeInv'
  <2>1. \A u \in Task \ {t} : Apart(u)
    BY <1>0, <1>9, OthersApart
  <2>. QED
    BY <1>9, <2>1, AgeStep
<1>10. CASE Sign(t)
  <2>1. /\ UNCHANGED <<now, lastSweep, rec, disk, served, age, bootvars>>
        /\ pc' = [pc EXCEPT ![t] = "signed"] /\ pc'[t] = "signed"
        /\ cert'[t].before = now + Ttl /\ \A u \in Task \ {t} : cert'[u] = cert[u]
    BY <1>0, <1>10 DEF Sign, rowvars, hostvars, TypeOK, Issued
  <2>2. rec.before <= now + Ttl /\ now + Ttl <= now + Ttl + age[t]
    BY <1>0, Numbers DEF Timed
  <2>3. InFlight(t)'
    BY <2>1, <2>2 DEF InFlight
  <2>. QED
    BY <1>9, <2>1, <2>3, SameHost
<1>11. CASE WriteCert(t)
  <2>1. /\ UNCHANGED <<now, lastSweep, rec, served, age, cert, bootvars>> /\ pc[t] = "signed"
        /\ pc' = [pc EXCEPT ![t] = "written"] /\ pc'[t] = "written" /\ disk' = cert[t]
    BY <1>0, <1>11 DEF WriteCert, rowvars, TypeOK
  <2>2. HostStep
    BY <2>1, TaskCert DEF HostStep, Signed
  <2>3. cert[t].before <= cert[t].before + MaxAge
    BY <1>0, Numbers
  <2>4. InFlight(t)'
    BY <1>0, <2>1, <2>3 DEF InFlight, Signed
  <2>. QED
    BY <1>9, <2>1, <2>2, <2>4
<1>12. CASE ReloadSshd(t)
  <2>1. /\ UNCHANGED <<now, lastSweep, rec, disk, age, cert, bootvars>> /\ pc[t] = "written"
        /\ pc' = [pc EXCEPT ![t] = "reloaded"] /\ pc'[t] = "reloaded" /\ served' = disk
    BY <1>0, <1>12 DEF ReloadSshd, rowvars, TypeOK
  <2>2. HostStep
    BY <1>0, <2>1 DEF HostStep, Timed
  <2>3. InFlight(t)'
    BY <1>0, <2>1 DEF InFlight, Signed
  <2>. QED
    BY <1>9, <2>1, <2>2, <2>3
<1>13. CASE Record(t)
  <2>1. /\ UNCHANGED <<now, lastSweep, disk, served, boot, bootCert>> /\ pc[t] = "reloaded"
        /\ rec' = cert[t] /\ Leave(t, "finished")
    BY <1>13 DEF Record, hostvars
  <2>2. /\ pc' = [pc EXCEPT ![t] = "finished"]
        /\ \A u \in Task \ {t} : cert'[u] = cert[u] /\ age'[u] = age[u]
        /\ cert'[t] = NoCert /\ age'[t] = age[t]
    BY <1>2, <2>1
  <2>3. \A u \in Task : pc'[u] \notin Signed
    BY <1>0, <2>1, <2>2 DEF TypeOK, Excludes, Held, Signed
  <2>4. NearRecord'
    BY <1>0, <2>1 DEF InFlight, NearRecord, Signed
  <2>5. Timed' /\ Punctual'
    BY <1>0, <2>1, <2>2, Numbers DEF Timed, Punctual
  <2>6. Booting'
    BY <2>1 DEF AgeInv, Booting
  <2>. QED
    BY <2>3, <2>4, <2>5, <2>6 DEF AgeInv, InFlight
<1>. QED
  BY <1>3, <1>4, <1>5, <1>6, <1>7, <1>8, <1>10, <1>11, <1>12, <1>13 DEF TaskStep, Mishap

LEMMA NextAge == AgeInv /\ [Next]_vars => AgeInv'
<1>. SUFFICES ASSUME AgeInv, [Next]_vars PROVE AgeInv'
  OBVIOUS
<1>1. TypeOK' /\ Excludes'
  BY NextType, NextExcludes DEF AgeInv
<1>2. CASE UNCHANGED vars
  BY <1>1, <1>2
     DEF AgeInv, Timed, Punctual, Booting, NearRecord, InFlight, vars, rowvars, hostvars, taskvars
<1>. QED
  BY <1>1, <1>2, TickAge, OutsideAge, TaskAge DEF Next

-----------------------------------------------------------------------------
(* The renewals keep pace with the clock *)

\* Rotations whose message has neither come to nothing nor renewed the certificate.
Waiting == {"queued", "loaded", "connected", "signed", "written"}
Rotations == {u \in Task : kind[u] = "rotate" /\ pc[u] \in Waiting}

\* Those sent by the last sweep or before it, and those sent before t.
Sent     == {u \in Rotations : age[u] >= now - lastSweep}
Older(t) == {u \in Rotations : age[u] > age[t]}

\* The time from which on the sweep cannot overlook a certificate that ends at b.
DueFrom(b) == b + MaxAge - RenewBefore

\* Every sweep since then has sent a rotation that is still waiting, or has come to
\* nothing.
SweepsKept(b) == lastSweep <= DueFrom(b) + (missed + Cardinality(Sent)) * Interval

\* The same of the sweeps before a message was sent.
MessageKept(b, t) == now - age[t] <= DueFrom(b) + (missed + 1 + Cardinality(Older(t))) * Interval

Kept(b) == SweepsKept(b) /\ \A t \in Task : pc[t] # "free" => MessageKept(b, t)

PaceInv ==
    status = "ready" /\ RenewBefore + MaxAge <= Ttl => Kept(disk.before) /\ Kept(served.before)

LEMMA Times ==
    ASSUME NEW m \in Nat, NEW n \in Nat, NEW i \in Nat, m <= n
    PROVE  m * i <= n * i /\ m * i \in Nat /\ n * i \in Nat /\ (m + 1) * i = m * i + i
OBVIOUS

\* More misses and more messages leave more time.
LEMMA MoreTime ==
    ASSUME NEW x \in Int, NEW d \in Int, NEW m \in Nat, NEW n \in Nat, NEW i \in Nat,
           x <= d + m * i, m <= n
    PROVE  x <= d + n * i
<1>1. m * i <= n * i /\ m * i \in Nat /\ n * i \in Nat
  BY Times
<1> DEFINE p == m * i  q == n * i
<1>2. x <= d + p /\ p <= q /\ p \in Nat /\ q \in Nat
  BY <1>1
<1> HIDE DEF p, q
<1>3. x <= d + q
  BY <1>2
<1> QED
  BY <1>3 DEF q

LEMMA OneMore ==
    ASSUME NEW x \in Int, NEW y \in Int, NEW d \in Int, NEW m \in Nat, NEW i \in Nat,
           x <= d + m * i, y <= x + i
    PROVE  y <= d + (m + 1) * i
<1>1. m * i \in Nat /\ (m + 1) * i = m * i + i
  BY Times
<1> DEFINE p == m * i
<1>2. x <= d + p /\ p \in Nat /\ (m + 1) * i = p + i
  BY <1>1
<1> HIDE DEF p
<1>3. y <= d + (p + i)
  BY <1>2
<1> QED
  BY <1>2, <1>3

\* Sets of messages.
LEMMA CountType ==
    ASSUME NEW S, S \subseteq Task
    PROVE  IsFiniteSet(S) /\ Cardinality(S) \in Nat
BY FS_Subset, FS_CardinalityType, HostCertAssumption

LEMMA CountGrows ==
    ASSUME NEW S, NEW R, R \subseteq Task, S \subseteq R
    PROVE  Cardinality(S) \in Nat /\ Cardinality(R) \in Nat /\ Cardinality(S) <= Cardinality(R)
BY FS_Subset, CountType

LEMMA CountLosesOne ==
    ASSUME NEW S, NEW R, NEW t, S \subseteq Task, R \subseteq Task, S \subseteq R \cup {t}
    PROVE  /\ Cardinality(S) \in Nat /\ Cardinality(R) \in Nat
           /\ Cardinality(S) <= Cardinality(R) + 1
<1>1. IsFiniteSet(R) /\ Cardinality(R) \in Nat /\ Cardinality(S) \in Nat
  BY CountType
<1>2. IsFiniteSet(R \cup {t}) /\ Cardinality(R \cup {t}) <= Cardinality(R) + 1
      /\ Cardinality(R \cup {t}) \in Nat
  <2>1. /\ IsFiniteSet(R \cup {t})
        /\ Cardinality(R \cup {t}) = Cardinality(R) \/ Cardinality(R \cup {t}) = Cardinality(R) + 1
    BY <1>1, FS_AddElement
  <2> QED
    BY <1>1, <2>1
<1>3. Cardinality(S) <= Cardinality(R \cup {t})
  BY <1>2, FS_Subset
<1> QED
  BY <1>1, <1>2, <1>3

LEMMA Subsets == Rotations \subseteq Task /\ Sent \subseteq Task /\ \A t : Older(t) \subseteq Task
BY DEF Rotations, Sent, Older

LEMMA PaceNumbers ==
    ASSUME TypeOK, NEW b \in Nat
    PROVE  /\ DueFrom(b) \in Int /\ Cardinality(Sent) \in Nat /\ missed \in Nat
           /\ lastSweep \in Int /\ lastSweep <= now /\ now \in Nat /\ Interval \in Nat
           /\ \A t \in Task : /\ now - age[t] \in Int /\ now - age[t] <= now /\ age[t] \in Nat
                              /\ Cardinality(Older(t)) \in Nat
<1>1. /\ now \in Nat /\ lastSweep \in Nat /\ lastSweep <= now /\ missed \in Nat
      /\ RenewBefore \in Nat /\ Interval \in Nat /\ MaxAge \in Nat
      /\ \A t \in Task : age[t] \in Nat
  BY Numbers
<1>2. Cardinality(Sent) \in Nat /\ \A t \in Task : Cardinality(Older(t)) \in Nat
  BY Subsets, CountType
<1> QED
  BY <1>1, <1>2 DEF DueFrom

\* A certificate that is not due yet.
LEMMA FreshIsKept ==
    ASSUME TypeOK, NEW b \in Nat, now <= DueFrom(b)
    PROVE  Kept(b)
<1>0. /\ DueFrom(b) \in Int /\ Cardinality(Sent) \in Nat /\ missed \in Nat
      /\ lastSweep \in Int /\ lastSweep <= now /\ now \in Nat /\ Interval \in Nat
      /\ \A t \in Task : /\ now - age[t] \in Int /\ now - age[t] <= now
                         /\ Cardinality(Older(t)) \in Nat
  BY PaceNumbers
<1>1. \A x \in Int, d \in Int, m \in Nat : x <= d => x <= d + m * Interval
  <2>1. \A m \in Nat : m * Interval \in Nat
    BY <1>0
  <2>2. \A x \in Int, d \in Int, p \in Nat : x <= d => x <= d + p
    OBVIOUS
  <2> QED
    BY <2>1, <2>2
<1>2. SweepsKept(b)
  <2>1. lastSweep <= DueFrom(b) /\ missed + Cardinality(Sent) \in Nat
    BY <1>0
  <2> QED
    BY <1>0, <1>1, <2>1 DEF SweepsKept
<1>3. ASSUME NEW t \in Task PROVE MessageKept(b, t)
  <2>1. now - age[t] <= DueFrom(b) /\ missed + 1 + Cardinality(Older(t)) \in Nat
        /\ now - age[t] \in Int
    BY <1>0
  <2> QED
    BY <1>0, <1>1, <2>1 DEF MessageKept
<1> QED
  BY <1>2, <1>3 DEF Kept

\* A step that ends at most as many rotations as it counts: what is known of the
\* messages there were, and of the sweeps, stays true.
Counts ==
    \/ Rotations \subseteq Rotations' /\ missed <= missed'
    \/ \E t \in Task : Rotations \subseteq Rotations' \cup {t} /\ missed + 1 <= missed'

SameAges == \A u \in Task : pc[u] # "free" /\ pc'[u] # "free" => age'[u] = age[u]

LEMMA CountOf ==
    ASSUME TypeOK, TypeOK', Counts, NEW S, NEW R, S \subseteq Rotations, R \subseteq Rotations',
           S \cap Rotations' \subseteq R
    PROVE  /\ Cardinality(S) \in Nat /\ Cardinality(R) \in Nat /\ missed \in Nat /\ missed' \in Nat
           /\ missed + Cardinality(S) <= missed' + Cardinality(R)
<1>0. missed \in Nat /\ missed' \in Nat /\ S \subseteq Task /\ R \subseteq Task
  BY DEF TypeOK, Rotations
<1>1. CASE Rotations \subseteq Rotations' /\ missed <= missed'
  <2>1. S \subseteq R
    BY <1>1
  <2>2. Cardinality(S) \in Nat /\ Cardinality(R) \in Nat /\ Cardinality(S) <= Cardinality(R)
    BY <1>0, <2>1, CountGrows
  <2> QED
    BY <1>0, <1>1, <2>2
<1>2. CASE \E t \in Task : Rotations \subseteq Rotations' \cup {t} /\ missed + 1 <= missed'
  <2>1. PICK t \in Task : Rotations \subseteq Rotations' \cup {t} /\ missed + 1 <= missed'
    BY <1>2
  <2>2. S \subseteq R \cup {t}
    BY <2>1
  <2>3. Cardinality(S) \in Nat /\ Cardinality(R) \in Nat /\ Cardinality(S) <= Cardinality(R) + 1
    BY <1>0, <2>2, CountLosesOne
  <2> QED
    BY <1>0, <2>1, <2>3
<1> QED
  BY <1>1, <1>2 DEF Counts

LEMMA SteadyMessages ==
    ASSUME TypeOK, TypeOK', now' = now, SameAges, Counts, NEW b \in Nat, Kept(b),
           NEW u \in Task, pc[u] # "free", pc'[u] # "free"
    PROVE  MessageKept(b, u)'
<1>0. /\ DueFrom(b) \in Int /\ now \in Nat /\ Interval \in Nat /\ now - age[u] \in Int
      /\ age'[u] = age[u]
  BY PaceNumbers DEF SameAges
<1>1. Older(u) \subseteq Rotations /\ Older(u)' \subseteq Rotations'
  BY DEF Older
<1>2. Older(u) \cap Rotations' \subseteq Older(u)'
  BY <1>0 DEF Older, Rotations, Waiting, SameAges
<1>3. /\ Cardinality(Older(u)) \in Nat /\ Cardinality(Older(u)') \in Nat
      /\ missed \in Nat /\ missed' \in Nat
      /\ missed + Cardinality(Older(u)) <= missed' + Cardinality(Older(u)')
  BY <1>1, <1>2, CountOf
<1>4. now - age[u] <= DueFrom(b) + (missed + 1 + Cardinality(Older(u))) * Interval
  BY DEF Kept, MessageKept
<1>5. now - age[u] <= DueFrom(b) + (missed' + 1 + Cardinality(Older(u)')) * Interval
  <2>1. /\ missed + 1 + Cardinality(Older(u)) \in Nat /\ missed' + 1 + Cardinality(Older(u)') \in Nat
        /\ missed + 1 + Cardinality(Older(u)) <= missed' + 1 + Cardinality(Older(u)')
    BY <1>3
  <2> QED
    BY <1>0, <1>4, <2>1, MoreTime
<1> QED
  BY <1>0, <1>5 DEF MessageKept, DueFrom

LEMMA SteadySweeps ==
    ASSUME TypeOK, TypeOK', UNCHANGED <<now, lastSweep>>, SameAges, Counts, NEW b \in Nat, Kept(b)
    PROVE  SweepsKept(b)'
<1>0. DueFrom(b) \in Int /\ lastSweep \in Int /\ Interval \in Nat
  BY PaceNumbers
<1>1. Sent \subseteq Rotations /\ Sent' \subseteq Rotations'
  BY DEF Sent
<1>2. Sent \cap Rotations' \subseteq Sent'
  BY DEF Sent, Rotations, Waiting, SameAges
<1>3. /\ Cardinality(Sent) \in Nat /\ Cardinality(Sent') \in Nat
      /\ missed \in Nat /\ missed' \in Nat
      /\ missed + Cardinality(Sent) <= missed' + Cardinality(Sent')
  BY <1>1, <1>2, CountOf
<1>4. lastSweep <= DueFrom(b) + (missed + Cardinality(Sent)) * Interval
  BY DEF Kept, SweepsKept
<1>5. lastSweep <= DueFrom(b) + (missed' + Cardinality(Sent')) * Interval
  <2>1. /\ missed + Cardinality(Sent) \in Nat /\ missed' + Cardinality(Sent') \in Nat
    BY <1>3
  <2> QED
    BY <1>0, <1>3, <1>4, <2>1, MoreTime
<1> QED
  BY <1>5 DEF SweepsKept, DueFrom

LEMMA SteadyPace ==
    ASSUME TypeOK, TypeOK', UNCHANGED <<now, lastSweep>>, SameAges, Counts,
           \A u \in Task : pc'[u] # "free" => pc[u] # "free", NEW b \in Nat, Kept(b)
    PROVE  Kept(b)'
<1>1. SweepsKept(b)'
  BY SteadySweeps
<1>2. ASSUME NEW u \in Task, pc'[u] # "free" PROVE MessageKept(b, u)'
  BY <1>2, SteadyMessages
<1> QED
  BY <1>1, <1>2 DEF Kept

\* Whatever is sent now is sent in time.
Aged == {u \in Rotations : age[u] > 0}

LEMMA InTime ==
    ASSUME TypeOK, Punctual, NEW b \in Nat, Kept(b)
    PROVE  /\ Cardinality(Aged) \in Nat
           /\ now <= DueFrom(b) + (missed + 1 + Cardinality(Aged)) * Interval
<1>0. /\ DueFrom(b) \in Int /\ Cardinality(Sent) \in Nat /\ missed \in Nat
      /\ lastSweep \in Int /\ now \in Nat /\ Interval \in Nat
      /\ \A t \in Task : age[t] \in Nat
  BY PaceNumbers
<1>1. Aged \subseteq Task /\ Cardinality(Aged) \in Nat
  BY CountType DEF Aged, Rotations
<1>2. CASE \E u \in Rotations : age[u] = 0
  <2>1. PICK u \in Rotations : age[u] = 0
    BY <1>2
  <2>2. u \in Task /\ pc[u] # "free" /\ Older(u) = Aged
    BY <2>1 DEF Rotations, Waiting, Older, Aged
  <2>3. now - age[u] <= DueFrom(b) + (missed + 1 + Cardinality(Aged)) * Interval
    BY <2>2 DEF Kept, MessageKept
  <2>4. now - age[u] = now
    BY <1>0, <2>1
  <2> QED
    BY <1>1, <2>3, <2>4
<1>3. CASE ~\E u \in Rotations : age[u] = 0
  <2>1. Sent \subseteq Aged
    <3>1. \A u \in Rotations : age[u] \in Nat /\ age[u] # 0
      BY <1>0, <1>3 DEF Rotations
    <3> QED
      BY <3>1 DEF Sent, Aged
  <2>2. Cardinality(Sent) <= Cardinality(Aged)
    BY <1>1, <2>1, CountGrows
  <2>3. lastSweep <= DueFrom(b) + (missed + Cardinality(Sent)) * Interval
    BY DEF Kept, SweepsKept
  <2>4. missed + Cardinality(Sent) \in Nat /\ missed + Cardinality(Aged) \in Nat
        /\ missed + Cardinality(Sent) <= missed + Cardinality(Aged)
    BY <1>0, <1>1, <2>2
  <2>5. lastSweep <= DueFrom(b) + (missed + Cardinality(Aged)) * Interval
    BY <1>0, <2>3, <2>4, MoreTime
  <2>6. now <= lastSweep + Interval
    BY DEF Punctual
  <2>7. now <= DueFrom(b) + (missed + Cardinality(Aged) + 1) * Interval
    BY <1>0, <2>4, <2>5, <2>6, OneMore
  <2>8. missed + Cardinality(Aged) + 1 = missed + 1 + Cardinality(Aged)
    BY <1>0, <1>1
  <2> QED
    BY <1>1, <2>7, <2>8
<1> QED
  BY <1>2, <1>3

\* The same for the state after a step.
FreshKept == \A b \in Nat : now <= DueFrom(b) => Kept(b)

LEMMA FreshAfter == TypeOK' => FreshKept'
<1>1. TypeOK => FreshKept
  BY FreshIsKept DEF FreshKept
<1> QED
  BY <1>1, PTL

LEMMA PaceAfter ==
    ASSUME NEW b \in Nat, NEW c \in Nat, b = disk'.before, c = served'.before,
           status' = "ready" /\ RenewBefore + MaxAge <= Ttl => Kept(b)' /\ Kept(c)'
    PROVE  PaceInv'
BY DEF PaceInv, Kept, SweepsKept, MessageKept, DueFrom

\* A certificate that was signed at most two MaxAges ago is not due.
LEMMA RecentIsKept ==
    ASSUME TypeOK', RenewBefore + MaxAge <= Ttl, NEW b \in Nat, now' + Ttl <= b + 2 * MaxAge
    PROVE  Kept(b)'
<1>1. FreshKept'
  BY FreshAfter
<1>2. now' \in Nat /\ Ttl \in Nat /\ MaxAge \in Nat /\ RenewBefore \in Nat
  BY HostCertAssumption DEF TypeOK
<1>3. now' <= DueFrom(b)'
  <2>1. \A n, l, m, r \in Nat : n + l <= b + 2 * m /\ r + m <= l => n <= b + m - r
    OBVIOUS
  <2> QED
    BY <1>2, <2>1 DEF DueFrom
<1> QED
  BY <1>1, <1>3 DEF FreshKept

LEMMA HostNumbers ==
    ASSUME TypeOK, TypeOK'
    PROVE  /\ disk.before \in Nat /\ served.before \in Nat
           /\ disk'.before \in Nat /\ served'.before \in Nat
           /\ now \in Nat /\ now' \in Nat /\ Ttl \in Nat /\ MaxAge \in Nat /\ RenewBefore \in Nat
BY HostCertAssumption DEF TypeOK, Cert

LEMMA RecentPace ==
    ASSUME TypeOK, TypeOK', now' = now,
           now + Ttl <= disk'.before + 2 * MaxAge, now + Ttl <= served'.before + 2 * MaxAge
    PROVE  PaceInv'
<1>1. PICK b \in Nat, c \in Nat : b = disk'.before /\ c = served'.before
  BY HostNumbers
<1>2. RenewBefore + MaxAge <= Ttl => Kept(b)' /\ Kept(c)'
  BY <1>1, RecentIsKept
<1> QED
  BY <1>1, <1>2, PaceAfter

\* A step that installs at most a new certificate, and loads at most what is installed.
LEMMA SteadyHost ==
    ASSUME TypeOK, TypeOK', PaceInv, UNCHANGED <<now, lastSweep>>, SameAges, Counts,
           \A u \in Task : pc'[u] # "free" => pc[u] # "free",
           status' = "ready" => status = "ready", HostStep
    PROVE  PaceInv'
<1>0. /\ disk.before \in Nat /\ served.before \in Nat /\ now \in Nat /\ Ttl \in Nat /\ MaxAge \in Nat
  BY HostNumbers
<1>1. PICK b \in Nat, c \in Nat : b = disk'.before /\ c = served'.before
  BY HostNumbers
<1>2. ASSUME status' = "ready", RenewBefore + MaxAge <= Ttl
      PROVE  Kept(b)' /\ Kept(c)'
  <2>1. Kept(disk.before) /\ Kept(served.before)
    BY <1>2 DEF PaceInv
  <2>2. PICK d \in Nat, s \in Nat : d = disk.before /\ s = served.before
    BY <1>0
  <2>3. Kept(d) /\ Kept(s)
    BY <2>1, <2>2
  <2>4. Kept(d)' /\ Kept(s)'
    BY <2>3, SteadyPace
  <2>5. c = s \/ c = d
    BY <1>1, <2>2 DEF HostStep
  <2>6. b = d \/ now' + Ttl <= b + 2 * MaxAge
    <3>1. disk' = disk \/ now + Ttl <= disk'.before + MaxAge
      BY DEF HostStep
    <3> QED
      BY <1>0, <1>1, <2>2, <3>1
  <2>7. b # d => Kept(b)'
    BY <1>2, <2>6, RecentIsKept
  <2> QED
    BY <2>4, <2>5, <2>7
<1> QED
  BY <1>1, <1>2, PaceAfter

\* A message that is sent, by a sweep or on request.
LEMMA SendKeeps ==
    ASSUME TypeOK, TypeOK', Punctual, UNCHANGED <<now, missed>>, NEW k, Send(k),
           NEW b \in Nat, Kept(b)
    PROVE  /\ SameAges /\ Counts
           /\ \A u \in Task : pc'[u] # "free" => MessageKept(b, u)'
           /\ k = "rotate" =>
                \E t \in Task : t \notin Aged /\ Aged \cup {t} \subseteq Rotations'
<1>1. PICK t \in Task : /\ pc[t] = "free" /\ pc' = [pc EXCEPT ![t] = "queued"]
                        /\ kind' = [kind EXCEPT ![t] = k]
                        /\ age' = [age EXCEPT ![t] = 0]
  BY DEF Send
<1>2. /\ pc'[t] = "queued" /\ kind'[t] = k /\ age'[t] = 0
      /\ \A u \in Task \ {t} : pc'[u] = pc[u] /\ kind'[u] = kind[u] /\ age'[u] = age[u]
  BY <1>1 DEF TypeOK
<1>3. t \notin Rotations /\ Rotations \subseteq Rotations' /\ (k = "rotate" => t \in Rotations')
  BY <1>1, <1>2 DEF Rotations, Waiting
<1>4. SameAges
  BY <1>1, <1>2 DEF SameAges
<1>5. Counts
  BY <1>3 DEF Counts, TypeOK
<1>6. ASSUME NEW u \in Task, u # t, pc'[u] # "free" PROVE MessageKept(b, u)'
  BY <1>2, <1>4, <1>5, <1>6, SteadyMessages
<1>7. MessageKept(b, t)'
  <2>0. DueFrom(b) \in Int /\ missed \in Nat /\ now \in Nat /\ Interval \in Nat
    BY PaceNumbers
  <2>1. /\ Cardinality(Aged) \in Nat
        /\ now <= DueFrom(b) + (missed + 1 + Cardinality(Aged)) * Interval
    BY InTime
  <2>2. Aged \subseteq Older(t)' /\ Older(t)' \subseteq Task
    BY <1>2, <1>3 DEF Aged, Older, Rotations
  <2>3. Cardinality(Older(t)') \in Nat /\ Cardinality(Aged) <= Cardinality(Older(t)')
    BY <2>2, CountGrows
  <2>4. /\ missed + 1 + Cardinality(Aged) \in Nat /\ missed + 1 + Cardinality(Older(t)') \in Nat
        /\ missed + 1 + Cardinality(Aged) <= missed + 1 + Cardinality(Older(t)')
    BY <2>0, <2>1, <2>3
  <2>5. now <= DueFrom(b) + (missed + 1 + Cardinality(Older(t)')) * Interval
    BY <2>0, <2>1, <2>4, MoreTime
  <2>6. now' - age'[t] = now
    BY <1>2, <2>0
  <2> QED
    BY <2>5, <2>6 DEF MessageKept, DueFrom
<1>8. k = "rotate" => t \notin Aged /\ Aged \cup {t} \subseteq Rotations'
  BY <1>3 DEF Aged
<1> QED
  BY <1>4, <1>5, <1>6, <1>7, <1>8

LEMMA RequestKeeps ==
    ASSUME TypeOK, TypeOK', Punctual, UNCHANGED <<now, missed, lastSweep>>, NEW k, Send(k),
           NEW b \in Nat, Kept(b)
    PROVE  Kept(b)'
BY SendKeeps, SteadySweeps DEF Kept

\* All that is waiting was sent by the sweep that is running, or before it.
LEMMA SweepCounts ==
    ASSUME TypeOK, TypeOK', Punctual, now' = now, lastSweep' = now, NEW b \in Nat, Kept(b),
           NEW S, S \subseteq Rotations', IsFiniteSet(S),
           missed + 1 + Cardinality(Aged) <= missed' + Cardinality(S)
    PROVE  SweepsKept(b)'
<1>0. DueFrom(b) \in Int /\ missed \in Nat /\ missed' \in Nat /\ now \in Nat /\ Interval \in Nat
  BY PaceNumbers DEF TypeOK
<1>1. /\ Cardinality(Aged) \in Nat
      /\ now <= DueFrom(b) + (missed + 1 + Cardinality(Aged)) * Interval
  BY InTime
<1>2. Sent' = Rotations'
  <2>1. \A u \in Task : age'[u] \in Nat
    BY DEF TypeOK
  <2>2. now' - lastSweep' = 0
    BY <1>0
  <2> QED
    BY <2>1, <2>2 DEF Sent, Rotations
<1>3. Cardinality(S) \in Nat /\ Cardinality(Sent') \in Nat /\ Cardinality(S) <= Cardinality(Sent')
  <2>1. Sent' \subseteq Task /\ S \subseteq Sent'
    BY <1>2 DEF Rotations
  <2> QED
    BY <2>1, CountGrows
<1>4. /\ missed + 1 + Cardinality(Aged) \in Nat /\ missed' + Cardinality(Sent') \in Nat
      /\ missed + 1 + Cardinality(Aged) <= missed' + Cardinality(Sent')
  BY <1>0, <1>1, <1>3
<1>5. now <= DueFrom(b) + (missed' + Cardinality(Sent')) * Interval
  BY <1>0, <1>1, <1>4, MoreTime
<1> QED
  BY <1>5 DEF SweepsKept, DueFrom

\* The sweep renews the certificate, has its reasons not to, or misses one.
LEMMA SweepKeeps ==
    ASSUME TypeOK, TypeOK', Punctual, Sweep, status = "ready", NEW b \in Nat, Kept(b),
           rec.before <= b + MaxAge
    PROVE  Kept(b)'
<1>0. now' = now /\ lastSweep' = now
  BY DEF Sweep
<1>1. Aged \subseteq Task /\ IsFiniteSet(Aged) /\ Cardinality(Aged) \in Nat
  BY CountType DEF Aged, Rotations
<1>2. CASE ~Due
  <2>1. now \in Nat /\ RenewBefore \in Nat /\ MaxAge \in Nat /\ rec.before \in Nat
    BY Numbers
  <2>2. now' <= DueFrom(b)'
    <3>1. ~(rec.before < now + RenewBefore)
      BY <1>2 DEF Due
    <3> QED
      BY <1>0, <2>1, <3>1 DEF DueFrom
  <2> QED
    BY <2>2, FreshAfter DEF FreshKept
<1>3. CASE Send("rotate") /\ missed' = missed
  <2>1. /\ \A u \in Task : pc'[u] # "free" => MessageKept(b, u)'
        /\ \E t \in Task : t \notin Aged /\ Aged \cup {t} \subseteq Rotations'
    BY <1>0, <1>3, SendKeeps
  <2>2. PICK t \in Task : t \notin Aged /\ Aged \cup {t} \subseteq Rotations'
    BY <2>1
  <2>3. IsFiniteSet(Aged \cup {t}) /\ Cardinality(Aged \cup {t}) = Cardinality(Aged) + 1
    BY <1>1, <2>2, FS_AddElement
  <2>4. missed + 1 + Cardinality(Aged) <= missed' + Cardinality(Aged \cup {t})
    BY <1>1, <1>3, <2>3 DEF TypeOK
  <2>5. SweepsKept(b)'
    BY <1>0, <2>2, <2>3, <2>4, SweepCounts
  <2> QED
    BY <2>1, <2>5 DEF Kept
<1>4. CASE missed' = missed + 1 /\ UNCHANGED taskvars
  <2>1. UNCHANGED <<pc, kind, age>>
    BY <1>4 DEF taskvars
  <2>2. Rotations' = Rotations
    BY <2>1 DEF Rotations
  <2>3. Counts /\ SameAges
    <3>1. missed <= missed'
      BY <1>4 DEF TypeOK
    <3> QED
      BY <2>1, <2>2, <3>1 DEF Counts, SameAges
  <2>4. Aged \subseteq Rotations' /\ missed + 1 + Cardinality(Aged) <= missed' + Cardinality(Aged)
    BY <1>1, <1>4, <2>2 DEF Aged, TypeOK
  <2>5. SweepsKept(b)'
    BY <1>0, <1>1, <2>4, SweepCounts
  <2>6. ASSUME NEW u \in Task, pc'[u] # "free" PROVE MessageKept(b, u)'
    BY <1>0, <2>1, <2>3, <2>6, SteadyMessages
  <2> QED
    BY <2>5, <2>6 DEF Kept
<1> QED
  BY <1>2, <1>3, <1>4 DEF Sweep

LEMMA TickKeeps ==
    ASSUME TypeOK, TypeOK', Tick, NEW b \in Nat, Kept(b)
    PROVE  Kept(b)'
<1>0. now \in Nat /\ lastSweep \in Nat /\ \A u \in Task : age[u] \in Nat
  BY Numbers
<1>1. /\ now' = now + 1 /\ UNCHANGED <<lastSweep, pc, kind, missed>>
      /\ \A u \in Task : pc[u] # "free" => age'[u] = age[u] + 1
  BY DEF Tick
<1>2. Rotations' = Rotations
  BY <1>1 DEF Rotations
<1>3. \A u \in Rotations : u \in Task /\ age[u] \in Nat /\ age'[u] = age[u] + 1
  BY <1>0, <1>1 DEF Rotations, Waiting
<1>4. Sent' = Sent
  <2>1. \A u \in Rotations : age'[u] >= now' - lastSweep' <=> age[u] >= now - lastSweep
    BY <1>0, <1>1, <1>3
  <2> QED
    BY <1>2, <2>1 DEF Sent
<1>5. SweepsKept(b)'
  BY <1>1, <1>4 DEF Kept, SweepsKept, DueFrom
<1>6. ASSUME NEW t \in Task, pc'[t] # "free" PROVE MessageKept(b, t)'
  <2>1. age[t] \in Nat /\ age'[t] = age[t] + 1
    BY <1>0, <1>1, <1>6
  <2>2. Older(t)' = Older(t)
    <3>1. \A u \in Rotations : age'[u] > age'[t] <=> age[u] > age[t]
      BY <1>3, <2>1
    <3> QED
      BY <1>2, <3>1 DEF Older
  <2>3. now' - age'[t] = now - age[t]
    BY <1>0, <1>1, <2>1
  <2>4. MessageKept(b, t)
    BY <1>1, <1>6 DEF Kept
  <2> QED
    BY <1>1, <2>2, <2>3, <2>4 DEF MessageKept, DueFrom
<1> QED
  BY <1>5, <1>6 DEF Kept

LEMMA InitPace == Init => PaceInv
<1> SUFFICES ASSUME Init, status = "ready" PROVE Kept(disk.before) /\ Kept(served.before)
  BY DEF PaceInv
<1>1. TypeOK /\ now = 0 /\ disk.before = Ttl /\ served.before = Ttl
  BY InitType, HostCertAssumption DEF Init, Issued
<1>2. Ttl \in Nat /\ now <= DueFrom(Ttl)
  BY <1>1, HostCertAssumption DEF DueFrom, WindowsValid
<1> QED
  BY <1>1, <1>2, FreshIsKept

\* A step that leaves the host alone.
LEMMA HostKept ==
    ASSUME TypeOK, TypeOK', PaceInv, UNCHANGED <<disk, served>>,
           status' = "ready" => status = "ready",
           \A b \in Nat : /\ b = disk.before \/ b = served.before
                          /\ status = "ready" /\ Kept(b)
                          => Kept(b)'
    PROVE  PaceInv'
<1>1. PICK b \in Nat, c \in Nat : b = disk.before /\ c = served.before
  BY HostNumbers
<1>2. status' = "ready" /\ RenewBefore + MaxAge <= Ttl => Kept(b)' /\ Kept(c)'
  BY <1>1 DEF PaceInv
<1> QED
  BY <1>1, <1>2, PaceAfter

LEMMA TaskCounts ==
    ASSUME TypeOK, NEW t \in Task, NEW next, pc' = [pc EXCEPT ![t] = next], kind' = kind,
           \/ missed' = missed /\ (next \in Waiting \/ pc[t] \notin Waiting \/ kind[t] # "rotate")
           \/ CountMiss(t)
    PROVE  Counts
<1>0. missed \in Nat /\ pc'[t] = next /\ \A u \in Task \ {t} : pc'[u] = pc[u]
  BY DEF TypeOK
<1>1. Rotations \subseteq Rotations' \cup {t}
  BY <1>0 DEF Rotations
<1>2. next \in Waiting \/ pc[t] \notin Waiting \/ kind[t] # "rotate" => Rotations \subseteq Rotations'
  BY <1>0 DEF Rotations
<1>3. \/ missed' = missed /\ (next \in Waiting \/ pc[t] \notin Waiting \/ kind[t] # "rotate")
      \/ missed' = missed + 1
  BY DEF CountMiss
<1> QED
  BY <1>0, <1>1, <1>2, <1>3 DEF Counts

LEMMA OutsidePace ==
    ASSUME AgeInv, PaceInv, TypeOK', Tick \/ Sweep \/ RequestStep
    PROVE  PaceInv'
<1>0. TypeOK /\ Punctual /\ NearRecord /\ Booting /\ Timed
  BY DEF AgeInv
<1>1. CASE Tick
  <2>1. UNCHANGED <<disk, served, status>>
    BY <1>1 DEF Tick, hostvars, rowvars
  <2> QED
    BY <1>0, <1>1, <2>1, TickKeeps, HostKept
<1>2. CASE Sweep
  <2>1. UNCHANGED <<disk, served, status>>
    BY <1>2 DEF Sweep, hostvars, rowvars
  <2>2. ASSUME NEW b \in Nat, b = disk.before \/ b = served.before, status = "ready", Kept(b)
        PROVE  Kept(b)'
    BY <1>0, <1>2, <2>2, SweepKeeps DEF NearRecord
  <2> QED
    BY <1>0, <2>1, <2>2, HostKept
<1>3. ASSUME NEW k \in Kind, Request(k) PROVE PaceInv'
  <2>1. UNCHANGED <<now, lastSweep, missed, disk, served, status>> /\ Send(k)
    BY <1>3 DEF Request, hostvars, rowvars
  <2>2. ASSUME NEW b \in Nat, Kept(b) PROVE Kept(b)'
    BY <1>0, <2>1, <2>2, RequestKeeps
  <2> QED
    BY <1>0, <2>1, <2>2, HostKept
<1>4. CASE Reprovision
  BY <1>4 DEF Reprovision, PaceInv
<1>5. ASSUME UNCHANGED <<now, lastSweep, missed, status, pc, kind, age>>, HostStep
      PROVE  PaceInv'
  <2>1. SameAges /\ Rotations' = Rotations
    BY <1>5 DEF SameAges, Rotations
  <2>2. Counts
    BY <1>0, <1>5, <2>1 DEF Counts, TypeOK
  <2> QED
    BY <1>0, <1>5, <2>1, <2>2, SteadyHost
<1>6. ASSUME NEW n \in Name, Rename(n) \/ BootstrapSign(n) PROVE PaceInv'
  <2>1. UNCHANGED <<now, lastSweep, missed, status, pc, kind, age, disk, served>>
    BY <1>6 DEF Rename, BootstrapSign, hostvars, rowvars, taskvars
  <2> QED
    BY <1>5, <2>1, SameHost
<1>7. CASE BootstrapFails
  <2>1. UNCHANGED <<now, lastSweep, missed, status, pc, kind, age, disk, served>>
    BY <1>7 DEF BootstrapFails, hostvars, rowvars, taskvars
  <2> QED
    BY <1>5, <2>1, SameHost
<1>8. CASE BootstrapWrite
  <2>1. /\ UNCHANGED <<now, lastSweep, missed, status, pc, kind, age, served>>
        /\ disk' = bootCert /\ boot = "signed"
    BY <1>8 DEF BootstrapWrite, rowvars, taskvars
  <2>2. HostStep
    BY <1>0, <2>1 DEF HostStep, Booting, Timed
  <2> QED
    BY <1>5, <2>1, <2>2
<1>9. CASE BootstrapReload
  <2>1. now' = now /\ disk' = disk /\ served' = disk /\ boot = "written"
    BY <1>9 DEF BootstrapReload
  <2>2. now + Ttl <= disk.before + 2 * MaxAge
    <3>1. /\ now \in Nat /\ Ttl \in Nat /\ MaxAge \in Nat /\ disk.before \in Nat
          /\ bootCert.before \in Nat
      BY <1>0, Numbers
    <3>2. now + Ttl <= bootCert.before + MaxAge /\ bootCert.before <= disk.before + MaxAge
      BY <1>0, <2>1 DEF Booting
    <3> QED
      BY <3>1, <3>2
  <2> QED
    BY <1>0, <2>1, <2>2, RecentPace
<1> QED
  BY <1>1, <1>2, <1>3, <1>4, <1>6, <1>7, <1>8, <1>9 DEF RequestStep

LEMMA TaskPace ==
    ASSUME AgeInv, PaceInv, TypeOK', NEW t \in Task, TaskStep(t) \/ Mishap(t)
    PROVE  PaceInv'
<1>0. TypeOK /\ Punctual /\ InFlight(t) /\ Timed
  BY DEF AgeInv
<1>1. ASSUME NEW next, next # "free" => pc[t] # "free", pc' = [pc EXCEPT ![t] = next], kind' = kind,
             age' = age \/ (next = "free" /\ \A u \in Task \ {t} : age'[u] = age[u]),
             \/ missed' = missed /\ (next \in Waiting \/ pc[t] \notin Waiting \/ kind[t] # "rotate")
             \/ CountMiss(t),
             UNCHANGED <<now, lastSweep>>, status' = "ready" => status = "ready", HostStep
      PROVE  PaceInv'
  <2>1. Counts
    BY <1>0, <1>1, TaskCounts
  <2>2. pc'[t] = next /\ \A u \in Task \ {t} : pc'[u] = pc[u]
    BY <1>0, <1>1 DEF TypeOK
  <2>3. SameAges /\ \A u \in Task : pc'[u] # "free" => pc[u] # "free"
    BY <1>1, <2>2 DEF SameAges
  <2> QED
    BY <1>0, <1>1, <2>1, <2>3, SteadyHost
<1>2. CASE Start(t) \/ Connect(t) \/ Sign(t) \/ Bootstrapped(t)
  <2>1. /\ UNCHANGED <<now, lastSweep, missed, status, disk, served, kind, age>> /\ pc[t] # "free"
        /\ \E next \in {"loaded", "connected", "signed"} : pc' = [pc EXCEPT ![t] = next]
    BY <1>2 DEF Start, Connect, Sign, Bootstrapped, rowvars, hostvars
  <2> QED
    BY <1>1, <2>1, SameHost DEF Waiting
<1>3. CASE Skip(t)
  <2>1. /\ UNCHANGED <<now, lastSweep, status, disk, served, kind, age>> /\ pc[t] # "free"
        /\ pc' = [pc EXCEPT ![t] = "finished"] /\ CountMiss(t)
    BY <1>3 DEF Skip, rowvars, hostvars
  <2> QED
    BY <1>1, <2>1, SameHost
<1>4. CASE Refused(t) \/ TaskFails(t)
  <2>1. /\ EndInFailure(t) /\ pc[t] # "free"
        /\ UNCHANGED <<disk, served>> \/ CutShort(t)
    BY <1>4 DEF Refused, TaskFails, hostvars, Held
  <2>2. /\ UNCHANGED <<now, lastSweep, kind, age>> /\ CountMiss(t)
        /\ pc' = [pc EXCEPT ![t] = "finished"]
        /\ status' = "ready" => status = "ready"
    BY <2>1 DEF EndInFailure, Leave, SetStatus
  <2>3. HostStep
    BY <2>1, SameHost, CutShortHost
  <2> QED
    BY <1>1, <2>1, <2>2, <2>3
<1>5. CASE WriteCert(t)
  <2>1. /\ UNCHANGED <<now, lastSweep, missed, status, served, kind, age>> /\ pc[t] = "signed"
        /\ pc' = [pc EXCEPT ![t] = "written"] /\ disk' = cert[t]
    BY <1>5 DEF WriteCert, rowvars
  <2>2. HostStep
    BY <2>1, TaskCert DEF HostStep, Signed
  <2> QED
    BY <1>1, <2>1, <2>2 DEF Waiting
<1>6. CASE ReloadSshd(t) \/ Record(t)
  <2>1. /\ now' = now /\ disk' = disk /\ pc[t] \in Signed /\ pc[t] # "signed"
        /\ served' = disk \/ (pc[t] = "reloaded" /\ served' = served)
    BY <1>6 DEF ReloadSshd, Record, hostvars, Signed
  <2>2. /\ now \in Nat /\ Ttl \in Nat /\ MaxAge \in Nat /\ disk.before \in Nat /\ served.before \in Nat
        /\ cert[t].before \in Nat
    BY <1>0, Numbers
  <2>3. now + Ttl <= cert[t].before + MaxAge
    BY <2>1, TaskCert
  <2>4. /\ cert[t].before <= disk.before + MaxAge
        /\ pc[t] = "reloaded" => cert[t].before <= served.before + MaxAge
    BY <1>0, <2>1 DEF InFlight
  <2>5. /\ now + Ttl <= disk.before + 2 * MaxAge
        /\ pc[t] = "reloaded" => now + Ttl <= served.before + 2 * MaxAge
    BY <2>2, <2>3, <2>4
  <2> QED
    BY <1>0, <2>1, <2>5, RecentPace
<1>7. CASE Reconfigured(t)
  <2>1. /\ UNCHANGED <<now, lastSweep, missed, status, disk, served, kind, age>> /\ pc[t] # "free"
        /\ pc' = [pc EXCEPT ![t] = "finished"] /\ kind[t] # "rotate"
    BY <1>7 DEF Reconfigured, Leave, rowvars, hostvars
  <2> QED
    BY <1>1, <2>1, SameHost
<1>8. CASE Ack(t)
  <2>1. /\ UNCHANGED <<now, lastSweep, missed, status, disk, served, kind>> /\ pc[t] = "finished"
        /\ pc' = [pc EXCEPT ![t] = "free"] /\ \A u \in Task \ {t} : age'[u] = age[u]
    BY <1>0, <1>8 DEF Ack, rowvars, hostvars, TypeOK
  <2> QED
    BY <1>1, <2>1, SameHost DEF Waiting
<1>9. CASE Crash(t)
  <2>1. /\ UNCHANGED <<now, lastSweep, missed, status, kind, age>> /\ pc[t] # "free"
        /\ pc' = [pc EXCEPT ![t] = "queued"] /\ CutShort(t)
    BY <1>9 DEF Crash, Leave, rowvars, Held
  <2> QED
    BY <1>1, <2>1, CutShortHost DEF Waiting
<1>10. CASE CrashBeforeAck(t)
  <2>1. /\ UNCHANGED <<now, lastSweep, missed, status, disk, served, kind, age>> /\ pc[t] # "free"
        /\ pc' = [pc EXCEPT ![t] = "queued"]
    BY <1>10 DEF CrashBeforeAck, rowvars, hostvars
  <2> QED
    BY <1>1, <2>1, SameHost DEF Waiting
<1> QED
  BY <1>2, <1>3, <1>4, <1>5, <1>6, <1>7, <1>8, <1>9, <1>10 DEF TaskStep, Mishap

LEMMA NextPace == AgeInv /\ PaceInv /\ [Next]_vars => PaceInv'
<1> SUFFICES ASSUME AgeInv, PaceInv, [Next]_vars PROVE PaceInv'
  OBVIOUS
<1>1. TypeOK'
  BY NextType DEF AgeInv
<1>2. CASE UNCHANGED vars
  BY <1>2 DEF PaceInv, Kept, SweepsKept, MessageKept, DueFrom, Sent, Older, Rotations,
              vars, rowvars, hostvars, taskvars
<1> QED
  BY <1>1, <1>2, OutsidePace, TaskPace DEF Next

\* The least number of a set of them.
LEMMA LeastNat ==
    ASSUME NEW S, S \subseteq Nat, S # {}
    PROVE  \E x \in S : \A y \in S : x <= y
<1>1. IsWellFoundedOn({ss \in Nat \X Nat : ss[1] < ss[2]}, Nat)
  BY NatLessThanWellFounded, Zenon DEF OpToRel
<1> DEFINE R == {ss \in Nat \X Nat : ss[1] < ss[2]}
<1> HIDE DEF R
<1>2. \E x \in S : \A y \in S : ~(<<y, x>> \in R)
  BY <1>1, WFMin, Zenon DEF R
<1>3. \A x, y \in S : ~(<<y, x>> \in R) => x <= y
  BY DEF R
<1> QED
  BY <1>2, <1>3

\* The oldest rotation that is still waiting, or the last sweep if none is.
LEMMA KeptIsValid ==
    ASSUME TypeOK, Punctual, NEW b \in Nat, Kept(b), ChancesLeft
    PROVE  now < b
<1>0. /\ DueFrom(b) \in Int /\ Cardinality(Sent) \in Nat /\ missed \in Nat
      /\ lastSweep \in Int /\ now \in Nat /\ Interval \in Nat
      /\ RenewBefore \in Nat /\ MaxAge \in Nat
      /\ \A t \in Task : age[t] \in Nat /\ age[t] <= MaxAge /\ now - age[t] \in Int
  BY PaceNumbers, Numbers DEF Punctual
<1>1. (missed + 1) * Interval \in Nat /\ (missed + 1) * Interval + 2 * MaxAge < RenewBefore
  BY <1>0 DEF ChancesLeft
<1>2. SUFFICES now <= DueFrom(b) + (missed + 1) * Interval + MaxAge
  <2> DEFINE p == (missed + 1) * Interval
  <2>1. p \in Nat /\ p + 2 * MaxAge < RenewBefore /\ now <= DueFrom(b) + p + MaxAge
    BY <1>1, <1>2
  <2> HIDE DEF p
  <2> QED
    BY <1>0, <2>1 DEF DueFrom
<1>3. CASE Rotations = {}
  <2>1. Cardinality(Sent) = 0
    BY <1>3, FS_EmptySet DEF Sent
  <2>2. lastSweep <= DueFrom(b) + missed * Interval
    BY <1>0, <2>1 DEF Kept, SweepsKept
  <2>3. now <= lastSweep + Interval
    BY DEF Punctual
  <2>4. now <= DueFrom(b) + (missed + 1) * Interval
    BY <1>0, <2>2, <2>3, OneMore
  <2> QED
    BY <1>0, <1>1, <2>4
<1>4. CASE Rotations # {}
  <2>1. Rotations \subseteq Task
    BY DEF Rotations
  <2> DEFINE S == {MaxAge - age[u] : u \in Rotations}
  <2>2. S \subseteq Nat /\ S # {}
    BY <1>0, <1>4, <2>1
  <2>3. PICK x \in S : \A y \in S : x <= y
    <3> HIDE DEF S
    <3> QED
      BY <2>2, LeastNat
  <2>4. PICK u \in Rotations : \A v \in Rotations : MaxAge - age[u] <= MaxAge - age[v]
    BY <2>3
  <2>5. \A v \in Rotations : ~(age[v] > age[u])
    BY <1>0, <2>1, <2>4
  <2>6. Older(u) = {} /\ u \in Task /\ pc[u] # "free"
    BY <2>5 DEF Older, Rotations, Waiting
  <2>7. Cardinality(Older(u)) = 0
    BY <2>6, FS_EmptySet
  <2>8. now - age[u] <= DueFrom(b) + (missed + 1) * Interval
    <3>1. now - age[u] <= DueFrom(b) + (missed + 1 + Cardinality(Older(u))) * Interval
      BY <2>6 DEF Kept, MessageKept
    <3>2. missed + 1 + Cardinality(Older(u)) = missed + 1
      BY <1>0, <2>7
    <3> QED
      BY <3>1, <3>2
  <2> QED
    BY <1>0, <1>1, <2>6, <2>8
<1> QED
  BY <1>3, <1>4

\* NeverLapses: what a ready host presents does not lapse as long as the renew
\* window leaves room for one more sweep than have come to nothing, whatever crashes,
\* renames, requests and runs of bootstrap-host there are.
THEOREM CertificatesNeverLapse == Spec => []NeverLapses
<1>1. AgeInv /\ PaceInv => NeverLapses
  <2> SUFFICES ASSUME AgeInv, PaceInv, status = "ready", ChancesLeft, NEW c \in Presented
               PROVE  now < c.before
    BY DEF NeverLapses
  <2>1. TypeOK /\ Punctual /\ disk.before \in Nat /\ served.before \in Nat
    BY Numbers DEF AgeInv
  <2>2. Kept(disk.before) /\ Kept(served.before)
    BY DEF PaceInv, ChancesLeft
  <2>3. now < disk.before /\ now < served.before
    BY <2>1, <2>2, KeptIsValid
  <2> QED
    BY <2>3 DEF Presented
<1> QED
  BY <1>1, InitAge, NextAge, InitPace, NextPace, PTL DEF Spec

-----------------------------------------------------------------------------
(* A row whose hostname was edited *)

\* No task was cut short after it changed the host, and nobody changed it outside
\* the lock.
Undisturbed == used["crash"] = 0 /\ used["fault"] = 0 /\ used["bootstrap"] = 0

\* A registration that waits finds a host nobody can talk to yet, and while its
\* bootstrap session lasts there is no recorded certificate.
Registering ==
    /\ \A t, u \in Task : kind[t] = "register" /\ kind[u] = "register" => t = u
    /\ \A t \in Task : pc[t] \in Held /\ session[t] = "tofu" => kind[t] = "register" /\ rec = NoCert
    /\ \A t \in Task : kind[t] = "register" /\ pc[t] = "queued" =>
           /\ rec = NoCert /\ disk = NoCert /\ served = NoCert
           /\ \A u \in Task : pc[u] \in Held => pc[u] = "loaded"

\* The row, the file and sshd agree except where the holder of the lock is between
\* two of them.
Together ==
    /\ rec = NoCert \/ rec.names # {}
    /\ \A t \in Task : pc[t] \in Signed => cert[t].names # {}
    /\ \A t \in Task : pc[t] \in {"written", "reloaded"} => disk = cert[t]
    /\ (\A t \in Task : pc[t] # "written") => served = disk
    /\ (\A t \in Task : pc[t] \notin {"written", "reloaded"}) => rec = NoCert \/ rec = disk

Orderly == boot = "idle" /\ Registering /\ Together

LEMMA InitOrderly == Init => Orderly
<1> SUFFICES ASSUME Init PROVE Orderly
  OBVIOUS
<1>1. boot = "idle" /\ \A t \in Task : pc[t] \notin Held
  BY DEF Init, Held
<1>2. Registering
  BY <1>1 DEF Init, Registering, Held
<1>3. Together
  <2>1. served = disk /\ (rec = NoCert \/ rec = disk)
    BY DEF Init
  <2>2. rec = NoCert \/ rec.names = {hostname}
    BY DEF Init, Issued
  <2> QED
    BY <1>1, <2>1, <2>2 DEF Together, Held, Signed
<1> QED
  BY <1>1, <1>2, <1>3 DEF Orderly

\* Requests, the sweep and the clock: at most a message is sent.
LEMMA OutsideOrderly ==
    ASSUME TypeOK, Orderly, Tick \/ Sweep \/ RequestStep, Undisturbed'
    PROVE  Orderly'
<1>1. ASSUME UNCHANGED <<rec, disk, served, boot, session, cert>>,
             UNCHANGED <<pc, kind>> \/ \E k \in Kind \ {"register"} : Send(k)
      PROVE  Orderly'
  <2>1. CASE UNCHANGED <<pc, kind>>
    BY <1>1, <2>1 DEF Orderly, Registering, Together
  <2>2. CASE \E k \in Kind \ {"register"} : Send(k)
    <3>1. PICK k \in Kind \ {"register"}, t \in Task :
                /\ pc[t] = "free" /\ pc' = [pc EXCEPT ![t] = "queued"]
                /\ kind' = [kind EXCEPT ![t] = k]
      BY <2>2 DEF Send
    <3>2. /\ pc'[t] = "queued" /\ kind'[t] # "register"
          /\ \A u \in Task \ {t} : pc'[u] = pc[u] /\ kind'[u] = kind[u]
      BY <3>1 DEF TypeOK
    <3>3. Registering'
      BY <1>1, <3>1, <3>2 DEF Orderly, Registering, Held
    <3>4. Together'
      BY <1>1, <3>1, <3>2 DEF Orderly, Together, Signed
    <3> QED
      BY <1>1, <3>3, <3>4 DEF Orderly
  <2> QED
    BY <1>1, <2>1, <2>2
<1>2. CASE Tick
  BY <1>1, <1>2 DEF Tick, rowvars, hostvars, bootvars
<1>3. CASE Sweep
  <2>1. CASE Send("rotate")
    BY <1>1, <1>3, <2>1 DEF Sweep, Send, rowvars, hostvars, bootvars, Kind
  <2>2. CASE UNCHANGED taskvars
    BY <1>1, <1>3, <2>2 DEF Sweep, taskvars, rowvars, hostvars, bootvars
  <2> QED
    BY <1>3, <2>1, <2>2 DEF Sweep
<1>4. ASSUME NEW n \in Name, Rename(n) PROVE Orderly'
  BY <1>1, <1>4 DEF Rename, taskvars, hostvars, bootvars
<1>5. ASSUME NEW k \in Kind, Request(k) PROVE Orderly'
  BY <1>1, <1>5 DEF Request, Send, rowvars, hostvars, bootvars
<1>6. CASE Reprovision
  BY <1>1, <1>6 DEF Reprovision, Send, hostvars, bootvars, Kind
<1>7. ASSUME NEW n \in Name, BootstrapSign(n) PROVE FALSE
  BY <1>7 DEF BootstrapSign, Spend, Undisturbed, TypeOK, Rare
<1>8. ~(BootstrapWrite \/ BootstrapReload \/ BootstrapFails)
  BY DEF Orderly, BootstrapWrite, BootstrapReload, BootstrapFails
<1> QED
  BY <1>2, <1>3, <1>4, <1>5, <1>6, <1>7, <1>8 DEF RequestStep

\* A step of a task that leaves the row and the host alone.
Alone(t, next) ==
    /\ pc' = [pc EXCEPT ![t] = next] /\ UNCHANGED <<kind, rec, disk, served, boot>>
    /\ \A u \in Task \ {t} : session'[u] = session[u] /\ cert'[u] = cert[u]
    /\ pc[t] # "written" /\ next \notin {"written", "reloaded"}
    /\ pc[t] = "reloaded" => rec = NoCert
    /\ next = "queued" => kind[t] # "register"
    /\ next = "signed" => cert'[t].names # {}
    /\ next \in Held /\ session'[t] = "tofu" => kind[t] = "register" /\ rec = NoCert
    /\ next \in Held /\ next # "loaded" =>
           \A u \in Task : ~(kind[u] = "register" /\ pc[u] = "queued")

LEMMA AloneOrderly ==
    ASSUME TypeOK, Orderly, NEW t \in Task, NEW next, Alone(t, next)
    PROVE  Orderly'
<1>1. pc'[t] = next /\ \A u \in Task \ {t} : pc'[u] = pc[u]
  BY DEF TypeOK, Alone
<1>2. Registering'
  BY <1>1 DEF Orderly, Registering, Alone
<1>3. Together'
  <2>1. \A u \in Task : pc'[u] \in Signed => cert'[u].names # {}
    BY <1>1 DEF Orderly, Together, Signed, Alone
  <2>2. \A u \in Task : pc'[u] \in {"written", "reloaded"} => disk' = cert'[u]
    BY <1>1 DEF Orderly, Together, Alone
  <2>3. (\A u \in Task : pc'[u] # "written") => served' = disk'
    BY <1>1 DEF Orderly, Together, Alone
  <2>4. (\A u \in Task : pc'[u] \notin {"written", "reloaded"}) => rec' = NoCert \/ rec' = disk'
    BY <1>1 DEF Orderly, Together, Alone
  <2> QED
    BY <2>1, <2>2, <2>3, <2>4 DEF Orderly, Together, Alone
<1> QED
  BY <1>2, <1>3 DEF Orderly, Alone

LEMMA TaskOrderly ==
    ASSUME TypeOK, Excludes, Orderly, NEW t \in Task, TaskStep(t) \/ Mishap(t), Undisturbed'
    PROVE  Orderly'
<1>0. Registering /\ Together
  BY DEF Orderly
<1>1. CASE Start(t)
  <2>1. /\ pc' = [pc EXCEPT ![t] = "loaded"] /\ pc[t] = "queued"
        /\ UNCHANGED <<kind, rec, disk, served, cert, boot>>
        /\ session'[t] = "tofu" => kind[t] = "register"
        /\ \A u \in Task \ {t} : session'[u] = session[u]
    BY <1>1 DEF Start, TypeOK, rowvars, hostvars, bootvars
  <2>2. kind[t] = "register" => rec = NoCert
    BY <1>0, <2>1 DEF Registering
  <2>3. Alone(t, "loaded")
    BY <2>1, <2>2 DEF Alone, Held
  <2> QED
    BY <2>3, AloneOrderly
<1>2. CASE Skip(t) \/ Ack(t)
  <2>1. /\ \E next \in {"finished", "free"} : pc' = [pc EXCEPT ![t] = next]
        /\ pc[t] \in {"queued", "finished"}
        /\ UNCHANGED <<kind, rec, disk, served, cert, session, boot>>
    BY <1>2 DEF Skip, Ack, rowvars, hostvars, bootvars
  <2>2. PICK next \in {"finished", "free"} : pc' = [pc EXCEPT ![t] = next]
    BY <2>1
  <2>3. Alone(t, next)
    BY <2>1, <2>2 DEF Alone, Held
  <2> QED
    BY <2>3, AloneOrderly
<1>3. CASE Connect(t)
  <2>1. /\ pc' = [pc EXCEPT ![t] = "connected"] /\ pc[t] = "loaded"
        /\ UNCHANGED <<kind, rec, disk, served, cert, session, boot>>
        /\ session[t] = "tofu" \/ \E c \in {disk, served} : now < c.before
    BY <1>3 DEF Connect, Trusted, Presented, rowvars, hostvars, bootvars
  <2>2. ASSUME NEW u \in Task, kind[u] = "register", pc[u] = "queued" PROVE FALSE
    <3>1. disk = NoCert /\ served = NoCert
      BY <1>0, <2>2 DEF Registering
    <3>2. ~(now < NoCert.before)
      BY DEF TypeOK, NoCert
    <3>3. session[t] = "tofu"
      BY <2>1, <3>1, <3>2
    <3> QED
      BY <1>0, <2>1, <2>2, <3>3 DEF Registering, Held
  <2>3. session[t] = "tofu" => kind[t] = "register" /\ rec = NoCert
    BY <1>0, <2>1 DEF Registering, Held
  <2>4. Alone(t, "connected")
    BY <2>1, <2>2, <2>3 DEF Alone, Held
  <2> QED
    BY <2>4, AloneOrderly
<1>4. CASE Refused(t) \/ Reconfigured(t)
  <2>1. /\ pc' = [pc EXCEPT ![t] = "finished"] /\ pc[t] \in {"loaded", "connected"}
        /\ UNCHANGED <<kind, rec, disk, served, session, boot>>
        /\ \A u \in Task \ {t} : cert'[u] = cert[u]
    BY <1>4 DEF Refused, Reconfigured, EndInFailure, Leave, TypeOK, rowvars, hostvars, bootvars
  <2>2. Alone(t, "finished")
    BY <2>1 DEF Alone, Held
  <2> QED
    BY <2>2, AloneOrderly
<1>5. ASSUME NEW u \in Task, kind[u] = "register", pc[u] = "queued",
             pc[t] \in Held, pc[t] # "loaded"
      PROVE  FALSE
  BY <1>0, <1>5 DEF Registering
<1>6. CASE Sign(t)
  <2>1. /\ pc' = [pc EXCEPT ![t] = "signed"] /\ pc[t] = "connected"
        /\ UNCHANGED <<kind, rec, disk, served, session, boot>>
        /\ cert'[t].names # {} /\ \A u \in Task \ {t} : cert'[u] = cert[u]
    BY <1>6 DEF Sign, Issued, TypeOK, rowvars, hostvars, bootvars
  <2>2. session[t] = "tofu" => kind[t] = "register" /\ rec = NoCert
    BY <1>0, <2>1 DEF Registering, Held
  <2>3. Alone(t, "signed")
    BY <1>5, <2>1, <2>2 DEF Alone, Held
  <2> QED
    BY <2>3, AloneOrderly
<1>7. CASE Bootstrapped(t)
  <2>1. /\ pc' = [pc EXCEPT ![t] = "loaded"] /\ pc[t] = "reloaded" /\ session[t] = "tofu"
        /\ UNCHANGED <<kind, rec, disk, served, boot>>
        /\ session'[t] = "ca" /\ \A u \in Task \ {t} : session'[u] = session[u] /\ cert'[u] = cert[u]
    BY <1>7 DEF Bootstrapped, TypeOK, rowvars, hostvars, bootvars
  <2>2. rec = NoCert
    BY <1>0, <2>1 DEF Registering, Held
  <2>3. Alone(t, "loaded")
    BY <2>1, <2>2 DEF Alone, Held
  <2> QED
    BY <2>3, AloneOrderly
<1>8. ASSUME pc[t] \in Held PROVE \A u \in Task \ {t} : pc[u] \notin Held
  BY <1>8 DEF Excludes
<1>9. CASE WriteCert(t) \/ ReloadSshd(t)
  <2>1. /\ UNCHANGED <<kind, rec, session, cert, boot>>
        /\ \/ pc[t] = "signed" /\ pc' = [pc EXCEPT ![t] = "written"] /\ disk' = cert[t]
           \/ pc[t] = "written" /\ pc' = [pc EXCEPT ![t] = "reloaded"]
              /\ disk' = disk /\ served' = disk
    BY <1>9 DEF WriteCert, ReloadSshd, rowvars, bootvars
  <2>2. pc'[t] \in {"written", "reloaded"} /\ \A u \in Task \ {t} : pc'[u] = pc[u]
    BY <2>1 DEF TypeOK
  <2>3. \A u \in Task \ {t} : pc'[u] \notin Held
    BY <1>8, <2>1, <2>2 DEF Held
  <2>4. Registering'
    BY <1>0, <2>1, <2>2, <2>3 DEF Registering, Held
  <2>5. disk' = cert[t] /\ cert[t].names # {} /\ (pc'[t] = "reloaded" => served' = disk')
    BY <1>0, <2>1 DEF Together, Signed, TypeOK
  <2>6. Together'
    BY <1>0, <2>1, <2>2, <2>3, <2>5 DEF Together, Signed, Held
  <2> QED
    BY <2>1, <2>4, <2>6 DEF Orderly
<1>10. CASE Record(t)
  <2>1. /\ pc' = [pc EXCEPT ![t] = "finished"] /\ pc[t] = "reloaded" /\ rec' = cert[t]
        /\ UNCHANGED <<kind, disk, served, boot>>
    BY <1>10 DEF Record, Leave, hostvars, bootvars
  <2>2. pc'[t] = "finished" /\ \A u \in Task \ {t} : pc'[u] = pc[u]
    BY <2>1 DEF TypeOK
  <2>3. \A u \in Task : pc'[u] \notin Held
    BY <1>8, <2>1, <2>2 DEF Held
  <2>4. Registering'
    BY <1>0, <1>5, <2>1, <2>2, <2>3 DEF Registering, Held
  <2>5. disk = cert[t] /\ cert[t].names # {}
    BY <1>0, <2>1 DEF Together, Signed
  <2>6. served = disk
    <3>1. \A u \in Task : pc[u] # "written"
      BY <1>8, <2>1 DEF Held
    <3> QED
      BY <1>0, <3>1 DEF Together
  <2>7. Together'
    BY <2>1, <2>3, <2>5, <2>6 DEF Together, Signed, Held
  <2> QED
    BY <2>1, <2>4, <2>7 DEF Orderly
<1>11. ~Mishap(t)
  <2>1. ASSUME NEW m \in {"fault", "crash"}, Spend(m) PROVE FALSE
    BY <2>1 DEF Spend, Undisturbed, TypeOK, Rare
  <2> QED
    BY <2>1 DEF Mishap, TaskFails, Crash, CrashBeforeAck
<1> QED
  BY <1>1, <1>2, <1>3, <1>4, <1>6, <1>7, <1>9, <1>10, <1>11 DEF TaskStep

OrderlyInv == TypeOK /\ Excludes /\ (Undisturbed => Orderly)

LEMMA NextOrderly == OrderlyInv /\ [Next]_vars => OrderlyInv'
<1> SUFFICES ASSUME OrderlyInv, [Next]_vars, Undisturbed' PROVE Orderly'
  BY NextType, NextExcludes DEF OrderlyInv
<1>1. TypeOK /\ Excludes
  BY DEF OrderlyInv
<1>2. Undisturbed
  <2>1. \A m \in Rare : used[m] \in Nat /\ used[m] <= used'[m]
    BY <1>1, UsedGrows DEF TypeOK, Grown
  <2> QED
    BY <2>1 DEF Undisturbed, Rare
<1>3. Orderly
  BY <1>2 DEF OrderlyInv
<1>4. CASE UNCHANGED vars
  BY <1>3, <1>4 DEF Orderly, Registering, Together, vars, rowvars, hostvars, taskvars, bootvars
<1> QED
  BY <1>1, <1>3, <1>4, OutsideOrderly, TaskOrderly DEF Next

\* RenamedIsReachable: a row whose hostname was edited, any number of times and while
\* any tasks run, can still be reached, as long as no task was cut short between the
\* installation and the commit and bootstrap-host was not run.
THEOREM RenamedRowsAreReached == Spec => [](Undisturbed => RenamedIsReachable)
<1>1. Init => OrderlyInv
  BY InitOrderly, InitRecord DEF OrderlyInv, Agrees
<1>2. OrderlyInv => (Undisturbed => RenamedIsReachable)
  <2> SUFFICES ASSUME OrderlyInv, Undisturbed, lock = NoTask, rec # NoCert
               PROVE  \A c \in Presented : c.names \cap ({hostname} \cup rec.names) # {}
    BY DEF RenamedIsReachable
  <2>1. \A t \in Task : pc[t] \notin Held
    BY HostCertAssumption DEF OrderlyInv, Excludes
  <2>2. rec.names # {} /\ served = disk /\ rec = disk
    BY <2>1 DEF OrderlyInv, Orderly, Together, Held
  <2> QED
    BY <2>2 DEF Presented
<1> QED
  BY <1>1, <1>2, NextOrderly, PTL DEF Spec
=============================================================================
