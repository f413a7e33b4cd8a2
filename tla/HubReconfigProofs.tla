------------------------- MODULE HubReconfigProofs -------------------------
(***************************************************************************)
(* Theorems about HubReconfig, for any number of clients, callers and      *)
(* messages and any bounds.                                                *)
(***************************************************************************)
EXTENDS HubReconfig, TLAPS

(***************************************************************************)
(* Type correctness                                                        *)
(***************************************************************************)

LEMMA InitType == Init => TypeOK
  BY ConstantsAssumption
  DEF Init, TypeOK, NodeStatus, Progress, Held, NoGen, Rare

\* Client changes and the announcing calls.
LEMMA ClientStepType == TypeOK /\ ClientStep => TypeOK'
  <1> SUFFICES ASSUME TypeOK, ClientStep PROVE TypeOK'
    OBVIOUS
  <1>1. ASSUME NEW c \in Client, NEW s \in NodeStatus \cup {"none", "deleted"},
               CommitOnly(c, s)
        PROVE  TypeOK'
    BY <1>1 DEF CommitOnly, TypeOK, dbvars, hubvars, taskvars, callvars
  <1>2. ASSUME NEW a \in Caller, NEW c \in Client,
               NEW s \in NodeStatus \cup {"none", "deleted"},
               CommitAndAnnounce(a, c, s)
        PROVE  TypeOK'
    <2>1. requested_gen + 1 \in Nat
      BY DEF TypeOK
    <2> QED
      BY <1>2, <2>1 DEF CommitAndAnnounce, TypeOK, dbvars, hubvars, taskvars, callvars
  <1>3. "ready" \in NodeStatus /\ "pending" \in NodeStatus /\ "error" \in NodeStatus
    BY DEF NodeStatus
  <1>4. \A c \in Client : status[c] \in NodeStatus \cup {"none", "deleted"}
    BY DEF TypeOK
  <1> QED
    BY <1>1, <1>2, <1>3, <1>4
    DEF ClientStep, RegisterClient, ProvisionClientFailed, ReprovisionClient,
        RegisterManualClient, EnrollClient, ProvisionClientDone, DeleteClient
\* Announcing calls, and the operator's reprovision of the hub.
LEMMA CallStepType ==
    TypeOK /\ (ReprovisionServer \/ \E a \in Caller : CallerStep(a) \/ CallerFails(a))
        => TypeOK'
  <1> SUFFICES ASSUME TypeOK,
                      ReprovisionServer \/ \E a \in Caller : CallerStep(a) \/ CallerFails(a)
               PROVE  TypeOK'
    OBVIOUS
  <1>1. CASE ReprovisionServer
    BY <1>1 DEF ReprovisionServer, Send, Spend, Rare, TypeOK, NodeStatus, Progress, Held,
                NoGen, dbvars, hubvars, taskvars, callvars
  <1>2. ASSUME NEW a \in Caller, Bump(a) PROVE TypeOK'
    BY <1>2 DEF Bump, TypeOK, hubvars, taskvars
  <1>3. ASSUME NEW a \in Caller, Dispatch(a) PROVE TypeOK'
    <2>1. PICK t \in Task, g \in cgen[a] .. requested_gen : Send(t, "reconfigure", g, 0)
      BY <1>3 DEF Dispatch
    <2>2. g \in Nat
      BY DEF TypeOK
    <2> QED
      BY <1>3, <2>1, <2>2 DEF Dispatch, Return, Send, TypeOK, Progress, dbvars, hubvars
  <1>4. ASSUME NEW a \in Caller, CallerFails(a) PROVE TypeOK'
    <2>1. call[a] = "committed" => cclient[a] \in Client
      BY <1>4 DEF CallerFails, TypeOK
    <2>2. Larger(reported, cgen[a]) \in Nat
      BY DEF Larger, TypeOK
    <2> QED
      BY <1>4, <2>1, <2>2 DEF CallerFails, Return, Spend, Rare, TypeOK, dbvars, hubvars, taskvars
  <1> QED
    BY <1>1, <1>2, <1>3, <1>4 DEF CallerStep

\* Every step of a message, and every mishap that ends or repeats it.
LEMMA TaskStepType ==
    ASSUME TypeOK, NEW t \in Task,
           TaskStep(t) \/ TaskFails(t) \/ TornWrite(t) \/ Crash(t) \/ Redeliver(t) \/ LoseLock
    PROVE  TypeOK'
  <1> USE DEF TypeOK, dbvars, hubvars, taskvars, callvars
  <1>1. Larger(reported, gen[t]) \in Nat
    BY DEF Larger, NoGen
  <1>2. CASE Acquire(t)
    BY <1>2 DEF Acquire, Progress, Held
  <1>3. CASE Contended(t)
    BY <1>1, <1>3 DEF Contended, Progress
  <1>4. CASE Coalesce(t)
    BY <1>4 DEF Coalesce, Release, Progress, NodeStatus
  <1>5. CASE Load(t)
    BY <1>5 DEF Load, ReadyClients, Progress, Held
  <1>6. CASE List(t)
    BY <1>6 DEF List, ReadyClients, Progress, Held
  <1>7. CASE Lower(t)
    BY <1>7 DEF Lower, Remote, TakeDown, Progress, Held
  <1>8. CASE Write(t)
    BY <1>8 DEF Write, Remote, WriteFile, Progress, Held
  <1>9. CASE Restart(t)
    BY <1>9 DEF Restart, Remote, RestartUnit, Progress, Held
  <1>10. CASE Apply(t)
    BY <1>10 DEF Apply, MarkApplied, Release, Progress, NodeStatus
  <1>11. CASE ProvisionDone(t)
    BY <1>11 DEF ProvisionDone, SetServerStatus, Release, Progress, NodeStatus
  <1>12. CASE Ack(t)
    BY <1>12 DEF Ack, Progress, NoGen
  <1>13. CutShort(t) => conf' \in SUBSET Client /\ live' \in SUBSET Client /\ up' \in BOOLEAN
    BY DEF CutShort, TakeDown, WriteFile, RestartUnit
  <1>14. ASSUME Spend("fault") \/ Spend("torn") \/ Spend("crash")
                \/ Spend("redeliver") \/ Spend("lockloss")
         PROVE  used' \in [Rare -> Nat]
    BY <1>14 DEF Spend, Rare
  <1>15. CASE TaskFails(t)
    BY <1>1, <1>13, <1>14, <1>15
    DEF TaskFails, EndInFailure, SetServerStatus, Release, Progress, NodeStatus
  <1>16. CASE TornWrite(t)
    BY <1>1, <1>14, <1>16
    DEF TornWrite, EndInFailure, SetServerStatus, Release, Progress, NodeStatus
  <1>17. CASE Crash(t)
    BY <1>13, <1>14, <1>17 DEF Crash, Release, Progress, NodeStatus
  <1>18. CASE Redeliver(t)
    BY <1>14, <1>18 DEF Redeliver, Send, Progress
  <1>19. CASE LoseLock
    BY <1>14, <1>19 DEF LoseLock
  <1> QED
    BY <1>2, <1>3, <1>4, <1>5, <1>6, <1>7, <1>8, <1>9, <1>10, <1>11, <1>12,
       <1>15, <1>16, <1>17, <1>18, <1>19 DEF TaskStep

LEMMA NextType == TypeOK /\ [Next]_vars => TypeOK'
  <1> SUFFICES ASSUME TypeOK, [Next]_vars PROVE TypeOK'
    OBVIOUS
  <1>1. CASE UNCHANGED vars
    BY <1>1 DEF TypeOK, vars, dbvars, hubvars, taskvars, callvars
  <1>2. CASE LoseLock
    BY <1>2 DEF LoseLock, Spend, TypeOK, Rare, dbvars, hubvars, taskvars, callvars
  <1> QED
    BY <1>1, <1>2, ClientStepType, CallStepType, TaskStepType DEF Next, MishapStep

\* Type correctness: the columns of server and client, the hub's two peer
\* lists, the lock and every message keep their types in every behaviour.
THEOREM TypeCorrect == Spec => []TypeOK
  BY InitType, NextType, PTL DEF Spec

(***************************************************************************)
(* The applied generation moves forward.  What a task read as its target   *)
(* never exceeds what was requested; that alone is inductive, whatever     *)
(* happens to the lock.                                                    *)
(***************************************************************************)

\* The task has read server.reconfig_requested_gen and the client list.
HasRead(t) == pc[t] \in Held \ {"locked"}

GenBound ==
    /\ applied_gen <= requested_gen
    /\ \A t \in Task : HasRead(t) => target[t] <= requested_gen

GenInv == TypeOK /\ GenBound

LEMMA GenInductive == GenInv /\ [Next]_vars => GenInv'
  <1> SUFFICES ASSUME GenInv, [Next]_vars PROVE GenBound'
    BY NextType DEF GenInv
  <1> USE DEF GenInv, GenBound, TypeOK, HasRead, Held
  <1>1. CASE UNCHANGED <<requested_gen, applied_gen, pc, target>>
    BY <1>1
  <1>2. ASSUME NEW t \in Task, NEW u \in Task, NEW k, NEW g, NEW n, Send(u, k, g, n),
               UNCHANGED <<requested_gen, applied_gen>>
        PROVE  GenBound'
    BY <1>2 DEF Send
  <1>3. ASSUME NEW t \in Task, NEW next \in {"finished", "queued"}, Release(t, next),
               UNCHANGED <<requested_gen, applied_gen>>
        PROVE  GenBound'
    BY <1>3 DEF Release
  <1>4. CASE ClientStep
    BY <1>1, <1>4
    DEF ClientStep, RegisterClient, ProvisionClientFailed, ReprovisionClient,
        RegisterManualClient, EnrollClient, ProvisionClientDone, DeleteClient,
        CommitAndAnnounce, CommitOnly, taskvars
  <1>5. ASSUME NEW a \in Caller, Bump(a) PROVE GenBound'
    BY <1>5 DEF Bump, taskvars
  <1>6. ASSUME NEW a \in Caller, Dispatch(a) PROVE GenBound'
    BY <1>2, <1>6 DEF Dispatch, dbvars
  <1>7. ASSUME NEW a \in Caller, CallerFails(a) PROVE GenBound'
    BY <1>1, <1>7 DEF CallerFails, dbvars, taskvars
  <1>8. CASE ReprovisionServer
    BY <1>1, <1>2, <1>8 DEF ReprovisionServer, dbvars, taskvars
  <1>9. ASSUME NEW t \in Task, TaskStep(t) PROVE GenBound'
    <2>1. CASE Acquire(t) \/ Contended(t) \/ Ack(t)
      BY <2>1 DEF Acquire, Contended, Ack, dbvars
    <2>2. CASE Coalesce(t)
      BY <1>3, <2>2 DEF Coalesce, dbvars
    <2>3. CASE Load(t)
      BY <2>3 DEF Load, dbvars
    <2>4. CASE List(t) \/ Lower(t) \/ Write(t) \/ Restart(t)
      BY <2>4 DEF List, Lower, Write, BeforeWrite, Restart, Remote, dbvars
    <2>5. CASE Apply(t)
      BY <2>5 DEF Apply, MarkApplied, Release
    <2>6. CASE ProvisionDone(t)
      BY <1>3, <2>6 DEF ProvisionDone
    <2> QED
      BY <1>9, <2>1, <2>2, <2>3, <2>4, <2>5, <2>6 DEF TaskStep
  <1>10. ASSUME NEW t \in Task, TaskFails(t) \/ TornWrite(t) PROVE GenBound'
    BY <1>3, <1>10 DEF TaskFails, TornWrite, EndInFailure
  <1>11. ASSUME NEW t \in Task, Crash(t) PROVE GenBound'
    BY <1>3, <1>11 DEF Crash, dbvars
  <1>12. ASSUME NEW t \in Task, Redeliver(t) PROVE GenBound'
    BY <1>2, <1>12 DEF Redeliver, dbvars
  <1>13. CASE LoseLock
    BY <1>1, <1>13 DEF LoseLock, dbvars, taskvars
  <1>14. CASE UNCHANGED vars
    BY <1>1, <1>14 DEF vars, dbvars, taskvars
  <1> QED
    BY <1>4, <1>5, <1>6, <1>7, <1>8, <1>9, <1>10, <1>11, <1>12, <1>13, <1>14
    DEF Next, CallerStep, MishapStep

LEMMA GenInvariant == Spec => []GenInv
  <1>1. Init => GenInv
    BY InitType DEF Init, GenInv, GenBound, HasRead, Held
  <1> QED
    BY <1>1, GenInductive, PTL DEF Spec

\* Only Apply changes the applied generation, and its UPDATE is guarded.
LEMMA AppliedStep == GenInv /\ [Next]_vars => applied_gen' >= applied_gen
  <1> SUFFICES ASSUME GenInv, [Next]_vars PROVE applied_gen' >= applied_gen
    OBVIOUS
  <1> USE DEF GenInv, TypeOK
  <1>1. CASE UNCHANGED applied_gen
    BY <1>1
  <1>2. ASSUME NEW t \in Task, Apply(t) PROVE applied_gen' >= applied_gen
    BY <1>2 DEF Apply, MarkApplied
  <1>3. ASSUME NEW t \in Task, TaskStep(t), ~Apply(t) PROVE UNCHANGED applied_gen
    BY <1>3 DEF TaskStep, Acquire, Contended, Coalesce, Load, List, Lower, Write,
                Restart, Remote, ProvisionDone, Ack, dbvars
  <1>4. CASE ClientStep
    BY <1>1, <1>4
    DEF ClientStep, RegisterClient, ProvisionClientFailed, ReprovisionClient,
        RegisterManualClient, EnrollClient, ProvisionClientDone, DeleteClient,
        CommitAndAnnounce, CommitOnly
  <1>5. ASSUME NEW a \in Caller, CallerStep(a) \/ CallerFails(a)
        PROVE  UNCHANGED applied_gen
    BY <1>5 DEF CallerStep, Bump, Dispatch, CallerFails, dbvars
  <1>6. ASSUME NEW t \in Task, TaskFails(t) \/ TornWrite(t) \/ Crash(t) \/ Redeliver(t)
        PROVE  UNCHANGED applied_gen
    BY <1>6 DEF TaskFails, TornWrite, EndInFailure, Crash, Redeliver, dbvars
  <1>7. CASE ReprovisionServer \/ LoseLock \/ UNCHANGED vars
    BY <1>1, <1>7 DEF ReprovisionServer, LoseLock, vars, dbvars
  <1> QED
    BY <1>1, <1>2, <1>3, <1>4, <1>5, <1>6, <1>7 DEF Next, MishapStep

\* reconfig_applied_gen only moves forward and never passes
\* reconfig_requested_gen, whatever is lost, crashes or is delivered twice:
\* the guarded UPDATE of reconfigure_server_task needs no lock for this.
THEOREM AppliedForward == Spec => AppliedMovesForward
  <1>1. GenInv /\ GenInv' /\ [Next]_vars
          => [applied_gen' >= applied_gen /\ applied_gen' <= requested_gen']_<<applied_gen, requested_gen>>
    BY AppliedStep DEF GenInv, GenBound
  <1> QED
    BY <1>1, GenInvariant, PTL DEF Spec, AppliedMovesForward

(***************************************************************************)
(* The applied generation is on the hub, when the lock's connection        *)
(* survives the task it protects and the remote write is whole.            *)
(***************************************************************************)

Reliable == Limit["lockloss"] = 0 /\ Limit["torn"] = 0

\* The advisory lock excludes: who is past GET_LOCK holds it.
Mutex == \A t \in Task : pc[t] \in Held => lock = t

\* A change is announced by the next bump at the latest.
SinceBound == \A c \in Client : since[c] <= requested_gen + 1

\* While a task is past its reads nobody else applies, so its target covers the
\* applied generation; its list agrees with the target; and so do the file and
\* the interface once it has written them.
TaskInv(t) ==
    /\ HasRead(t) => applied_gen <= target[t] /\ Agrees(tlist[t], target[t])
    /\ pc[t] \in {"written", "restarted"} => Agrees(conf, target[t])
    /\ pc[t] = "restarted" /\ up => Agrees(live, target[t])

HubInv ==
    /\ GenInv
    /\ Mutex
    /\ SinceBound
    /\ \A t \in Task : TaskInv(t)
    /\ AppliedIsOnHub

\* A list that agrees with a generation agrees with the earlier ones.
LEMMA AgreesEarlier ==
    ASSUME TypeOK, NEW g \in Nat, NEW h \in Nat, g <= h, NEW P, Agrees(P, h)
    PROVE  Agrees(P, g)
  BY DEF Agrees, TypeOK

\* A client change disturbs no list: it belongs to a generation to come.
LEMMA ClientStepHub == HubInv /\ ClientStep => HubInv'
  <1> SUFFICES ASSUME HubInv, ClientStep PROVE HubInv'
    OBVIOUS
  <1> DEFINE Kept ==
        /\ UNCHANGED <<requested_gen, applied_gen, conf, live, up, lock, pc, target, tlist>>
        /\ \A P, g : g \in Nat /\ g <= requested_gen /\ Agrees(P, g) => Agrees(P, g)'
        /\ SinceBound'
  <1>1. ASSUME NEW c \in Client, NEW s \in {"pending", "error"}, CommitOnly(c, s)
        PROVE  Kept
    BY <1>1 DEF CommitOnly, Agrees, SinceBound, HubInv, GenInv, TypeOK, hubvars, taskvars
  <1>2. ASSUME NEW a \in Caller, NEW c \in Client, NEW s, CommitAndAnnounce(a, c, s)
        PROVE  Kept
    <2>1. UNCHANGED <<requested_gen, applied_gen, conf, live, up, lock, pc, target, tlist>>
      BY <1>2 DEF CommitAndAnnounce, hubvars, taskvars
    <2>2. CASE status[c] = s
      <3>1. status' = status /\ since' = since
        BY <1>2, <2>2 DEF CommitAndAnnounce, HubInv, GenInv, TypeOK
      <3> QED
        BY <2>1, <3>1 DEF Agrees, SinceBound, HubInv
    <2>3. CASE status[c] # s
      BY <1>2, <2>1, <2>3 DEF CommitAndAnnounce, Agrees, SinceBound, HubInv, GenInv, TypeOK
    <2> QED
      BY <2>2, <2>3
  <1>3. Kept
    <2> HIDE DEF Kept
    <2> QED
      BY <1>1, <1>2
      DEF ClientStep, RegisterClient, ProvisionClientFailed, ReprovisionClient,
          RegisterManualClient, EnrollClient, ProvisionClientDone, DeleteClient
  <1>4. GenInv'
    BY GenInductive DEF HubInv, Next
  <1>5. Mutex' /\ AppliedIsOnHub'
    BY <1>3 DEF HubInv, GenInv, GenBound, TypeOK, Mutex, AppliedIsOnHub
  <1>6. ASSUME NEW t \in Task PROVE TaskInv(t)'
    BY <1>3 DEF HubInv, GenInv, GenBound, TypeOK, TaskInv, HasRead, Held
  <1> QED
    BY <1>3, <1>4, <1>5, <1>6 DEF HubInv

\* Steps that leave the tables, the hub and the critical section alone: a bump,
\* a message sent, skipped, retried or acknowledged, a call that fails.
LEMMA OutsideStepHub ==
    ASSUME HubInv, [Next]_vars, requested_gen' >= requested_gen,
           UNCHANGED <<status, since, applied_gen, conf, live, up, lock, target, tlist>>,
           \A t \in Task : pc'[t] = pc[t] \/ pc'[t] \notin Held
    PROVE  HubInv'
  <1>1. GenInv'
    BY GenInductive DEF HubInv
  <1>2. Mutex' /\ AppliedIsOnHub'
    BY DEF HubInv, Mutex, AppliedIsOnHub, Agrees
  <1>3. SinceBound'
    BY <1>1 DEF HubInv, GenInv, TypeOK, SinceBound
  <1>4. ASSUME NEW t \in Task PROVE TaskInv(t)'
    BY DEF HubInv, TaskInv, HasRead, Held, Agrees
  <1> QED
    BY <1>1, <1>2, <1>3, <1>4 DEF HubInv

\* Steps of the lock's holder.  By Mutex no other task is in the critical
\* section, so only the holder's own part of the invariant needs an argument.
LEMMA HolderStepHub ==
    ASSUME HubInv, [Next]_vars, NEW t \in Task, pc[t] \in Held,
           UNCHANGED <<status, since, requested_gen>>,
           \A u \in Task \ {t} : pc'[u] = pc[u],
           pc'[t] \in Held => lock' = lock,
           AppliedIsOnHub', TaskInv(t)'
    PROVE  HubInv'
  <1>1. GenInv'
    BY GenInductive DEF HubInv
  <1>2. ASSUME NEW u \in Task \ {t} PROVE pc'[u] \notin Held
    BY <1>2 DEF HubInv, Mutex
  <1>3. Mutex' /\ SinceBound'
    BY <1>2 DEF HubInv, Mutex, SinceBound
  <1>4. ASSUME NEW u \in Task PROVE TaskInv(u)'
    BY <1>2, <1>4 DEF TaskInv, HasRead, Held
  <1> QED
    BY <1>1, <1>3, <1>4 DEF HubInv

\* The task reads its target and, in the same snapshot or later, its list.
LEMMA ReadStepHub ==
    ASSUME HubInv, NEW t \in Task, Load(t) \/ List(t)
    PROVE  HubInv'
  <1>1. [Next]_vars /\ pc[t] \in Held
    BY DEF Next, TaskStep, Load, List, Held
  <1>2. AppliedIsOnHub'
    BY DEF Load, List, HubInv, AppliedIsOnHub, Agrees, dbvars, hubvars
  <1>3. CASE Load(t)
    <2>1. /\ pc'[t] = "loaded" /\ target'[t] = requested_gen /\ tlist'[t] = ReadyClients
          /\ UNCHANGED <<dbvars, lock>>
          /\ \A u \in Task \ {t} : pc'[u] = pc[u]
      BY <1>3 DEF Load, HubInv, GenInv, TypeOK
    <2>2. Agrees(ReadyClients, requested_gen)
      BY DEF Agrees, ReadyClients
    <2>3. TaskInv(t)'
      BY <2>1, <2>2 DEF TaskInv, HasRead, Held, HubInv, GenInv, GenBound, Agrees, dbvars
    <2> QED
      BY <1>1, <1>2, <2>1, <2>3, HolderStepHub DEF dbvars
  <1>4. CASE List(t)
    <2>1. /\ pc[t] = "loaded" /\ pc'[t] = "listed" /\ target'[t] = target[t]
          /\ tlist'[t] \in {tlist[t], ReadyClients}
          /\ UNCHANGED <<dbvars, lock>>
          /\ \A u \in Task \ {t} : pc'[u] = pc[u]
      BY <1>4 DEF List, HubInv, GenInv, TypeOK
    <2>2. Agrees(ReadyClients, target[t])
      BY DEF Agrees, ReadyClients
    <2>3. TaskInv(t)'
      BY <2>1, <2>2 DEF TaskInv, HasRead, Held, HubInv, Agrees, dbvars
    <2> QED
      BY <1>1, <1>2, <2>1, <2>3, HolderStepHub DEF dbvars
  <1> QED
    BY <1>3, <1>4

\* What a remote step does to the hub, completed or cut short, it does with a
\* list that covers the applied generation.
LEMMA RemoteEffect ==
    ASSUME HubInv, NEW t \in Task, UNCHANGED <<status, since, applied_gen>>,
           \/ UNCHANGED hubvars
           \/ TakeDown
           \/ HasRead(t) /\ WriteFile(t)
           \/ RestartUnit
    PROVE  AppliedIsOnHub'
  <1>1. HasRead(t) => Agrees(tlist[t], applied_gen)
    <2> SUFFICES ASSUME HasRead(t) PROVE Agrees(tlist[t], applied_gen)
      OBVIOUS
    <2>1. target[t] \in Nat /\ applied_gen \in Nat /\ applied_gen <= target[t]
          /\ Agrees(tlist[t], target[t]) /\ TypeOK
      BY DEF HubInv, GenInv, TypeOK, TaskInv
    <2> QED
      BY <2>1, AgreesEarlier
  <1> QED
    BY <1>1 DEF HubInv, AppliedIsOnHub, Agrees, TakeDown, WriteFile, RestartUnit, hubvars

\* Teardown, write and restart.
LEMMA RemoteStepHub ==
    ASSUME HubInv, NEW t \in Task, Lower(t) \/ Write(t) \/ Restart(t)
    PROVE  HubInv'
  <1>1. [Next]_vars /\ pc[t] \in Held /\ HasRead(t)
    BY DEF Next, TaskStep, Lower, Write, BeforeWrite, Restart, Remote, Held, HasRead
  <1>2. /\ UNCHANGED <<dbvars, lock, target, tlist>>
        /\ \A u \in Task \ {t} : pc'[u] = pc[u]
    BY DEF Lower, Write, Restart, Remote, HubInv, GenInv, TypeOK
  <1>3. AppliedIsOnHub'
    BY <1>1, <1>2, RemoteEffect DEF Lower, Write, Restart, dbvars
  <1>4. applied_gen <= target[t] /\ Agrees(tlist[t], target[t])
    BY <1>1 DEF HubInv, TaskInv
  <1>5. TaskInv(t)'
    <2>1. CASE Lower(t)
      BY <1>2, <1>4, <2>1
      DEF Lower, Remote, TaskInv, HubInv, GenInv, TypeOK, Agrees, dbvars
    <2>2. CASE Write(t)
      BY <1>2, <1>4, <2>2
      DEF Write, WriteFile, Remote, TaskInv, HubInv, GenInv, TypeOK, Agrees, dbvars
    <2>3. CASE Restart(t)
      <3>1. pc[t] = "written" /\ Agrees(conf, target[t])
        BY <2>3 DEF Restart, Remote, HubInv, TaskInv
      <3> QED
        BY <1>2, <1>4, <2>3, <3>1
        DEF Restart, RestartUnit, Remote, TaskInv, HubInv, GenInv, TypeOK, Agrees, dbvars
    <2> QED
      BY <2>1, <2>2, <2>3
  <1> QED
    BY <1>1, <1>2, <1>3, <1>5, HolderStepHub DEF dbvars

\* Leaving the critical section: coalesced, applied, provisioned or failed.
LEMMA LeaveStepHub ==
    ASSUME HubInv, NEW t \in Task,
           Coalesce(t) \/ Apply(t) \/ ProvisionDone(t) \/ TaskFails(t)
    PROVE  HubInv'
  <1>1. /\ [Next]_vars /\ pc[t] \in Held
        /\ UNCHANGED <<status, since, requested_gen>>
        /\ Release(t, "finished")
    BY DEF Next, TaskStep, MishapStep, Coalesce, Apply, ProvisionDone, TaskFails,
           EndInFailure, Held, dbvars
  <1>2. pc'[t] = "finished" /\ \A u \in Task \ {t} : pc'[u] = pc[u]
    BY <1>1 DEF Release, HubInv, GenInv, TypeOK
  <1>3. TaskInv(t)'
    BY <1>2 DEF TaskInv, HasRead, Held
  <1>4. AppliedIsOnHub'
    <2>1. CASE Coalesce(t) \/ ProvisionDone(t)
      BY <1>1, <2>1, RemoteEffect DEF Coalesce, ProvisionDone, dbvars
    <2>2. CASE Apply(t)
      BY <1>1, <2>2
      DEF Apply, MarkApplied, HubInv, AppliedIsOnHub, TaskInv, Agrees, hubvars
    <2>3. CASE TaskFails(t)
      <3>1. UNCHANGED applied_gen /\ CutShort(t)
        BY <2>3 DEF TaskFails, EndInFailure
      <3> QED
        BY <1>1, <3>1, RemoteEffect DEF CutShort, BeforeWrite, HasRead, Held
    <2> QED
      BY <2>1, <2>2, <2>3
  <1>5. pc'[t] \notin Held
    BY <1>2 DEF Held
  <1> QED
    BY <1>1, <1>2, <1>3, <1>4, <1>5, HolderStepHub

\* A worker dies, inside the critical section or before it acknowledges.
LEMMA CrashHub ==
    ASSUME HubInv, NEW t \in Task, Crash(t)
    PROVE  HubInv'
  <1>1. /\ [Next]_vars
        /\ UNCHANGED <<status, since, requested_gen, applied_gen>>
        /\ Release(t, "queued") /\ CutShort(t)
    BY DEF Next, MishapStep, Crash, dbvars
  <1>2. /\ pc'[t] = "queued" /\ \A u \in Task \ {t} : pc'[u] = pc[u]
        /\ \A u \in Task \ {t} : target'[u] = target[u] /\ tlist'[u] = tlist[u]
    BY <1>1 DEF Release, HubInv, GenInv, TypeOK
  <1>3. pc'[t] \notin Held
    BY <1>2 DEF Held
  <1>4. AppliedIsOnHub' /\ TaskInv(t)'
    BY <1>1, <1>2, <1>3, RemoteEffect DEF CutShort, BeforeWrite, HasRead, Held, TaskInv
  <1>5. CASE pc[t] \in Held
    BY <1>1, <1>2, <1>3, <1>4, <1>5, HolderStepHub
  <1>6. CASE pc[t] \notin Held
    <2>1. UNCHANGED hubvars
      BY <1>1, <1>6 DEF CutShort, BeforeWrite, Held
    <2>2. GenInv'
      BY <1>1, GenInductive DEF HubInv
    <2>3. Mutex' /\ SinceBound'
      BY <1>1, <1>2, <1>3 DEF HubInv, Mutex, SinceBound, Release
    <2>4. ASSUME NEW u \in Task \ {t} PROVE TaskInv(u)'
      BY <1>1, <1>2, <2>1 DEF HubInv, TaskInv, HasRead, Agrees, hubvars
    <2> QED
      BY <1>4, <2>2, <2>3, <2>4 DEF HubInv
  <1> QED
    BY <1>5, <1>6

LEMMA HubInductive == Reliable /\ HubInv /\ [Next]_vars => HubInv'
  <1> SUFFICES ASSUME Reliable, HubInv, [Next]_vars PROVE HubInv'
    OBVIOUS
  <1>1. ASSUME NEW a \in Caller, CallerStep(a) \/ CallerFails(a) PROVE HubInv'
    BY <1>1, OutsideStepHub
    DEF CallerStep, Bump, Dispatch, Send, CallerFails, HubInv, GenInv, TypeOK, Held,
        dbvars, hubvars, taskvars
  <1>2. CASE ReprovisionServer
    BY <1>2, OutsideStepHub
    DEF ReprovisionServer, Send, HubInv, GenInv, TypeOK, Held, dbvars, hubvars, taskvars
  <1>3. ASSUME NEW t \in Task, Contended(t) \/ Ack(t) \/ Redeliver(t) PROVE HubInv'
    BY <1>3, OutsideStepHub
    DEF Contended, Ack, Redeliver, Send, HubInv, GenInv, TypeOK, Held, dbvars, hubvars, taskvars
  <1>4. CASE UNCHANGED vars
    BY <1>4, OutsideStepHub
    DEF vars, HubInv, GenInv, TypeOK, dbvars, hubvars, taskvars
  <1>5. ASSUME NEW t \in Task, Acquire(t) PROVE HubInv'
    <2>1. GenInv'
      BY GenInductive DEF HubInv
    <2>2. \A u \in Task : pc[u] \notin Held
      BY <1>5, ConstantsAssumption DEF Acquire, HubInv, Mutex
    <2>3. /\ pc'[t] = "locked" /\ lock' = t
          /\ \A u \in Task \ {t} : pc'[u] = pc[u]
          /\ UNCHANGED <<dbvars, hubvars>>
      BY <1>5 DEF Acquire, HubInv, GenInv, TypeOK
    <2>4. Mutex' /\ SinceBound' /\ AppliedIsOnHub'
      BY <2>2, <2>3 DEF HubInv, Mutex, SinceBound, AppliedIsOnHub, Agrees, dbvars, hubvars
    <2>5. ASSUME NEW u \in Task PROVE TaskInv(u)'
      BY <2>2, <2>3 DEF TaskInv, HasRead, Held
    <2> QED
      BY <2>1, <2>4, <2>5 DEF HubInv
  <1>6. ASSUME NEW t \in Task, TaskStep(t) PROVE HubInv'
    BY <1>3, <1>5, <1>6, ReadStepHub, RemoteStepHub, LeaveStepHub DEF TaskStep
  <1>7. ~LoseLock /\ \A t \in Task : ~TornWrite(t)
    BY DEF LoseLock, TornWrite, Spend, Reliable, Rare, HubInv, GenInv, TypeOK
  <1> QED
    BY <1>1, <1>2, <1>3, <1>4, <1>6, <1>7, ClientStepHub, LeaveStepHub, CrashHub
    DEF Next, MishapStep

LEMMA HubInvariant == Reliable => (Spec => []HubInv)
  <1> SUFFICES ASSUME Reliable PROVE Spec => []HubInv
    OBVIOUS
  <1>1. Init => HubInv
    <2> SUFFICES ASSUME Init PROVE HubInv
      OBVIOUS
    <2>1. GenInv
      BY InitType DEF Init, GenInv, GenBound, HasRead, Held
    <2>2. \A t \in Task : pc[t] \notin Held
      BY DEF Init, Held
    <2>3. Mutex /\ SinceBound /\ AppliedIsOnHub
      BY <2>2 DEF Init, Mutex, SinceBound, AppliedIsOnHub, Agrees
    <2>4. ASSUME NEW t \in Task PROVE TaskInv(t)
      BY <2>2 DEF TaskInv, HasRead, Held
    <2> QED
      BY <2>1, <2>3, <2>4 DEF HubInv
  <1>2. HubInv /\ [Next]_vars => HubInv'
    BY HubInductive
  <1> QED
    BY <1>1, <1>2, PTL DEF Spec

\* Coalescing is safe: while the advisory lock outlives the task it protects
\* and remote writes are whole, whatever reconfig_applied_gen covers is in
\* wg0.conf and on the interface, across crashes, failed SSH sessions, retries,
\* duplicate deliveries and provisioning runs, under either isolation level.
THEOREM AppliedOnHub == Reliable => (Spec => []AppliedIsOnHub)
  <1>1. HubInv => AppliedIsOnHub
    BY DEF HubInv
  <1> QED
    BY <1>1, HubInvariant, PTL

(***************************************************************************)
(* No change is lost in silence.  A message's generation was requested     *)
(* before it was sent, and the target of its run was read after that.      *)
(***************************************************************************)

GenCover ==
    /\ \A t \in Task : pc[t] # "free" => gen[t] <= requested_gen
    /\ \A t \in Task : HasRead(t) => gen[t] <= target[t]
    /\ \A a \in Caller : call[a] = "bumped" => cgen[a] <= requested_gen

CoverInv == GenInv /\ SinceBound /\ GenCover

LEMMA CoverInductive == CoverInv /\ [Next]_vars => CoverInv'
  <1> SUFFICES ASSUME CoverInv, [Next]_vars PROVE SinceBound' /\ GenCover'
    BY GenInductive DEF CoverInv
  <1> USE DEF CoverInv, GenInv, TypeOK, SinceBound, GenCover, HasRead, Held, NoGen
  <1>1. ASSUME NEW c \in Client, NEW s, CommitOnly(c, s) PROVE SinceBound' /\ GenCover'
    BY <1>1 DEF CommitOnly, taskvars, callvars
  <1>2. ASSUME NEW a \in Caller, NEW c \in Client, NEW s, CommitAndAnnounce(a, c, s)
        PROVE  SinceBound' /\ GenCover'
    BY <1>2 DEF CommitAndAnnounce, taskvars
  <1>3. CASE ClientStep
    BY <1>1, <1>2, <1>3
    DEF ClientStep, RegisterClient, ProvisionClientFailed, ReprovisionClient,
        RegisterManualClient, EnrollClient, ProvisionClientDone, DeleteClient
  <1>4. ASSUME NEW a \in Caller, Bump(a) PROVE SinceBound' /\ GenCover'
    BY <1>4 DEF Bump, taskvars
  <1>5. ASSUME NEW a \in Caller, Dispatch(a) PROVE SinceBound' /\ GenCover'
    BY <1>5 DEF Dispatch, Send, Return, dbvars
  <1>6. ASSUME NEW a \in Caller, CallerFails(a) PROVE SinceBound' /\ GenCover'
    BY <1>6 DEF CallerFails, Return, dbvars, taskvars
  <1>7. CASE ReprovisionServer
    BY <1>7 DEF ReprovisionServer, Send, dbvars, taskvars, callvars
  <1>8. ASSUME NEW t \in Task, Release(t, "finished") \/ Release(t, "queued"),
               pc[t] # "free", UNCHANGED <<since, requested_gen, callvars>>
        PROVE  SinceBound' /\ GenCover'
    BY <1>8 DEF Release, callvars
  <1>9. ASSUME NEW t \in Task, TaskStep(t) PROVE SinceBound' /\ GenCover'
    <2>1. CASE Acquire(t) \/ Contended(t)
      BY <2>1 DEF Acquire, Contended, dbvars, callvars
    <2>2. CASE Ack(t)
      BY <2>2 DEF Ack, dbvars, callvars
    <2>3. CASE Coalesce(t) \/ Apply(t) \/ ProvisionDone(t)
      BY <1>8, <2>3 DEF Coalesce, Apply, ProvisionDone, dbvars
    <2>4. CASE Load(t)
      BY <2>4 DEF Load, dbvars, callvars
    <2>5. CASE List(t) \/ Lower(t) \/ Write(t) \/ Restart(t)
      BY <2>5 DEF List, Lower, Write, BeforeWrite, Restart, Remote, dbvars, callvars
    <2> QED
      BY <1>9, <2>1, <2>2, <2>3, <2>4, <2>5 DEF TaskStep
  <1>10. ASSUME NEW t \in Task, TaskFails(t) \/ TornWrite(t) \/ Crash(t)
         PROVE  SinceBound' /\ GenCover'
    BY <1>8, <1>10
    DEF TaskFails, TornWrite, BeforeWrite, EndInFailure, Crash, dbvars
  <1>11. ASSUME NEW t \in Task, Redeliver(t) PROVE SinceBound' /\ GenCover'
    BY <1>11 DEF Redeliver, Send, dbvars, callvars
  <1>12. CASE LoseLock \/ UNCHANGED vars
    BY <1>12 DEF LoseLock, vars, dbvars, taskvars, callvars
  <1> QED
    BY <1>3, <1>4, <1>5, <1>6, <1>7, <1>9, <1>10, <1>11, <1>12
    DEF Next, CallerStep, MishapStep

\* A change that somebody answered for is still answered for.
LEMMA StaysAccounted ==
    ASSUME CoverInv, [Next]_vars, NEW c \in Client, Accounted(c),
           UNCHANGED <<status, since>>
    PROVE  Accounted(c)'
  <1> USE DEF CoverInv, GenInv, TypeOK, Accounted
  <1>1. applied_gen' >= applied_gen /\ applied_gen' \in Nat
    BY AppliedStep, NextType
  <1>2. CASE since[c] <= applied_gen
    BY <1>1, <1>2
  <1> SUFFICES ASSUME ~(since[c] <= applied_gen) PROVE Accounted(c)'
    BY <1>2
  <1>3. ASSUME NEW a \in Caller, NEW d \in Client, NEW s, CommitAndAnnounce(a, d, s)
        PROVE  Accounted(c)'
    BY <1>3 DEF CommitAndAnnounce, taskvars
  <1>4. ASSUME NEW d \in Client, NEW s, CommitOnly(d, s) PROVE Accounted(c)'
    BY <1>4 DEF CommitOnly, taskvars, callvars
  <1>5. CASE ClientStep
    BY <1>3, <1>4, <1>5
    DEF ClientStep, RegisterClient, ProvisionClientFailed, ReprovisionClient,
        RegisterManualClient, EnrollClient, ProvisionClientDone, DeleteClient
  <1>6. ASSUME NEW a \in Caller, Bump(a) PROVE Accounted(c)'
    <2>1. since[c] <= requested_gen + 1
      BY DEF SinceBound
    <2>2. ASSUME NEW b \in Caller, call[b] = "bumped", since[c] <= cgen[b]
          PROVE  Accounted(c)'
      BY <1>6, <2>2 DEF Bump
    <2>3. ASSUME NEW b \in Caller, call[b] = "committed", cclient[b] = c
          PROVE  Accounted(c)'
      BY <1>6, <2>1, <2>3 DEF Bump
    <2> QED
      BY <1>6, <2>2, <2>3 DEF Bump, taskvars
  <1>7. ASSUME NEW a \in Caller, Dispatch(a) PROVE Accounted(c)'
    <2>1. PICK t \in Task, g \in cgen[a] .. requested_gen : Send(t, "reconfigure", g, 0)
      BY <1>7 DEF Dispatch
    <2>2. CASE call[a] = "bumped" /\ since[c] <= cgen[a]
      <3>1. pc'[t] = "queued" /\ kind'[t] = "reconfigure" /\ gen'[t] = g /\ since[c] <= g
        BY <2>1, <2>2 DEF Send
      <3> QED
        BY <3>1
    <2>3. CASE ~(call[a] = "bumped" /\ since[c] <= cgen[a])
      BY <1>7, <2>1, <2>3 DEF Dispatch, Return, Send, Held, dbvars
    <2> QED
      BY <2>2, <2>3
  <1>8. ASSUME NEW a \in Caller, CallerFails(a) PROVE Accounted(c)'
    BY <1>8 DEF CallerFails, Return, Larger, dbvars, taskvars
  <1>9. ASSUME NEW u \in Task, NEW k, NEW g, NEW n, Send(u, k, g, n),
               UNCHANGED <<applied_gen, callvars, reported, failedCalls>>
        PROVE  Accounted(c)'
    BY <1>9 DEF Send, Held, callvars
  <1>10. CASE ReprovisionServer
    BY <1>9, <1>10 DEF ReprovisionServer, taskvars, callvars
  <1>11. ASSUME NEW t \in Task, Redeliver(t) PROVE Accounted(c)'
    BY <1>9, <1>11 DEF Redeliver, dbvars
  <1>12. CASE LoseLock \/ UNCHANGED vars
    BY <1>12 DEF LoseLock, vars, dbvars, taskvars, callvars
  <1>13. ASSUME NEW t \in Task, Crash(t) PROVE Accounted(c)'
    BY <1>13 DEF Crash, Release, dbvars, callvars
  <1>14. ASSUME NEW t \in Task, TaskFails(t) \/ TornWrite(t) PROVE Accounted(c)'
    BY <1>14 DEF TaskFails, TornWrite, EndInFailure, Release, Larger, NoGen, callvars
  <1>15. ASSUME NEW t \in Task, TaskStep(t) PROVE Accounted(c)'
    <2>1. CASE Acquire(t) \/ Load(t) \/ List(t) \/ Lower(t) \/ Write(t) \/ Restart(t)
      BY <2>1 DEF Acquire, Load, List, Lower, Write, Restart, Remote, Held, dbvars, callvars
    <2>2. CASE Contended(t)
      BY <2>2 DEF Contended, Larger, NoGen, dbvars, callvars
    <2>3. CASE Ack(t)
      BY <2>3 DEF Ack, Held, dbvars, callvars
    <2>4. CASE Coalesce(t)
      BY <2>4 DEF Coalesce, Covered, Release, dbvars, callvars
    <2>5. CASE Apply(t)
      <3>1. gen[t] <= applied_gen'
        BY <2>5 DEF Apply, MarkApplied, GenCover, HasRead, Held, NoGen
      <3> QED
        BY <1>1, <2>5, <3>1 DEF Apply, Release, NoGen, callvars
    <2>6. CASE ProvisionDone(t)
      BY <2>6 DEF ProvisionDone, Release, callvars
    <2> QED
      BY <1>15, <2>1, <2>2, <2>3, <2>4, <2>5, <2>6 DEF TaskStep
  <1> QED
    BY <1>5, <1>6, <1>7, <1>8, <1>10, <1>11, <1>12, <1>13, <1>14, <1>15
    DEF Next, CallerStep, MishapStep

\* A fresh change is answered for by the caller that committed it.
LEMMA ClientStepAccounted ==
    ASSUME CoverInv, NoSilentLoss, ClientStep PROVE NoSilentLoss'
  <1> USE DEF NoSilentLoss, Accounted
  <1>1. ASSUME NEW c \in Client, NEW s \in {"pending", "error"}, CommitOnly(c, s)
        PROVE  NoSilentLoss'
    BY <1>1 DEF CommitOnly, taskvars, callvars, CoverInv, GenInv, TypeOK
  <1>2. ASSUME NEW a \in Caller, NEW c \in Client, NEW s, CommitAndAnnounce(a, c, s)
        PROVE  NoSilentLoss'
    <2>1. call'[a] = "committed" /\ cclient'[a] = c
      BY <1>2 DEF CommitAndAnnounce, CoverInv, GenInv, TypeOK
    <2>2. ASSUME NEW d \in Client \ {c}, status'[d] \in {"ready", "deleted"}
          PROVE  Accounted(d)'
      <3>1. status'[d] = status[d] /\ since'[d] = since[d]
        BY <1>2, <2>2 DEF CommitAndAnnounce, CoverInv, GenInv, TypeOK
      <3>2. Accounted(d)
        BY <2>2, <3>1
      <3> QED
        BY <1>2, <2>2, <3>1, <3>2
        DEF CommitAndAnnounce, taskvars, CoverInv, GenInv, TypeOK
    <2> QED
      BY <2>1, <2>2
  <1> QED
    BY <1>1, <1>2
    DEF ClientStep, RegisterClient, ProvisionClientFailed, ReprovisionClient,
        RegisterManualClient, EnrollClient, ProvisionClientDone, DeleteClient

LEMMA CoverInvariant == Spec => []CoverInv
  <1>1. Init => CoverInv
    BY InitType DEF Init, CoverInv, GenInv, GenBound, SinceBound, GenCover, HasRead, Held, NoGen
  <1> QED
    BY <1>1, CoverInductive, PTL DEF Spec

\* Every addition or deletion is applied, reported as lost or still on its way,
\* with no assumption on the lock, the workers, the hub or the number of crashes.
THEOREM LossIsReported == Spec => []NoSilentLoss
  <1>1. Init => NoSilentLoss
    BY DEF Init, NoSilentLoss
  <1>2. CoverInv /\ NoSilentLoss /\ [Next]_vars => NoSilentLoss'
    <2> SUFFICES ASSUME CoverInv, NoSilentLoss, [Next]_vars PROVE NoSilentLoss'
      OBVIOUS
    <2>1. CASE ClientStep
      BY <2>1, ClientStepAccounted
    <2>2. CASE ~ClientStep
      <3>1. UNCHANGED <<status, since>>
        BY <2>2 DEF Next, CallerStep, Bump, Dispatch, ReprovisionServer, TaskStep,
             Acquire, Contended, Coalesce, Load, List, Lower, Write, Restart, Remote,
             Apply, ProvisionDone, Ack, MishapStep, CallerFails, TaskFails, TornWrite,
             EndInFailure, Crash, Redeliver, LoseLock, vars, dbvars
      <3> QED
        BY <3>1, StaysAccounted DEF NoSilentLoss
    <2> QED
      BY <2>1, <2>2
  <1> QED
    BY <1>1, <1>2, CoverInvariant, PTL DEF Spec

(***************************************************************************)
(* Every request settles.  A message that carries a generation moves from  *)
(* point to point until the generation is applied or its loss reported; a  *)
(* caller that has bumped leaves a message behind, or a report.            *)
(***************************************************************************)

\* The message t has reached p and announces g.
At(t, g, p) == kind[t] = "reconfigure" /\ gen[t] >= g /\ pc[t] = p

Carries(t, g) == /\ kind[t] = "reconfigure" /\ gen[t] >= g
                 /\ pc[t] \in Held \cup {"queued"}

Announces(a, g) == call[a] = "bumped" /\ cgen[a] >= g

OnItsWay(g) == Settled(g) \/ \E t \in Task : Carries(t, g)

Answered(g) == requested_gen >= g => OnItsWay(g) \/ \E a \in Caller : Announces(a, g)

\* What a step of somebody else leaves alone.
Kept(t) == /\ pc'[t] = pc[t] /\ kind'[t] = kind[t]
           /\ gen'[t] = gen[t] /\ tries'[t] = tries[t]

CutOff(t) == TaskFails(t) \/ TornWrite(t)

\* A step that another message, a caller or an operator takes.
LEMMA OthersKeep ==
    ASSUME TypeOK, NEW t \in Task, pc[t] # "free"
    PROVE  /\ ClientStep => Kept(t)
           /\ \A a \in Caller : CallerStep(a) \/ CallerFails(a) => Kept(t)
           /\ ReprovisionServer => Kept(t)
           /\ \A u \in Task : Redeliver(u) => Kept(t)
           /\ LoseLock \/ UNCHANGED vars => Kept(t)
           /\ \A u \in Task \ {t} : TaskStep(u) \/ CutOff(u) \/ Crash(u) => Kept(t)
  <1>1. ASSUME NEW u \in Task, NEW k, NEW g, NEW n, Send(u, k, g, n) PROVE Kept(t)
    BY <1>1 DEF Send, Kept, TypeOK
  <1>2. ASSUME NEW u \in Task \ {t}, NEW p, Release(u, p) PROVE Kept(t)
    BY <1>2 DEF Release, Kept, TypeOK
  <1>3. ClientStep => Kept(t)
    BY DEF ClientStep, RegisterClient, ProvisionClientFailed, ReprovisionClient,
        RegisterManualClient, EnrollClient, ProvisionClientDone, DeleteClient,
        CommitOnly, CommitAndAnnounce, taskvars, Kept
  <1>4. ASSUME NEW a \in Caller, CallerStep(a) \/ CallerFails(a) PROVE Kept(t)
    <2>1. CASE Dispatch(a)
      BY <1>1, <2>1 DEF Dispatch
    <2>2. CASE Bump(a) \/ CallerFails(a)
      BY <2>2 DEF Bump, CallerFails, taskvars, Kept
    <2> QED
      BY <1>4, <2>1, <2>2 DEF CallerStep
  <1>5. ReprovisionServer => Kept(t)
    <2>1. CASE UNCHANGED taskvars
      BY <2>1 DEF taskvars, Kept
    <2> QED
      BY <1>1, <2>1 DEF ReprovisionServer
  <1>6. ASSUME NEW u \in Task, Redeliver(u) PROVE Kept(t)
    BY <1>1, <1>6 DEF Redeliver
  <1>7. LoseLock \/ UNCHANGED vars => Kept(t)
    BY DEF LoseLock, vars, taskvars, Kept
  <1>8. ASSUME NEW u \in Task \ {t}, TaskStep(u) \/ CutOff(u) \/ Crash(u) PROVE Kept(t)
    <2>1. CASE Coalesce(u) \/ Apply(u) \/ ProvisionDone(u) \/ CutOff(u) \/ Crash(u)
      BY <1>2, <2>1 DEF Coalesce, Apply, ProvisionDone, CutOff, TaskFails, TornWrite,
         EndInFailure, Crash
    <2>2. CASE Acquire(u) \/ Load(u) \/ List(u) \/ Lower(u) \/ Write(u) \/ Restart(u)
      BY <2>2 DEF Acquire, Load, List, Lower, Write, Restart, Remote, Kept, TypeOK
    <2>3. CASE Contended(u)
      BY <2>3 DEF Contended, Kept, TypeOK
    <2>4. CASE Ack(u)
      BY <2>4 DEF Ack, Kept, TypeOK
    <2> QED
      BY <1>8, <2>1, <2>2, <2>3, <2>4 DEF TaskStep
  <1> QED
    BY <1>3, <1>4, <1>5, <1>6, <1>7, <1>8

LEMMA StepsOfMessage ==
    ASSUME TypeOK, [Next]_vars, NEW t \in Task, pc[t] # "free"
    PROVE  TaskStep(t) \/ CutOff(t) \/ Crash(t) \/ Kept(t)
  <1>1. CASE \E u \in Task : TaskStep(u) \/ CutOff(u) \/ Crash(u)
    BY <1>1, OthersKeep
  <1>2. CASE ~ \E u \in Task : TaskStep(u) \/ CutOff(u) \/ Crash(u)
    BY <1>2, OthersKeep DEF Next, MishapStep, CutOff
  <1> QED
    BY <1>1, <1>2

\* What is settled stays settled.
LEMMA ReportedStep == TypeOK /\ [Next]_vars => reported' >= reported /\ reported' \in Nat
  <1> SUFFICES ASSUME TypeOK, [Next]_vars PROVE reported' >= reported /\ reported' \in Nat
    OBVIOUS
  <1>1. ASSUME NEW n \in Nat \cup {NoGen}, reported' = Larger(reported, n)
        PROVE  reported' >= reported /\ reported' \in Nat
    BY <1>1 DEF Larger, NoGen, TypeOK
  <1>2. CASE UNCHANGED reported
    BY <1>2 DEF TypeOK
  <1>3. ASSUME NEW a \in Caller, CallerFails(a) PROVE reported' >= reported /\ reported' \in Nat
    BY <1>1, <1>2, <1>3 DEF CallerFails, TypeOK
  <1>4. ASSUME NEW t \in Task, CutOff(t) PROVE reported' >= reported /\ reported' \in Nat
    BY <1>1, <1>2, <1>4 DEF CutOff, TaskFails, TornWrite, EndInFailure, TypeOK
  <1>5. ASSUME NEW t \in Task, Contended(t) PROVE reported' >= reported /\ reported' \in Nat
    BY <1>1, <1>2, <1>5 DEF Contended, TypeOK
  <1>6. ASSUME ~ \E a \in Caller : CallerFails(a),
               ~ \E t \in Task : CutOff(t) \/ Contended(t)
        PROVE  UNCHANGED reported
    BY <1>6 DEF Next, ClientStep, RegisterClient, ProvisionClientFailed, ReprovisionClient,
       RegisterManualClient, EnrollClient, ProvisionClientDone, DeleteClient, CommitOnly,
       CommitAndAnnounce, CallerStep, Bump, Dispatch, ReprovisionServer, TaskStep, Acquire,
       Coalesce, Load, List, Lower, Write, Restart, Remote, Apply, ProvisionDone, Ack,
       MishapStep, CutOff, Crash, Redeliver, LoseLock, vars
  <1> QED
    BY <1>2, <1>3, <1>4, <1>5, <1>6

LEMMA SettledStays ==
    ASSUME CoverInv, [Next]_vars, NEW g \in Nat, Settled(g)
    PROVE  Settled(g)'
  <1>1. applied_gen' >= applied_gen /\ applied_gen' \in Nat
    BY AppliedStep, NextType DEF CoverInv, GenInv, TypeOK
  <1>2. reported' >= reported /\ reported' \in Nat
    BY ReportedStep DEF CoverInv, GenInv
  <1>3. applied_gen \in Nat /\ reported \in Nat
    BY DEF CoverInv, GenInv, TypeOK
  <1> QED
    BY <1>1, <1>2, <1>3 DEF Settled

\* A failure that a message reports covers the generation it carries.
LEMMA ReportSettles ==
    ASSUME TypeOK, NEW t \in Task, NEW g \in Nat, gen[t] >= g,
           reported' = Larger(reported, gen[t])
    PROVE  Settled(g)'
  <1>1. gen[t] \in Int /\ reported \in Nat
    BY DEF TypeOK, NoGen
  <1>2. reported' >= g
    BY <1>1 DEF Larger
  <1> QED
    BY <1>2 DEF Settled

\* Where the own steps of a message lead.
LEMMA OwnMoves ==
    ASSUME CoverInv, NEW t \in Task, NEW g \in Nat, kind[t] = "reconfigure", gen[t] >= g,
           TaskStep(t)
    PROVE  /\ pc[t] = "queued" => GoesBack(t) \/ At(t, g, "locked")' \/ Settled(g)'
           /\ pc[t] = "locked" => At(t, g, "loaded")' \/ Settled(g)'
           /\ pc[t] = "loaded" => At(t, g, "listed")'
           /\ pc[t] = "listed" => At(t, g, "written")'
           /\ pc[t] # "lowered"
           /\ pc[t] = "written" => At(t, g, "restarted")'
           /\ pc[t] = "restarted" => Settled(g)'
  <1> USE DEF CoverInv, GenInv
  <1>1. CASE Acquire(t)
    <2>1. pc[t] = "queued" /\ At(t, g, "locked")'
      BY <1>1 DEF Acquire, At, TypeOK
    <2> QED
      BY <2>1
  <1>2. CASE Contended(t)
    <2>1. pc[t] = "queued"
      BY <1>2 DEF Contended
    <2>2. CASE tries[t] < MaxRetries
      <3>1. pc' = pc /\ tries'[t] = tries[t] + 1 /\ tries[t] \in Nat
        BY <1>2, <2>2, ConstantsAssumption DEF Contended, TypeOK
      <3>2. GoesBack(t)
        BY <2>1, <3>1 DEF GoesBack
      <3> QED
        BY <2>1, <3>2
    <2>3. CASE ~(tries[t] < MaxRetries)
      <3>1. reported' = Larger(reported, gen[t])
        BY <1>2, <2>3, ConstantsAssumption DEF Contended
      <3> QED
        BY <2>1, <3>1, ReportSettles
    <2> QED
      BY <2>2, <2>3
  <1>3. CASE Coalesce(t)
    <2>1. pc[t] = "locked" /\ applied_gen >= gen[t] /\ applied_gen' = applied_gen
      BY <1>3 DEF Coalesce, Covered, dbvars
    <2>2. gen[t] \in Int /\ applied_gen \in Nat
      BY DEF TypeOK, NoGen
    <2>3. Settled(g)'
      BY <2>1, <2>2 DEF Settled
    <2> QED
      BY <2>1, <2>3
  <1>4. CASE Load(t)
    <2>1. pc[t] = "locked" /\ At(t, g, "loaded")'
      BY <1>4 DEF Load, At, TypeOK
    <2> QED
      BY <2>1
  <1>5. CASE List(t)
    <2>1. pc[t] = "loaded" /\ At(t, g, "listed")'
      BY <1>5 DEF List, At, TypeOK
    <2> QED
      BY <2>1
  <1>6. CASE Write(t)
    <2>1. pc[t] = "listed" /\ At(t, g, "written")'
      BY <1>6 DEF Write, BeforeWrite, Remote, At, TypeOK
    <2> QED
      BY <2>1
  <1>7. CASE Restart(t)
    <2>1. pc[t] = "written" /\ At(t, g, "restarted")'
      BY <1>7 DEF Restart, Remote, At, TypeOK
    <2> QED
      BY <2>1
  <1>8. CASE Apply(t)
    <2>1. pc[t] = "restarted" /\ gen[t] <= target[t]
      BY <1>8 DEF Apply, GenCover, HasRead, Held
    <2>2. gen[t] \in Int /\ target[t] \in Nat /\ applied_gen \in Nat
      BY DEF TypeOK, NoGen
    <2>3. applied_gen' >= g
      BY <1>8, <2>1, <2>2 DEF Apply, MarkApplied
    <2> QED
      BY <2>1, <2>3 DEF Settled
  <1>9. CASE Lower(t) \/ ProvisionDone(t)
    BY <1>9 DEF Lower, ProvisionDone
  <1>10. CASE Ack(t)
    BY <1>10 DEF Ack
  <1> QED
    BY <1>1, <1>2, <1>3, <1>4, <1>5, <1>6, <1>7, <1>8, <1>9, <1>10 DEF TaskStep

\* Where a mishap leads.
LEMMA MishapMoves ==
    ASSUME TypeOK, NEW t \in Task, NEW g \in Nat, kind[t] = "reconfigure", gen[t] >= g
    PROVE  /\ CutOff(t) => Settled(g)'
           /\ Crash(t) => GoesBack(t) /\ At(t, g, "queued")'
  <1>1. CutOff(t) => reported' = Larger(reported, gen[t])
    BY DEF CutOff, TaskFails, TornWrite, EndInFailure
  <1>2. ASSUME Crash(t) PROVE GoesBack(t) /\ At(t, g, "queued")'
    <2>1. pc[t] \in Held \cup {"finished"}
      BY <1>2 DEF Crash
    <2>2. pc'[t] = "queued" /\ kind' = kind /\ gen' = gen
      BY <1>2 DEF Crash, Release, TypeOK
    <2> QED
      BY <2>1, <2>2 DEF GoesBack, At, Held
  <1> QED
    BY <1>1, <1>2, ReportSettles

\* A message keeps what it carries until that is settled.
LEMMA CarriesOn ==
    ASSUME CoverInv, [Next]_vars, NEW t \in Task, NEW g \in Nat, Carries(t, g)
    PROVE  Carries(t, g)' \/ Settled(g)'
  <1>1. pc[t] # "free" /\ kind[t] = "reconfigure" /\ gen[t] >= g
    BY DEF Carries, Held
  <1>2. CASE TaskStep(t)
    <2>1. CASE GoesBack(t)
      <3>1. UNCHANGED <<kind, gen>>
        BY <1>1, <1>2, <2>1 DEF GoesBack, TaskStep, Acquire, Contended, Coalesce, Load, List,
           Lower, Write, Restart, Remote, Apply, ProvisionDone, Release, Ack, CoverInv, GenInv, TypeOK
      <3> QED
        BY <1>1, <2>1, <3>1 DEF GoesBack, Carries
    <2>2. CASE ~GoesBack(t)
      BY <1>1, <1>2, <2>2, OwnMoves DEF Carries, At, Held
    <2> QED
      BY <2>1, <2>2
  <1>3. CASE CutOff(t) \/ Crash(t)
    BY <1>1, <1>3, MishapMoves DEF CoverInv, GenInv, Carries, At
  <1>4. CASE Kept(t)
    BY <1>4 DEF Kept, Carries
  <1> QED
    BY <1>1, <1>2, <1>3, <1>4, StepsOfMessage DEF CoverInv, GenInv

\* From p a message stays, goes on to q, or has settled what it carries.
Advances(t, g, p, q) == At(t, g, p) => At(t, g, p)' \/ At(t, g, q)' \/ Settled(g)'

\* Unless it goes back, a message advances through its points in their order.
LEMMA MessageMoves ==
    ASSUME CoverInv, [Next]_vars, NEW t \in Task, NEW g \in Nat, [~GoesBack(t)]_vars
    PROVE  /\ Advances(t, g, "queued", "locked")
           /\ Advances(t, g, "locked", "loaded")
           /\ Advances(t, g, "loaded", "listed")
           /\ Advances(t, g, "listed", "written")
           /\ Advances(t, g, "lowered", "written")
           /\ Advances(t, g, "written", "restarted")
           /\ Advances(t, g, "restarted", "finished")
  <1>1. CASE ~ \E p \in Held \cup {"queued"} : At(t, g, p)
    BY <1>1 DEF Advances, Held
  <1>2. CASE \E p \in Held \cup {"queued"} : At(t, g, p)
    <2>1. pc[t] # "free" /\ kind[t] = "reconfigure" /\ gen[t] >= g
      BY <1>2 DEF At, Held
    <2>2. CASE UNCHANGED vars
      BY <2>2 DEF Advances, At, vars, taskvars
    <2>3. CASE ~GoesBack(t) /\ TaskStep(t)
      BY <2>1, <2>3, OwnMoves DEF Advances, At
    <2>4. CASE ~GoesBack(t) /\ (CutOff(t) \/ Crash(t))
      BY <2>1, <2>4, MishapMoves DEF Advances, CoverInv, GenInv
    <2>5. CASE Kept(t)
      BY <2>5 DEF Kept, Advances, At
    <2> QED
      BY <2>1, <2>2, <2>3, <2>4, <2>5, StepsOfMessage DEF CoverInv, GenInv
  <1> QED
    BY <1>1, <1>2

\* A step of its own takes a message away from where it is.
Stays(t, g, p) == At(t, g, p) /\ At(t, g, p)' /\ ~Settled(g)'

LEMMA MessageLeaves ==
    ASSUME CoverInv, NEW t \in Task, NEW g \in Nat, [~GoesBack(t)]_vars, <<TaskStep(t)>>_vars
    PROVE  /\ ~Stays(t, g, "queued") /\ ~Stays(t, g, "locked") /\ ~Stays(t, g, "loaded")
           /\ ~Stays(t, g, "listed") /\ ~Stays(t, g, "lowered") /\ ~Stays(t, g, "written")
           /\ ~Stays(t, g, "restarted")
  <1>1. ~GoesBack(t) /\ TaskStep(t)
    OBVIOUS
  <1>2. ASSUME NEW p \in Held \cup {"queued"}, Stays(t, g, p) PROVE FALSE
    <2>1. kind[t] = "reconfigure" /\ gen[t] >= g /\ pc[t] = p /\ pc'[t] = p /\ ~Settled(g)'
      BY <1>2 DEF Stays, At
    <2> QED
      BY <1>1, <2>1, OwnMoves DEF At, Held
  <1> QED
    BY <1>2 DEF Held

MessageSettles(t, g) == Carries(t, g) ~> Settled(g)

\* A fair message that is never stuck and does not go back forever settles what
\* it carries.
LEMMA FairMessage ==
    ASSUME NEW t \in Task, NEW g \in Nat
    PROVE  []CoverInv /\ [][Next]_vars /\ TaskFair(t) /\ []TaskCanGoOn(t) /\ SettlesDown(t)
             => MessageSettles(t, g)
  <1>1. Carries(t, g) => \/ At(t, g, "queued") \/ At(t, g, "locked") \/ At(t, g, "loaded")
                         \/ At(t, g, "listed") \/ At(t, g, "lowered") \/ At(t, g, "written")
                         \/ At(t, g, "restarted")
    BY DEF Carries, At, Held
  <1>2. Carries(t, g) => pc[t] # "free"
    BY DEF Carries, Held
  <1>3. CoverInv /\ [Next]_vars /\ Carries(t, g) => Carries(t, g)' \/ Settled(g)'
    BY CarriesOn
  <1>4. CoverInv /\ [Next]_vars /\ [~GoesBack(t)]_vars =>
           /\ At(t, g, "queued") => At(t, g, "queued")' \/ At(t, g, "locked")' \/ Settled(g)'
           /\ At(t, g, "locked") => At(t, g, "locked")' \/ At(t, g, "loaded")' \/ Settled(g)'
           /\ At(t, g, "loaded") => At(t, g, "loaded")' \/ At(t, g, "listed")' \/ Settled(g)'
           /\ At(t, g, "listed") => At(t, g, "listed")' \/ At(t, g, "written")' \/ Settled(g)'
           /\ At(t, g, "lowered") => At(t, g, "lowered")' \/ At(t, g, "written")' \/ Settled(g)'
           /\ At(t, g, "written") => At(t, g, "written")' \/ At(t, g, "restarted")' \/ Settled(g)'
           /\ At(t, g, "restarted") => At(t, g, "restarted")' \/ At(t, g, "finished")' \/ Settled(g)'
    BY MessageMoves DEF Advances
  <1>5. CoverInv /\ [~GoesBack(t)]_vars /\ <<TaskStep(t)>>_vars =>
           /\ ~(At(t, g, "queued") /\ At(t, g, "queued")' /\ ~Settled(g)')
           /\ ~(At(t, g, "locked") /\ At(t, g, "locked")' /\ ~Settled(g)')
           /\ ~(At(t, g, "loaded") /\ At(t, g, "loaded")' /\ ~Settled(g)')
           /\ ~(At(t, g, "listed") /\ At(t, g, "listed")' /\ ~Settled(g)')
           /\ ~(At(t, g, "lowered") /\ At(t, g, "lowered")' /\ ~Settled(g)')
           /\ ~(At(t, g, "written") /\ At(t, g, "written")' /\ ~Settled(g)')
           /\ ~(At(t, g, "restarted") /\ At(t, g, "restarted")' /\ ~Settled(g)')
    BY MessageLeaves DEF Stays
  <1>6. At(t, g, "finished") => ~Carries(t, g)
    BY DEF At, Carries, Held
  <1> QED
    BY <1>1, <1>2, <1>3, <1>4, <1>5, <1>6, PTL
    DEF TaskFair, TaskCanGoOn, SettlesDown, MessageSettles

\* A caller that has bumped holds on to its generation until it has sent a
\* message that carries it or the failure is reported.
LEMMA CallMoves ==
    ASSUME CoverInv, [Next]_vars, NEW a \in Caller, NEW g \in Nat, Announces(a, g)
    PROVE  Announces(a, g)' \/ OnItsWay(g)'
  <1> USE DEF CoverInv, GenInv, TypeOK
  <1>1. call[a] = "bumped" /\ cgen[a] >= g /\ cgen[a] \in Nat
    BY DEF Announces
  <1>2. CASE call'[a] = call[a] /\ cgen'[a] = cgen[a]
    BY <1>1, <1>2 DEF Announces
  <1>3. CASE Dispatch(a)
    <2>1. PICK t \in Task, n \in cgen[a] .. requested_gen : Send(t, "reconfigure", n, 0)
      BY <1>3 DEF Dispatch
    <2>2. kind'[t] = "reconfigure" /\ gen'[t] = n /\ pc'[t] = "queued" /\ n >= g
      BY <1>1, <2>1 DEF Send
    <2> QED
      BY <2>2 DEF OnItsWay, Carries
  <1>4. CASE CallerFails(a)
    <2>1. reported' = Larger(reported, cgen[a])
      BY <1>1, <1>4 DEF CallerFails
    <2>2. reported' >= g
      BY <1>1, <2>1 DEF Larger
    <2> QED
      BY <2>2 DEF OnItsWay, Settled
  <1>5. ASSUME NEW b \in Caller, CallerStep(b) \/ CallerFails(b), b # a
        PROVE  call'[a] = call[a] /\ cgen'[a] = cgen[a]
    BY <1>5 DEF CallerStep, Bump, Dispatch, CallerFails, Return
  <1>6. ~Bump(a)
    BY <1>1 DEF Bump
  <1>7. ASSUME ClientStep PROVE call'[a] = call[a] /\ cgen'[a] = cgen[a]
    <2>1. ASSUME NEW b \in Caller, NEW c, NEW s, CommitAndAnnounce(b, c, s)
          PROVE  call'[a] = call[a] /\ cgen'[a] = cgen[a]
      BY <1>1, <2>1 DEF CommitAndAnnounce
    <2>2. ASSUME NEW c, NEW s, CommitOnly(c, s)
          PROVE  call'[a] = call[a] /\ cgen'[a] = cgen[a]
      BY <2>2 DEF CommitOnly, callvars
    <2> QED
      BY <1>7, <2>1, <2>2
      DEF ClientStep, RegisterClient, ProvisionClientFailed, ReprovisionClient,
          RegisterManualClient, EnrollClient, ProvisionClientDone, DeleteClient
  <1>8. ASSUME ~ClientStep, ~ \E b \in Caller : CallerStep(b) \/ CallerFails(b)
        PROVE  UNCHANGED callvars
    BY <1>8 DEF Next, ReprovisionServer, TaskStep, Acquire, Contended, Coalesce, Load, List,
       Lower, Write, Restart, Remote, Apply, ProvisionDone, Ack, MishapStep, TaskFails,
       TornWrite, EndInFailure, Crash, Redeliver, LoseLock, vars
  <1>9. UNCHANGED callvars => call'[a] = call[a] /\ cgen'[a] = cgen[a]
    BY DEF callvars
  <1>10. CASE \E b \in Caller : CallerStep(b) \/ CallerFails(b)
    BY <1>2, <1>3, <1>4, <1>5, <1>6, <1>10 DEF CallerStep
  <1> QED
    BY <1>2, <1>7, <1>8, <1>9, <1>10

LEMMA OnItsWayStays ==
    ASSUME CoverInv, [Next]_vars, NEW g \in Nat, OnItsWay(g) PROVE OnItsWay(g)'
  BY SettledStays, CarriesOn DEF OnItsWay

\* A generation that was requested is settled, carried or about to be sent.
LEMMA AnsweredAlways ==
    ASSUME NEW g \in Nat \ {0} PROVE Spec => []Answered(g)
  <1>1. Init => Answered(g)
    BY DEF Init, Answered
  <1>2. CoverInv /\ Answered(g) /\ [Next]_vars => Answered(g)'
    <2> SUFFICES ASSUME CoverInv, Answered(g), [Next]_vars, (requested_gen >= g)'
                 PROVE  OnItsWay(g)' \/ \E a \in Caller : Announces(a, g)'
      BY DEF Answered
    <2>1. CASE requested_gen >= g
      BY <2>1, CallMoves, OnItsWayStays DEF Answered
    <2>2. CASE ~(requested_gen >= g)
      <3>1. ASSUME ~ \E a \in Caller : Bump(a) PROVE UNCHANGED requested_gen
        BY <3>1 DEF Next, ClientStep, RegisterClient, ProvisionClientFailed, ReprovisionClient,
           RegisterManualClient, EnrollClient, ProvisionClientDone, DeleteClient, CommitOnly,
           CommitAndAnnounce, CallerStep, Dispatch, ReprovisionServer, TaskStep, Acquire,
           Contended, Coalesce, Load, List, Lower, Write, Restart, Remote, Apply,
           ProvisionDone, Ack, MishapStep, CallerFails, TaskFails, TornWrite, EndInFailure,
           Crash, Redeliver, LoseLock, dbvars, vars
      <3>2. PICK a \in Caller : Bump(a)
        BY <2>2, <3>1
      <3>3. Announces(a, g)'
        BY <3>2 DEF Bump, Announces, CoverInv, GenInv, TypeOK
      <3> QED
        BY <3>3
    <2> QED
      BY <2>1, <2>2
  <1> QED
    BY <1>1, <1>2, CoverInvariant, PTL DEF Spec

CallSettles(a, g) == Announces(a, g) ~> OnItsWay(g)

LEMMA CallLeavesMessage ==
    ASSUME NEW a \in Caller, NEW g \in Nat
    PROVE  []CoverInv /\ [][Next]_vars /\ CallReturns(a) => CallSettles(a, g)
  <1>1. Announces(a, g) => call[a] = "bumped"
    BY DEF Announces
  <1>2. CoverInv /\ [Next]_vars /\ Announces(a, g) => Announces(a, g)' \/ OnItsWay(g)'
    BY CallMoves
  <1>3. call[a] # "bumped" => ~Announces(a, g)
    BY DEF Announces
  <1> QED
    BY <1>1, <1>2, <1>3, PTL DEF CallReturns, CallSettles

\* What the argument needs of a behaviour, from any point on.
Live == Fairness /\ NoMessageIsStuck /\ TrafficClears

\* Whichever message carries the generation, it settles it.
LEMMA EveryMessageSettles ==
    ASSUME NEW g \in Nat, []CoverInv, [][Next]_vars, []Live
    PROVE  []((\E t \in Task : Carries(t, g)) => <>Settled(g))
  <1>1. ASSUME NEW t \in Task PROVE Carries(t, g) => <>Settled(g)
    <2>1. Live => TaskFair(t) /\ TaskCanGoOn(t) /\ SettlesDown(t)
      BY DEF Live, Fairness, NoMessageIsStuck, TrafficClears
    <2> QED
      BY <2>1, FairMessage, PTL DEF MessageSettles
  <1>2. (\E t \in Task : Carries(t, g)) => <>Settled(g)
    BY <1>1
  <1> QED
    BY <1>2, PTL

\* Whichever caller is about to announce it, it leaves a message or a report.
LEMMA EveryCallSettles ==
    ASSUME NEW g \in Nat, []CoverInv, [][Next]_vars, []Live
    PROVE  []((\E a \in Caller : Announces(a, g)) => <>OnItsWay(g))
  <1>1. ASSUME NEW a \in Caller PROVE Announces(a, g) => <>OnItsWay(g)
    <2>1. Live => CallReturns(a)
      BY DEF Live, TrafficClears
    <2> QED
      BY <2>1, CallLeavesMessage, PTL DEF CallSettles
  <1>2. (\E a \in Caller : Announces(a, g)) => <>OnItsWay(g)
    BY <1>1
  <1> QED
    BY <1>2, PTL

\* A request leads to its settlement.
RequestLeads(g) == (requested_gen >= g) ~> Settled(g)

LEMMA RequestsLead ==
    ASSUME NEW g \in Nat \ {0} PROVE Spec /\ []Live => RequestLeads(g)
  <1>1. []CoverInv /\ [][Next]_vars /\ []Live =>
           []((\E t \in Task : Carries(t, g)) => <>Settled(g))
    BY EveryMessageSettles
  <1>2. []CoverInv /\ [][Next]_vars /\ []Live =>
           []((\E a \in Caller : Announces(a, g)) => <>OnItsWay(g))
    BY EveryCallSettles
  <1>3. Answered(g) /\ requested_gen >= g =>
           OnItsWay(g) \/ \E a \in Caller : Announces(a, g)
    BY DEF Answered
  <1>4. OnItsWay(g) => Settled(g) \/ \E t \in Task : Carries(t, g)
    BY DEF OnItsWay
  <1>5. Spec => []Answered(g)
    BY AnsweredAlways
  <1> QED
    BY <1>1, <1>2, <1>3, <1>4, <1>5, CoverInvariant, PTL DEF Spec, RequestLeads

\* Every requested generation is applied or reported, for any number of clients,
\* callers and messages: if handlers return, workers go on, no message is stuck and
\* none goes around forever.  Each of these holds from any point on if it holds at
\* all; the box says so, because the provers do not move it across a quantifier.
THEOREM RequestsSettle == Spec /\ []Live => EveryRequestSettles
  <1>1. ASSUME NEW g \in 1 .. MaxGen PROVE Spec /\ []Live => Settles(g)
    <2>1. g \in Nat \ {0}
      BY ConstantsAssumption
    <2>2. Spec /\ []Live => RequestLeads(g)
      BY <2>1, RequestsLead
    <2> QED
      BY <2>2, PTL DEF RequestLeads, Settles
  <1> QED
    BY <1>1 DEF EveryRequestSettles
=============================================================================
