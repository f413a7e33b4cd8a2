---------------------------- MODULE HubReconfig ----------------------------
(***************************************************************************)
(* How one WireGuard hub's peer list follows the client table.             *)
(*                                                                         *)
(* Every change to a client row is committed first and then announced by   *)
(* request_reconfigure, which bumps server.reconfig_requested_gen and      *)
(* queues a reconfigure_server task.  The task serialises with every other *)
(* writer of the hub through the advisory lock wgm:server:<id>, reads the  *)
(* ready clients, rewrites wg0.conf over SSH, restarts the interface and   *)
(* raises server.reconfig_applied_gen.  provision_server rewrites the same *)
(* file under the same lock.  The broker delivers at least once.           *)
(*                                                                         *)
(* All of this state is per hub (the lock name, both generations and the   *)
(* client list are keyed by server_id), so the module models one hub.      *)
(***************************************************************************)
EXTENDS Integers

CONSTANTS
    Client,          \* client row ids; an id is never used again after DELETE
    Manual,          \* the clients with no SSH access (Client.is_manual)
    Caller,          \* requests and workers that change a client row and then announce it
    Task,            \* Celery messages for this hub
    NoTask,          \* nobody holds the advisory lock
    NoClient,        \* the caller is idle
    RepeatableRead,  \* InnoDB's default isolation; FALSE is READ COMMITTED
    MaxRetries,      \* RECONFIGURE_MAX_RETRIES
    MaxGen,          \* bound on reconfig_requested_gen
    Limit            \* bound on each kind of rare event, see Rare

Rare == {"crash", "fault", "torn", "redeliver", "lockloss", "reprovision"}

ASSUME ConstantsAssumption ==
    /\ Manual \subseteq Client
    /\ NoTask \notin Task
    /\ NoClient \notin Client
    /\ RepeatableRead \in BOOLEAN
    /\ MaxRetries \in Nat
    /\ MaxGen \in Nat
    /\ Limit \in [Rare -> Nat]

VARIABLES
    status,        \* Client.status, with "none" before INSERT and "deleted" after DELETE
    since,         \* ghost: the first generation that necessarily announces the
                   \*   latest committed change of each client
    serverStatus,  \* Server.status
    requested_gen, \* Server.reconfig_requested_gen
    applied_gen,   \* Server.reconfig_applied_gen
    conf,          \* peers in the hub's /etc/wireguard/wg0.conf
    live,          \* peers on the running interface, while it is up
    up,            \* the interface is up
    lock,          \* holder of GET_LOCK('wgm:server:<id>')
    pc,            \* progress of each message, see Progress
    kind,          \* which task the message names
    gen,           \* its generation argument
    tries,         \* its retry count
    target,        \* requested_gen as the task read it
    tlist,         \* the ready clients as the task read them
    loaded,        \* Server.status as the task's session loaded it
    call,          \* progress of each caller
    cclient,       \* the client it changed
    cgen,          \* the generation its bump produced
    reported,      \* ghost: highest generation whose loss somebody was told about
    failedCalls,   \* ghost: clients whose change was committed but whose caller got an error
    used           \* rare events so far

dbvars   == <<status, since, serverStatus, requested_gen, applied_gen>>
hubvars  == <<conf, live, up>>
taskvars == <<pc, kind, gen, tries, target, tlist, loaded>>
callvars == <<call, cclient, cgen>>
vars     == <<dbvars, hubvars, lock, taskvars, callvars, reported, failedCalls, used>>

(***************************************************************************)
(* Types and helpers                                                       *)
(***************************************************************************)

NodeStatus == {"pending", "ready", "error"}

\* generation=None, carried by messages queued before Alembic 0019.
NoGen == -1

\* free: not sent, or acknowledged; queued: in the broker, or with a worker that
\* waits for the lock; locked, loaded, listed, lowered, written, restarted: what
\* has been done under the lock; finished: lock released, not yet acknowledged.
Held     == {"locked", "loaded", "listed", "lowered", "written", "restarted"}
Progress == Held \cup {"free", "queued", "finished"}

Larger(a, b) == IF a < b THEN b ELSE a

Existing(c) == status[c] \in NodeStatus

\* _ready_clients_for
ReadyClients == {c \in Client : status[c] = "ready"}

Spend(m) == /\ used[m] < Limit[m]
            /\ used' = [used EXCEPT ![m] = @ + 1]

TypeOK ==
    /\ status \in [Client -> NodeStatus \cup {"none", "deleted"}]
    /\ since \in [Client -> Nat]
    /\ serverStatus \in NodeStatus
    /\ requested_gen \in Nat /\ applied_gen \in Nat
    /\ conf \in SUBSET Client /\ live \in SUBSET Client /\ up \in BOOLEAN
    /\ lock \in Task \cup {NoTask}
    /\ pc \in [Task -> Progress]
    /\ kind \in [Task -> {"reconfigure", "provision"}]
    /\ gen \in [Task -> Nat \cup {NoGen}]
    /\ tries \in [Task -> Nat]
    /\ target \in [Task -> Nat]
    /\ tlist \in [Task -> SUBSET Client]
    /\ loaded \in [Task -> NodeStatus]
    /\ call \in [Caller -> {"idle", "committed", "bumped"}]
    /\ cclient \in [Caller -> Client \cup {NoClient}]
    /\ \A a \in Caller : call[a] # "idle" => cclient[a] \in Client
    /\ cgen \in [Caller -> Nat]
    /\ reported \in Nat
    /\ failedCalls \in SUBSET Client
    /\ used \in [Rare -> Nat]

(***************************************************************************)
(* Either the hub was just registered, its provisioning task queued, or    *)
(* the deployment was upgraded across Alembic 0019 with a reconfigure      *)
(* message of the old shape still in the broker.                           *)
(***************************************************************************)
Init ==
    /\ status = [c \in Client |-> "none"]
    /\ since = [c \in Client |-> 0]
    /\ requested_gen = 0 /\ applied_gen = 0
    /\ conf = {} /\ live = {}
    /\ lock = NoTask
    /\ gen = [t \in Task |-> NoGen]
    /\ tries = [t \in Task |-> 0]
    /\ target = [t \in Task |-> 0]
    /\ tlist = [t \in Task |-> {}]
    /\ loaded = [t \in Task |-> "pending"]
    /\ call = [a \in Caller |-> "idle"]
    /\ cclient = [a \in Caller |-> NoClient]
    /\ cgen = [a \in Caller |-> 0]
    /\ reported = 0 /\ failedCalls = {}
    /\ used = [m \in Rare |-> 0]
    /\ \E t \in Task, k \in {"reconfigure", "provision"} :
          /\ pc = [u \in Task |-> IF u = t THEN "queued" ELSE "free"]
          /\ kind = [u \in Task |-> IF u = t THEN k ELSE "reconfigure"]
          /\ serverStatus = IF k = "provision" THEN "pending" ELSE "ready"
          /\ up = (k = "reconfigure")

(***************************************************************************)
(* Client rows.  A handler's checks and its commit are one step: nothing   *)
(* below depends on the gap between them.  A change the hub must learn     *)
(* about sets since[c]: the next bump of requested_gen is the first that   *)
(* happens after this commit.                                              *)
(***************************************************************************)

CommitAndAnnounce(a, c, s) ==
    /\ call[a] = "idle"
    /\ status' = [status EXCEPT ![c] = s]
    /\ since' = IF status[c] = s THEN since
                                 ELSE [since EXCEPT ![c] = requested_gen + 1]
    /\ call' = [call EXCEPT ![a] = "committed"]
    /\ cclient' = [cclient EXCEPT ![a] = c]
    /\ failedCalls' = failedCalls \ {c}
    /\ UNCHANGED <<serverStatus, requested_gen, applied_gen, hubvars, lock,
                   taskvars, cgen, reported, used>>

CommitOnly(c, s) ==
    /\ status' = [status EXCEPT ![c] = s]
    /\ UNCHANGED <<since, serverStatus, requested_gen, applied_gen, hubvars,
                   lock, taskvars, callvars, reported, failedCalls, used>>

\* POST /clients/manual: born ready.
RegisterManualClient(a, c) ==
    /\ c \in Manual /\ status[c] = "none"
    /\ serverStatus = "ready"
    /\ CommitAndAnnounce(a, c, "ready")

\* POST /v1/enroll (see Enrollment): born ready, and managed over SSH after.
EnrollClient(a, c) ==
    /\ c \notin Manual /\ status[c] = "none"
    /\ serverStatus = "ready"
    /\ CommitAndAnnounce(a, c, "ready")

\* POST /clients: born pending, the hub is told once provisioning succeeds.
RegisterClient(c) ==
    /\ c \notin Manual /\ status[c] = "none"
    /\ serverStatus = "ready"
    /\ CommitOnly(c, "pending")

\* provision_client_task, last commit and follow-up request.  The ORM leaves
\* the status alone when the session had loaded it as ready.
ProvisionClientDone(a, c) ==
    /\ c \notin Manual /\ Existing(c)
    /\ \E s \in {"ready", status[c]} : CommitAndAnnounce(a, c, s)

\* provision_client_task, _mark_error: the hub is not told.
ProvisionClientFailed(c) ==
    /\ c \notin Manual /\ Existing(c)
    /\ CommitOnly(c, "error")

\* POST /clients/{id}/reprovision: the hub is not told.
ReprovisionClient(c) ==
    /\ c \notin Manual /\ Existing(c)
    /\ CommitOnly(c, "pending")

\* DELETE /clients/{id}
DeleteClient(a, c) ==
    /\ Existing(c)
    /\ CommitAndAnnounce(a, c, "deleted")

(***************************************************************************)
(* request_reconfigure: bump in a transaction of its own, then read the    *)
(* counter back and queue the task with what was read.  Two callers may    *)
(* both read the later of their two bumps.                                 *)
(***************************************************************************)

Bump(a) ==
    /\ call[a] = "committed"
    /\ requested_gen < MaxGen
    /\ requested_gen' = requested_gen + 1
    /\ cgen' = [cgen EXCEPT ![a] = requested_gen + 1]
    /\ call' = [call EXCEPT ![a] = "bumped"]
    /\ UNCHANGED <<status, since, serverStatus, applied_gen, hubvars, lock,
                   taskvars, cclient, reported, failedCalls, used>>

\* A message enters the broker.
Send(t, k, g, n) ==
    /\ pc[t] = "free"
    /\ pc' = [pc EXCEPT ![t] = "queued"]
    /\ kind' = [kind EXCEPT ![t] = k]
    /\ gen' = [gen EXCEPT ![t] = g]
    /\ tries' = [tries EXCEPT ![t] = n]
    /\ UNCHANGED <<target, tlist, loaded>>

Return(a) ==
    /\ call' = [call EXCEPT ![a] = "idle"]
    /\ cclient' = [cclient EXCEPT ![a] = NoClient]
    /\ cgen' = [cgen EXCEPT ![a] = 0]

Dispatch(a) ==
    /\ call[a] = "bumped"
    /\ \E t \in Task, g \in cgen[a] .. requested_gen : Send(t, "reconfigure", g, 0)
    /\ Return(a)
    /\ UNCHANGED <<dbvars, hubvars, lock, reported, failedCalls, used>>

\* The API process dies, the database or the broker refuses: the change is
\* committed, and the caller gets an error instead of a task id.
CallerFails(a) ==
    /\ call[a] \in {"committed", "bumped"}
    /\ Spend("fault")
    /\ Return(a)
    /\ IF call[a] = "committed"
         THEN /\ failedCalls' = failedCalls \cup {cclient[a]}
              /\ UNCHANGED reported
         ELSE /\ reported' = Larger(reported, cgen[a])
              /\ UNCHANGED failedCalls
    /\ UNCHANGED <<dbvars, hubvars, lock, taskvars>>

\* POST /servers/{id}/reprovision: commit pending, then queue; the broker
\* may refuse the message after the commit.
ReprovisionServer ==
    /\ serverStatus' = "pending"
    /\ \/ /\ \E t \in Task : Send(t, "provision", NoGen, 0)
          /\ Spend("reprovision")
       \/ /\ Spend("fault")
          /\ UNCHANGED taskvars
    /\ UNCHANGED <<status, since, requested_gen, applied_gen, hubvars, lock,
                   callvars, reported, failedCalls>>

(***************************************************************************)
(* The broker and task_row_lock                                            *)
(***************************************************************************)

\* A worker takes the message, which is acknowledged only when the task ends,
\* and GET_LOCK returns 1.
Acquire(t) ==
    /\ pc[t] = "queued"
    /\ lock = NoTask
    /\ lock' = t
    /\ pc' = [pc EXCEPT ![t] = "locked"]
    /\ UNCHANGED <<dbvars, hubvars, kind, gen, tries, target, tlist, loaded,
                   callvars, reported, failedCalls, used>>

\* Mutant: contention skips instead of retrying, as before Alembic 0019.
ContendedSkips(t) ==
    /\ pc[t] = "queued"
    /\ lock # NoTask
    /\ pc' = [pc EXCEPT ![t] = "finished"]
    /\ UNCHANGED <<dbvars, hubvars, lock, kind, gen, tries, target, tlist, loaded,
                   callvars, reported, failedCalls, used>>

\* Mutant: after the last retry the task waits for the lock without a limit.
ContendedWaits(t) ==
    /\ pc[t] = "queued"
    /\ lock # NoTask
    /\ kind[t] = "reconfigure" /\ tries[t] < MaxRetries
    /\ tries' = [tries EXCEPT ![t] = @ + 1]
    /\ UNCHANGED <<dbvars, hubvars, lock, pc, kind, gen, target, tlist, loaded,
                   callvars, reported, failedCalls, used>>

\* GET_LOCK timed out: a reconfigure retries until MaxRetries and then fails,
\* a provision returns "skipped".
Contended(t) ==
    /\ pc[t] = "queued"
    /\ lock # NoTask
    /\ \/ /\ kind[t] = "reconfigure" /\ tries[t] < MaxRetries
          /\ UNCHANGED pc
          /\ tries' = [tries EXCEPT ![t] = @ + 1]
          /\ UNCHANGED reported
       \/ /\ kind[t] = "reconfigure" /\ tries[t] >= MaxRetries
          /\ pc' = [pc EXCEPT ![t] = "finished"]
          /\ reported' = Larger(reported, gen[t])
          /\ UNCHANGED tries
       \/ /\ kind[t] = "provision"
          /\ pc' = [pc EXCEPT ![t] = "finished"]
          /\ UNCHANGED <<tries, reported>>
    /\ UNCHANGED <<dbvars, hubvars, lock, kind, gen, target, tlist, loaded,
                   callvars, failedCalls, used>>

\* Leave the critical section and its local variables.  RELEASE_LOCK frees
\* only a lock this connection still owns.
Release(t, next) ==
    /\ pc' = [pc EXCEPT ![t] = next]
    /\ lock' = IF lock = t THEN NoTask ELSE lock
    /\ target' = [target EXCEPT ![t] = 0]
    /\ tlist' = [tlist EXCEPT ![t] = {}]
    /\ loaded' = [loaded EXCEPT ![t] = "pending"]
    /\ UNCHANGED <<kind, gen, tries>>

Ack(t) ==
    /\ pc[t] = "finished"
    /\ pc' = [pc EXCEPT ![t] = "free"]
    /\ kind' = [kind EXCEPT ![t] = "reconfigure"]
    /\ gen' = [gen EXCEPT ![t] = NoGen]
    /\ tries' = [tries EXCEPT ![t] = 0]
    /\ UNCHANGED <<dbvars, hubvars, lock, target, tlist, loaded, callvars,
                   reported, failedCalls, used>>

(***************************************************************************)
(* The body of both tasks                                                  *)
(***************************************************************************)

\* generation is not None and server.reconfig_applied_gen >= generation
Covered(t) == kind[t] = "reconfigure" /\ gen[t] # NoGen /\ applied_gen >= gen[t]

\* Mutant: a coalesced message is rejected instead of acknowledged.
CoalesceRejects(t) ==
    /\ pc[t] = "locked"
    /\ Covered(t)
    /\ Release(t, "queued")
    /\ UNCHANGED <<dbvars, hubvars, callvars, reported, failedCalls, used>>

\* A newer run already wrote this change: "coalesced", no SSH.
Coalesce(t) ==
    /\ pc[t] = "locked"
    /\ Covered(t)
    /\ Release(t, "finished")
    /\ UNCHANGED <<dbvars, hubvars, callvars, reported, failedCalls, used>>

\* session.get(Server): the row, and under REPEATABLE READ the snapshot that
\* every later read of the session sees.
Load(t) ==
    /\ pc[t] = "locked"
    /\ ~Covered(t)
    /\ pc' = [pc EXCEPT ![t] = "loaded"]
    /\ target' = [target EXCEPT ![t] = requested_gen]
    /\ tlist' = [tlist EXCEPT ![t] = ReadyClients]
    /\ loaded' = [loaded EXCEPT ![t] = serverStatus]
    /\ UNCHANGED <<dbvars, hubvars, lock, kind, gen, tries, callvars, reported,
                   failedCalls, used>>

\* Mutant: the target is read after the list it has to cover.
ListThenTarget(t) ==
    /\ pc[t] = "loaded"
    /\ pc' = [pc EXCEPT ![t] = "listed"]
    /\ target' = [target EXCEPT ![t] = requested_gen]
    /\ UNCHANGED <<dbvars, hubvars, lock, kind, gen, tries, tlist, loaded,
                   callvars, reported, failedCalls, used>>

List(t) ==
    /\ pc[t] = "loaded"
    /\ pc' = [pc EXCEPT ![t] = "listed"]
    /\ tlist' = IF RepeatableRead THEN tlist ELSE [tlist EXCEPT ![t] = ReadyClients]
    /\ UNCHANGED <<dbvars, hubvars, lock, kind, gen, tries, target, loaded,
                   callvars, reported, failedCalls, used>>

\* Effects on the hub: _ensure_interface_down, _write_server_config,
\* _restart_interface.  A restart starts from the file, whoever wrote it.
TakeDown      == up' = FALSE /\ UNCHANGED <<conf, live>>
WriteFile(t)  == conf' = tlist[t] /\ UNCHANGED <<live, up>>
RestartUnit   == live' = conf /\ up' = TRUE /\ UNCHANGED conf

Remote(t, from, to) ==
    /\ pc[t] = from
    /\ pc' = [pc EXCEPT ![t] = to]
    /\ UNCHANGED <<dbvars, lock, kind, gen, tries, target, tlist, loaded,
                   callvars, reported, failedCalls, used>>

Lower(t) ==
    /\ kind[t] = "provision"
    /\ Remote(t, "listed", "lowered")
    /\ TakeDown

\* reconfigure_server writes at once, provision_server after the teardown.
BeforeWrite(t) == IF kind[t] = "provision" THEN "lowered" ELSE "listed"

Write(t) ==
    /\ Remote(t, BeforeWrite(t), "written")
    /\ WriteFile(t)

Restart(t) ==
    /\ Remote(t, "written", "restarted")
    /\ RestartUnit

\* Mutants: mark the message's generation, the generation requested by now, or
\* drop the WHERE reconfig_applied_gen < target.
MarkAppliedFromMessage(t) == applied_gen' = gen[t]
MarkAppliedByNow(t)       == applied_gen' = requested_gen
MarkAppliedUnguarded(t)   == applied_gen' = target[t]

\* The forward-only UPDATE that ends reconfigure_server_task.
MarkApplied(t) ==
    applied_gen' = IF applied_gen < target[t] THEN target[t] ELSE applied_gen

Apply(t) ==
    /\ kind[t] = "reconfigure"
    /\ pc[t] = "restarted"
    /\ MarkApplied(t)
    /\ Release(t, "finished")
    /\ UNCHANGED <<status, since, serverStatus, requested_gen, hubvars,
                   callvars, reported, failedCalls, used>>

\* The ORM writes a column only if it differs from what the session loaded.
SetServerStatus(t, s) ==
    serverStatus' = IF loaded[t] = s THEN serverStatus ELSE s

ProvisionDone(t) ==
    /\ kind[t] = "provision"
    /\ pc[t] = "restarted"
    /\ SetServerStatus(t, "ready")
    /\ Release(t, "finished")
    /\ UNCHANGED <<status, since, requested_gen, applied_gen, hubvars,
                   callvars, reported, failedCalls, used>>

(***************************************************************************)
(* Mishaps                                                                 *)
(***************************************************************************)

\* What the step that was cut short may have done to the hub: nothing, all
\* of it with the answer lost, or a stop without the start.
CutShort(t) ==
    \/ UNCHANGED hubvars
    \/ pc[t] = "listed" /\ kind[t] = "provision" /\ TakeDown
    \/ pc[t] = BeforeWrite(t) /\ WriteFile(t)
    \/ pc[t] = "written" /\ (TakeDown \/ RestartUnit)

\* The task ends in FAILURE.  provision_server marks the row error, unless it
\* was gone or the database refuses that commit too.
EndInFailure(t) ==
    /\ Release(t, "finished")
    /\ \/ UNCHANGED serverStatus
       \/ /\ kind[t] = "provision" /\ pc[t] # "locked"
          /\ SetServerStatus(t, "error")
    /\ reported' = IF kind[t] = "provision" THEN reported
                                            ELSE Larger(reported, gen[t])
    /\ UNCHANGED <<status, since, requested_gen, applied_gen, callvars,
                   failedCalls>>

\* The row is gone, SSH fails, the CA refuses or the last commit fails.
TaskFails(t) ==
    /\ pc[t] \in Held
    /\ Spend("fault")
    /\ CutShort(t)
    /\ EndInFailure(t)

\* _write_server_config redirects sed straight into wg0.conf: when the hub's
\* disk is full the old file is truncated and the new one is not written.
TornWrite(t) ==
    /\ pc[t] = BeforeWrite(t)
    /\ Spend("torn")
    /\ conf' = {}
    /\ UNCHANGED <<live, up>>
    /\ EndInFailure(t)

\* Mutant: the message was acknowledged when it was taken (task_acks_late off).
CrashAcksEarly(t) ==
    /\ pc[t] \in Held \cup {"finished"}
    /\ Spend("crash")
    /\ CutShort(t)
    /\ Release(t, "finished")
    /\ UNCHANGED <<dbvars, callvars, reported, failedCalls>>

\* The worker dies: its connections close, MySQL drops the lock, and the
\* broker queues the unacknowledged message again.
Crash(t) ==
    /\ pc[t] \in Held \cup {"finished"}
    /\ Spend("crash")
    /\ CutShort(t)
    /\ Release(t, "queued")
    /\ UNCHANGED <<dbvars, callvars, reported, failedCalls>>

\* The broker's visibility timeout passes: the message is delivered twice.
Redeliver(t) ==
    /\ pc[t] # "free"
    /\ Spend("redeliver")
    /\ \E u \in Task : Send(u, kind[t], gen[t], tries[t])
    /\ UNCHANGED <<dbvars, hubvars, lock, callvars, reported, failedCalls>>

\* The dedicated lock connection is lost while its task goes on.
LoseLock ==
    /\ lock # NoTask
    /\ Spend("lockloss")
    /\ lock' = NoTask
    /\ UNCHANGED <<dbvars, hubvars, taskvars, callvars, reported, failedCalls>>

(***************************************************************************)
(* Specification                                                           *)
(***************************************************************************)

ClientStep ==
    \E c \in Client :
        \/ RegisterClient(c)
        \/ ProvisionClientFailed(c)
        \/ ReprovisionClient(c)
        \/ \E a \in Caller : \/ RegisterManualClient(a, c)
                             \/ EnrollClient(a, c)
                             \/ ProvisionClientDone(a, c)
                             \/ DeleteClient(a, c)

CallerStep(a) == Bump(a) \/ Dispatch(a)

TaskStep(t) ==
    \/ Acquire(t) \/ Contended(t)
    \/ Coalesce(t) \/ Load(t) \/ List(t)
    \/ Lower(t) \/ Write(t) \/ Restart(t)
    \/ Apply(t) \/ ProvisionDone(t) \/ Ack(t)

MishapStep ==
    \/ \E a \in Caller : CallerFails(a)
    \/ \E t \in Task : TaskFails(t) \/ TornWrite(t) \/ Crash(t) \/ Redeliver(t)
    \/ LoseLock

Next ==
    \/ ClientStep
    \/ \E a \in Caller : CallerStep(a)
    \/ ReprovisionServer
    \/ \E t \in Task : TaskStep(t)
    \/ MishapStep

Spec == Init /\ [][Next]_vars

\* Handlers run to completion and workers keep taking messages; operators,
\* mishaps and the provisioning of clients owe nobody a step.
CallerFair(a) == WF_vars(CallerStep(a))
TaskFair(t)   == WF_vars(TaskStep(t))

Fairness ==
    /\ \A a \in Caller : CallerFair(a)
    /\ \A t \in Task : TaskFair(t)

FairSpec == Spec /\ Fairness

(***************************************************************************)
(* Properties                                                              *)
(***************************************************************************)

\* A peer list agrees with every client change announced by generation g or
\* earlier: added peers are on it, deleted peers are not.
Agrees(peers, g) ==
    \A c \in Client : since[c] <= g =>
        /\ status[c] = "ready" => c \in peers
        /\ status[c] = "deleted" => c \notin peers

\* reconfig_applied_gen is never ahead of the hub: every addition and deletion
\* that a generation up to it announced is in wg0.conf, and on the interface
\* whenever that is up.  This is what makes returning "coalesced" safe.
AppliedIsOnHub ==
    /\ Agrees(conf, applied_gen)
    /\ up => Agrees(live, applied_gen)

\* Somebody answers for the latest change of c: it is applied, a failure that
\* covers it was reported (a 5xx answer, a FAILURE result), a caller is still
\* announcing it, or a message that covers it is in the broker or with a worker.
Accounted(c) ==
    \/ since[c] <= applied_gen
    \/ since[c] <= reported
    \/ c \in failedCalls
    \/ \E a \in Caller : call[a] = "committed" /\ cclient[a] = c
    \/ \E a \in Caller : call[a] = "bumped" /\ since[c] <= cgen[a]
    \/ \E t \in Task : /\ pc[t] \in Held \cup {"queued"}
                       /\ kind[t] = "reconfigure"
                       /\ since[c] <= gen[t]

\* No addition or deletion is ever lost in silence, neither by the commit-then-
\* request gap of the routers nor by coalescing, retries, crashes or redelivery.
NoSilentLoss ==
    \A c \in Client : status[c] \in {"ready", "deleted"} => Accounted(c)

\* The applied generation only moves forward and never passes the requested
\* one, even when the lock is lost and a slow run finishes after a newer one.
AppliedMovesForward ==
    [][applied_gen' >= applied_gen /\ applied_gen' <= requested_gen']_<<applied_gen, requested_gen>>

\* Every requested generation is eventually applied, or its loss is reported: there
\* is no time after which one is requested and never settled.  None of the three
\* numbers ever goes back, so this is requested_gen >= g ~> Settled(g), in the form
\* that TLC checks without a tableau.
Settled(g) == applied_gen >= g \/ reported >= g

Settles(g) == []<>(requested_gen >= g => Settled(g))

EveryRequestSettles == \A g \in 1 .. MaxGen : Settles(g)

\* No message is ever stuck: whatever its task has done so far and whoever holds
\* the lock, there is a step it may take next.
TaskCanGoOn(t) == pc[t] # "free" => ENABLED <<TaskStep(t)>>_vars

NoMessageIsStuck == \A t \in Task : TaskCanGoOn(t)

\* request_reconfigure, once it has bumped the counter, returns or raises.
CallReturns(a) == []<>(call[a] # "bumped")

\* A message comes back to the broker: a retry, or its worker died.
GoesBack(t) ==
    /\ pc[t] # "free" /\ pc'[t] = "queued"
    /\ pc'[t] # pc[t] \/ tries'[t] # tries[t]

SettlesDown(t) == <>[][~GoesBack(t)]_vars

\* Announcements get out and messages do not go around forever: whatever two
\* callers read of each other's bumps, each sends its own message, and
\* RECONFIGURE_MAX_RETRIES and coalescing put an end to every one of them.
TrafficClears ==
    /\ \A a \in Caller : CallReturns(a)
    /\ \A t \in Task : SettlesDown(t)
=============================================================================
