------------------------------ MODULE HostCert ------------------------------
(***************************************************************************)
(* The SSH host certificate of one managed host (a hub, or a client that   *)
(* is reached over SSH), its copy in the row's host_cert_* columns, and    *)
(* the sweep that renews it before it lapses.                              *)
(*                                                                         *)
(* A worker only talks to a host that presents a certificate that is not   *)
(* expired and is issued for a name the worker accepts, so a certificate   *)
(* that lapses, or that names the host in a way the row does not know,     *)
(* locks the control plane out.  Every task that installs one holds the    *)
(* row's advisory lock from before it reads the row until after it has     *)
(* committed the columns; the operator's bootstrap-host holds no lock and  *)
(* leaves the row alone.                                                   *)
(*                                                                         *)
(* Time is discrete.  The sweep is on time, and a message, or a run of     *)
(* bootstrap-host, is done MaxAge units after it is sent.                  *)
(***************************************************************************)
EXTENDS Integers, FiniteSets

CONSTANTS
    Name,         \* host names; all of them resolve to the host
    Task,         \* Celery messages for this row
    NoTask,       \* nobody holds the advisory lock
    Ttl,          \* SSH_HOST_CERT_TTL_SECONDS
    RenewBefore,  \* SSH_HOST_CERT_RENEW_BEFORE_SECONDS
    Interval,     \* SSH_HOST_CERT_ROTATION_INTERVAL_SECONDS
    MaxAge,       \* longest life of a message
    MaxTime,      \* bound on the clock
    Limit         \* bound on each kind of rare event, see Rare

Rare == {"crash", "fault", "rename", "request", "bootstrap"}

\* _validate_host_cert_rotation_windows
WindowsValid == Interval < RenewBefore /\ RenewBefore < Ttl

ASSUME HostCertAssumption ==
    /\ NoTask \notin Task /\ IsFiniteSet(Task)
    /\ Ttl \in Nat /\ RenewBefore \in Nat /\ Interval \in Nat \ {0}
    /\ MaxAge \in Nat /\ MaxTime \in Nat
    /\ WindowsValid
    /\ Limit \in [Rare -> Nat]

VARIABLES
    now,        \* wall clock
    lastSweep,  \* when beat last ran rotate_expiring_host_certs
    hostname,   \* Server.hostname or Client.hostname
    status,     \* Server.status or Client.status
    rec,        \* the host_cert_* columns; NoCert for NULL
    disk,       \* the certificate in /etc/ssh on the host
    served,     \* the certificate sshd has loaded
    lock,       \* holder of wgm:server:<id> or wgm:client:<id>
    pc,         \* progress of each message
    kind,       \* the task it names
    age,        \* how long ago it was sent
    mine,       \* the row as the task's session loaded it
    session,    \* the kind of SSH session it has or is about to open
    cert,       \* the certificate it was given by the CA
    boot,       \* progress of the operator's bootstrap-host
    bootCert,   \* the certificate it is installing
    missed,     \* ghost: rotations that came to nothing since sshd last loaded one
    used        \* rare events so far

rowvars  == <<hostname, status, rec>>
hostvars == <<disk, served>>
taskvars == <<pc, kind, age, mine, session, cert>>
bootvars == <<boot, bootCert>>
vars     == <<now, lastSweep, rowvars, hostvars, lock, taskvars, bootvars,
              missed, used>>

NodeStatus == {"pending", "ready", "error"}

\* free, queued, loaded (lock held, row read), connected, signed, written,
\* reloaded; finished: lock released, not yet acknowledged.
Held     == {"loaded", "connected", "signed", "written", "reloaded"}
Progress == Held \cup {"free", "queued", "finished"}

\* register is provision with a bootstrap key; reconfigure stands for every
\* task that takes the row's lock and installs no certificate.
Kind == {"rotate", "provision", "register", "reconfigure"}

\* A certificate: its principals and valid_before.
Cert == [names : SUBSET Name, before : 0 .. MaxTime + Ttl]

\* No certificate, and NULL columns: no name matches and any cutoff is later.
NoCert == [names |-> {}, before |-> 0]

Issued(n) == [names |-> {n}, before |-> now + Ttl]

Spend(m) == /\ used[m] < Limit[m]
            /\ used' = [used EXCEPT ![m] = @ + 1]

TypeOK ==
    /\ now \in 0 .. MaxTime /\ lastSweep \in 0 .. now
    /\ hostname \in Name
    /\ status \in NodeStatus
    /\ rec \in Cert /\ disk \in Cert /\ served \in Cert
    /\ lock \in Task \cup {NoTask}
    /\ pc \in [Task -> Progress]
    /\ kind \in [Task -> Kind]
    /\ age \in [Task -> Nat]
    /\ mine \in [Task -> [name : Name, known : SUBSET Name, status : NodeStatus]]
    /\ session \in [Task -> {"ca", "tofu"}]
    /\ cert \in [Task -> Cert]
    /\ boot \in {"idle", "signed", "written"} /\ bootCert \in Cert
    /\ missed \in Nat
    /\ used \in [Rare -> Nat]

\* A host that was provisioned or enrolled, one that was provisioned before the
\* columns existed, or one that is being registered with a bootstrap key.
Init ==
    /\ now = 0 /\ lastSweep = 0
    /\ hostname \in Name
    /\ lock = NoTask
    /\ age = [t \in Task |-> 0]
    /\ mine = [t \in Task |-> [name |-> hostname, known |-> {}, status |-> "pending"]]
    /\ session = [t \in Task |-> "ca"]
    /\ cert = [t \in Task |-> NoCert]
    /\ boot = "idle" /\ bootCert = NoCert
    /\ missed = 0
    /\ used = [m \in Rare |-> 0]
    /\ \/ /\ status = "ready"
          /\ disk = Issued(hostname) /\ served = disk /\ rec \in {disk, NoCert}
          /\ pc = [t \in Task |-> "free"] /\ kind = [t \in Task |-> "rotate"]
       \/ /\ status = "pending"
          /\ disk = NoCert /\ served = NoCert /\ rec = NoCert
          /\ \E t \in Task :
                /\ pc = [u \in Task |-> IF u = t THEN "queued" ELSE "free"]
                /\ kind = [u \in Task |-> IF u = t THEN "register" ELSE "rotate"]

(***************************************************************************)
(* Requests and the sweep                                                  *)
(***************************************************************************)

Send(k) ==
    \E t \in Task :
        /\ pc[t] = "free"
        /\ pc' = [pc EXCEPT ![t] = "queued"]
        /\ kind' = [kind EXCEPT ![t] = k]
        /\ age' = [age EXCEPT ![t] = 0]
        /\ UNCHANGED <<mine, session, cert>>

\* PATCH with a new hostname: the certificate is left as it is.
Rename(n) ==
    /\ n # hostname
    /\ Spend("rename")
    /\ hostname' = n
    /\ UNCHANGED <<now, lastSweep, status, rec, hostvars, lock, taskvars, bootvars,
                   missed>>

\* POST rotate-host-cert, or a change that reconfigures the hub.
Request(k) ==
    /\ k \in {"rotate", "reconfigure"}
    /\ Spend("request")
    /\ Send(k)
    /\ UNCHANGED <<now, lastSweep, rowvars, hostvars, lock, bootvars, missed>>

\* POST reprovision
Reprovision ==
    /\ Spend("request")
    /\ status' = "pending"
    /\ Send("provision")
    /\ UNCHANGED <<now, lastSweep, hostname, rec, hostvars, lock, bootvars, missed>>

\* Mutant: the renew window is forgotten.
DueWhenExpired == status = "ready" /\ rec.before < now

\* The sweep's WHERE: ready, and valid_before is NULL or before the cutoff.
Due == status = "ready" /\ rec.before < now + RenewBefore

SweepIsDue == now - lastSweep >= Interval

\* A dispatch that fails is logged and left to the next sweep.
Sweep ==
    /\ SweepIsDue
    /\ lastSweep' = now
    /\ \/ ~Due /\ UNCHANGED <<taskvars, missed, used>>
       \/ Due /\ Send("rotate") /\ UNCHANGED <<missed, used>>
       \/ Due /\ Spend("fault") /\ missed' = missed + 1 /\ UNCHANGED taskvars
    /\ UNCHANGED <<now, rowvars, hostvars, lock, bootvars>>

Tick ==
    /\ now < MaxTime
    /\ ~SweepIsDue
    /\ \A t \in Task : pc[t] # "free" => age[t] < MaxAge
    /\ boot # "idle" => now + Ttl - bootCert.before < MaxAge
    /\ now' = now + 1
    /\ age' = [t \in Task |-> IF pc[t] = "free" THEN 0 ELSE age[t] + 1]
    /\ UNCHANGED <<lastSweep, rowvars, hostvars, lock, pc, kind, mine, session,
                   cert, bootvars, missed, used>>

(***************************************************************************)
(* A task                                                                  *)
(***************************************************************************)

\* GET_LOCK, then session.get.  provision_server_task bootstraps first when
\* the message carries a key.
Start(t) ==
    /\ pc[t] = "queued"
    /\ lock = NoTask
    /\ lock' = t
    /\ pc' = [pc EXCEPT ![t] = "loaded"]
    /\ mine' = [mine EXCEPT ![t] = [name |-> hostname, known |-> rec.names,
                                    status |-> status]]
    /\ session' = [session EXCEPT ![t] = IF kind[t] = "register" THEN "tofu" ELSE "ca"]
    /\ UNCHANGED <<now, lastSweep, rowvars, hostvars, kind, age, cert, bootvars,
                   missed, used>>

\* The message of a rotation is spent without a new certificate.
CountMiss(t) == missed' = IF kind[t] = "rotate" THEN missed + 1 ELSE missed

\* "skipped": the lock is held.  A reconfigure retries instead.
Skip(t) ==
    /\ pc[t] = "queued"
    /\ lock # NoTask
    /\ kind[t] # "reconfigure"
    /\ pc' = [pc EXCEPT ![t] = "finished"]
    /\ CountMiss(t)
    /\ UNCHANGED <<now, lastSweep, rowvars, hostvars, lock, kind, age, mine,
                   session, cert, bootvars, used>>

\* The ORM writes a column only if it differs from what the session loaded.
SetStatus(t, s) == status' = IF mine[t].status = s THEN status ELSE s

Leave(t, next) ==
    /\ pc' = [pc EXCEPT ![t] = next]
    /\ lock' = NoTask
    /\ cert' = [cert EXCEPT ![t] = NoCert]
    /\ UNCHANGED <<kind, age, mine, session>>

\* _mark_error: a failed provision marks the row, unless it is the last commit
\* that fails; a failed rotation leaves it alone.
MarksError(t) == /\ kind[t] \in {"provision", "register"}
                 /\ ~(pc[t] = "reloaded" /\ session[t] = "ca")

EndInFailure(t) ==
    /\ Leave(t, "finished")
    /\ CountMiss(t)
    /\ IF MarksError(t) THEN SetStatus(t, "error") ELSE UNCHANGED status
    /\ UNCHANGED <<now, lastSweep, hostname, rec, bootvars>>

\* KnownHostsCAPolicy: inside its validity window, and issued for a name the
\* session accepts: the one it dials or one on the recorded certificate.
Trusted(c, names) == now < c.before /\ c.names \cap names # {}

\* Whether sshd has read the file again before it is told to is its own affair.
Presented == {disk, served}

Accepted(t) == {mine[t].name} \cup mine[t].known

Connect(t) ==
    /\ pc[t] = "loaded"
    /\ session[t] = "tofu" \/ \E c \in Presented : Trusted(c, Accepted(t))
    /\ pc' = [pc EXCEPT ![t] = "connected"]
    /\ UNCHANGED <<now, lastSweep, rowvars, hostvars, lock, kind, age, mine,
                   session, cert, bootvars, missed, used>>

\* UntrustedHostKeyError
Refused(t) ==
    /\ pc[t] = "loaded"
    /\ session[t] = "ca"
    /\ \E c \in Presented : ~Trusted(c, Accepted(t))
    /\ EndInFailure(t)
    /\ UNCHANGED <<hostvars, used>>

\* Mutants: a role without a TTL; the columns filled in as soon as the CA signs.
SignForever(t) ==
    /\ pc[t] = "connected" /\ kind[t] # "reconfigure"
    /\ cert' = [cert EXCEPT ![t] = [names |-> {mine[t].name}, before |-> MaxTime + Ttl + 1]]
    /\ pc' = [pc EXCEPT ![t] = "signed"]
    /\ UNCHANGED <<now, lastSweep, rowvars, hostvars, lock, kind, age, mine,
                   session, bootvars, missed, used>>

SignAndRecord(t) ==
    /\ pc[t] = "connected" /\ kind[t] # "reconfigure"
    /\ cert' = [cert EXCEPT ![t] = Issued(mine[t].name)]
    /\ rec' = Issued(mine[t].name)
    /\ pc' = [pc EXCEPT ![t] = "signed"]
    /\ UNCHANGED <<now, lastSweep, hostname, status, hostvars, lock, kind, age,
                   mine, session, bootvars, missed, used>>

\* mint_host_cert, with the hostname the task has loaded as the only principal.
Sign(t) ==
    /\ pc[t] = "connected" /\ kind[t] # "reconfigure"
    /\ cert' = [cert EXCEPT ![t] = Issued(mine[t].name)]
    /\ pc' = [pc EXCEPT ![t] = "signed"]
    /\ UNCHANGED <<now, lastSweep, rowvars, hostvars, lock, kind, age, mine,
                   session, bootvars, missed, used>>

WriteCert(t) ==
    /\ pc[t] = "signed"
    /\ disk' = cert[t]
    /\ pc' = [pc EXCEPT ![t] = "written"]
    /\ UNCHANGED <<now, lastSweep, rowvars, served, lock, kind, age, mine,
                   session, cert, bootvars, missed, used>>

ReloadSshd(t) ==
    /\ pc[t] = "written"
    /\ served' = disk
    /\ missed' = 0
    /\ pc' = [pc EXCEPT ![t] = "reloaded"]
    /\ UNCHANGED <<now, lastSweep, rowvars, disk, lock, kind, age, mine,
                   session, cert, bootvars, used>>

\* The bootstrap session is over; provisioning goes on over a CA session.
Bootstrapped(t) ==
    /\ pc[t] = "reloaded" /\ session[t] = "tofu"
    /\ pc' = [pc EXCEPT ![t] = "loaded"]
    /\ session' = [session EXCEPT ![t] = "ca"]
    /\ cert' = [cert EXCEPT ![t] = NoCert]
    /\ UNCHANGED <<now, lastSweep, rowvars, hostvars, lock, kind, age, mine,
                   bootvars, missed, used>>

\* Mutant: the columns keep the names of the certificate before.
RecordKeepsNames(t) ==
    /\ pc[t] = "reloaded" /\ session[t] = "ca"
    /\ rec' = [names |-> mine[t].known, before |-> cert[t].before]
    /\ IF kind[t] = "rotate" THEN UNCHANGED status ELSE SetStatus(t, "ready")
    /\ Leave(t, "finished")
    /\ UNCHANGED <<now, lastSweep, hostname, hostvars, bootvars, missed, used>>

\* _persist_host_cert and the commit, with the row's status for a provision.
Record(t) ==
    /\ pc[t] = "reloaded" /\ session[t] = "ca"
    /\ rec' = cert[t]
    /\ IF kind[t] = "rotate" THEN UNCHANGED status ELSE SetStatus(t, "ready")
    /\ Leave(t, "finished")
    /\ UNCHANGED <<now, lastSweep, hostname, hostvars, bootvars, missed, used>>

\* A task that installs no certificate gives the lock back.
Reconfigured(t) ==
    /\ pc[t] = "connected" /\ kind[t] = "reconfigure"
    /\ Leave(t, "finished")
    /\ UNCHANGED <<now, lastSweep, rowvars, hostvars, bootvars, missed, used>>

Ack(t) ==
    /\ pc[t] = "finished"
    /\ pc' = [pc EXCEPT ![t] = "free"]
    /\ age' = [age EXCEPT ![t] = 0]
    /\ UNCHANGED <<now, lastSweep, rowvars, hostvars, lock, kind, mine, session,
                   cert, bootvars, missed, used>>

(***************************************************************************)
(* Mishaps, and the operator's bootstrap-host                              *)
(***************************************************************************)

\* What the step that was cut short may have done.
CutShort(t) ==
    \/ UNCHANGED hostvars
    \/ pc[t] = "signed" /\ disk' = cert[t] /\ UNCHANGED served
    \/ pc[t] = "written" /\ served' = disk /\ UNCHANGED disk

\* SSH, the CA or the last commit fails.
TaskFails(t) ==
    /\ pc[t] \in Held
    /\ Spend("fault")
    /\ CutShort(t)
    /\ EndInFailure(t)

\* The worker dies, MySQL drops its lock and the message is delivered again.
Crash(t) ==
    /\ pc[t] \in Held
    /\ Spend("crash")
    /\ CutShort(t)
    /\ Leave(t, "queued")
    /\ UNCHANGED <<now, lastSweep, rowvars, bootvars, missed>>

\* Killed between the commit and the acknowledgement: the task runs again.
CrashBeforeAck(t) ==
    /\ pc[t] = "finished"
    /\ Spend("crash")
    /\ pc' = [pc EXCEPT ![t] = "queued"]
    /\ UNCHANGED <<now, lastSweep, rowvars, hostvars, lock, kind, age, mine,
                   session, cert, bootvars, missed>>

\* bootstrap-host dials the row's name, with an alias if the operator gives one.
BootstrapSign(alias) ==
    /\ boot = "idle"
    /\ Spend("bootstrap")
    /\ boot' = "signed"
    /\ bootCert' = [names |-> {hostname, alias}, before |-> now + Ttl]
    /\ UNCHANGED <<now, lastSweep, rowvars, hostvars, lock, taskvars, missed>>

BootstrapWrite ==
    /\ boot = "signed"
    /\ boot' = "written"
    /\ disk' = bootCert
    /\ UNCHANGED <<now, lastSweep, rowvars, served, lock, taskvars, bootCert,
                   missed, used>>

BootstrapReload ==
    /\ boot = "written"
    /\ boot' = "idle" /\ bootCert' = NoCert
    /\ served' = disk
    /\ missed' = 0
    /\ UNCHANGED <<now, lastSweep, rowvars, disk, lock, taskvars, used>>

\* The operator's session ends where it is.
BootstrapFails ==
    /\ boot # "idle"
    /\ boot' = "idle" /\ bootCert' = NoCert
    /\ UNCHANGED <<now, lastSweep, rowvars, hostvars, lock, taskvars, missed, used>>

(***************************************************************************)
(* Specification                                                           *)
(***************************************************************************)

RequestStep ==
    \/ \E n \in Name : Rename(n) \/ BootstrapSign(n)
    \/ \E k \in Kind : Request(k)
    \/ Reprovision
    \/ BootstrapWrite \/ BootstrapReload \/ BootstrapFails

TaskStep(t) ==
    \/ Start(t) \/ Skip(t)
    \/ Connect(t) \/ Refused(t)
    \/ Sign(t) \/ WriteCert(t) \/ ReloadSshd(t)
    \/ Bootstrapped(t) \/ Record(t) \/ Reconfigured(t)
    \/ Ack(t)

Mishap(t) == TaskFails(t) \/ Crash(t) \/ CrashBeforeAck(t)

Next ==
    \/ Tick
    \/ Sweep
    \/ RequestStep
    \/ \E t \in Task : TaskStep(t) \/ Mishap(t)

Spec == Init /\ [][Next]_vars

(***************************************************************************)
(* Properties                                                              *)
(***************************************************************************)

\* The columns never promise more time than the host has, as long as nobody ran
\* bootstrap-host: the sweep, which trusts them, is never late because of a
\* rotation that was cut short between the installation and the commit.
RecordNotAhead ==
    used["bootstrap"] = 0 => \A c \in Presented : rec.before <= c.before

\* Sweeps left before a certificate lapses, after the ones that were missed: one
\* MaxAge for the message of the next, one for a bootstrap-host whose certificate
\* was signed that much before it replaced a newer one. A certificate must not be
\* due already when the message that signed it ends.
ChancesLeft ==
    /\ (missed + 1) * Interval + 2 * MaxAge < RenewBefore
    /\ RenewBefore + MaxAge <= Ttl

\* "A cert can [not] enter the window and expire between two sweeps": what a
\* ready host presents does not lapse while fewer rotations have come to nothing
\* than the renew window leaves room for.
NeverLapses ==
    status = "ready" /\ ChancesLeft => \A c \in Presented : now < c.before

\* "A row whose hostname was edited can still be reached (and re-certified for
\* its new name)" (_open_runner): between tasks, a row with a recorded certificate
\* accepts a name on whatever its host presents.
RenamedIsReachable ==
    lock = NoTask /\ boot = "idle" /\ rec # NoCert =>
        \A c \in Presented : c.names \cap ({hostname} \cup rec.names) # {}
=============================================================================
