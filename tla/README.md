# wg_manager in TLA+

wg_manager is a control plane for WireGuard hubs and spokes: a FastAPI service
and a Celery worker share a MySQL database, and the workers configure hosts over
SSH.  This directory models the parts of it whose correctness depends on the
order in which requests, tasks, transactions and hosts act, checks them with TLC
on small instances, and proves the main results with TLAPS for every instance.

All paths below are relative to `src/wg_manager/` in the repository.

## Parts of the system

| Part | State | Operations | Interacts with |
|---|---|---|---|
| Hub reconfiguration (`tasks.py`, `wireguard.py`) | `server.status`, `reconfig_requested_gen`, `reconfig_applied_gen`; `wg0.conf` and the interface on the hub | `request_reconfigure`, `reconfigure_server_task`, `provision_server_task` | called after every client change; serialised by the lock `wgm:server:<id>`; messages through the broker |
| Advisory locks (`locks.py`) | `GET_LOCK` names, each owned by one MySQL connection | acquire with timeout, release, invalidate | tasks (`server`, `client`), enrollment (`ipam`) |
| Client API (`routers/clients.py`) | `client` rows: status, address, `is_manual` | register, register manual, reprovision, delete | queues `provision_client_task`, calls `request_reconfigure` |
| Server API (`routers/servers.py`) | `server` rows | register, reprovision, update, delete, discover | queues `provision_server_task` and discovery |
| Enrollment tokens (`enrollment.py`, `routers/enrollment_tokens.py`) | `use_count`, `max_uses`, `expires_at`, `revoked_at` | mint, revoke, consume, sweep | redeemed by the enrollment endpoint, swept by beat |
| Enrollment endpoint (`enroll_app.py`) | one transaction, the lock `wgm:ipam:<server_id>` | `enroll`, `_admit` | tokens, address allocation, SSH CA, `request_reconfigure` |
| Address allocation (`ipam.py`) | none of its own: reads `client.address` | `allocate_client_ip`, pool checks | both registration paths and enrollment |
| Host certificates (`ssh_ca.py`, `host_ssh.py`, `tasks.py`) | `host_cert_*` columns, the certificate on the host | install, rotate, sweep of those about to lapse | SSH sessions trust what it installs |
| SSH sessions (`ssh.py`, `bootstrap_ssh.py`) | a connection | connect and verify, run | every task |
| Peer discovery (`tasks.py`) | `discovered_peer` rows | `discover_peers_task`: load, dump, upsert, prune | reads the hub's running peers; racing passes |
| mTLS certificates (`pki.py`, `routers/certs.py`, `cli.py`) | `certificate` rows, the CA's CRL, PEM files of the listeners | issue, renew, revoke, the renewal timer | authentication reads the revoked flag |
| Authentication, roles (`auth.py`) | `operator` rows, what a request knows of its operator | lookup, bootstrap, admit | every request |
| Tenants (`tenant_scope.py`, `routers/tenants.py`, `ipam.py`) | memberships, tenant pools | create, PATCH, attach, detach, scope checks | registration of servers |
| Rate limiting (`ratelimit.py`, `enroll_app.py`) | two buckets per source address | hit, peek | the enrollment endpoint |
| PROXY protocol (`proxy_protocol.py`) | a buffer per connection | parse, hand over to TLS | names the source address of the rate limiter |
| Backup and restore (`cli.py`) | the tables, a file | `db backup`, `db restore` | every other writer of the tables |
| Audit (`audit.py`) | append-only rows | `persist`, in the caller's transaction | revocation |
| Evidence, crypto, configuration, metrics, dashboard | reports, wiring | | not modelled, see `PROJECT.json` |

What is hard to get right, and hard to test, in these parts:

* a change is *committed first and announced second*, so there is a gap in which a
  process may die or the broker refuse;
* the broker delivers *at least once*, workers die between any two SSH commands, and
  a task may run again after newer ones have finished;
* coalescing drops work on the strength of a counter, so the counter must never be
  ahead of the hub;
* locks are advisory, owned by a connection that can be lost, taken by some paths and
  not by others, and waited for inside transactions whose snapshot is already fixed;
* a token's uses, expiry and revocation are checked before the wait and enforced after it;
* the session that renews a host certificate is itself only trusted because of the
  certificate it replaces, so a late or badly interrupted renewal locks the control plane out;
* a leaf certificate lives in three places (CA, registry, files), each written by three parties
  that take no lock, and any of the writes may be the last;
* what a request may do is decided from a copy of the operator's row and tenants that is taken
  once, and pools are checked and written in separate statements;
* the failure bucket of the rate limiter is looked at before the work and counted after it;
* discovery prunes by what it saw some seconds ago, dumps select table after table while others
  write, and a restore deletes everything before it inserts.

`PROJECT.json` lists each of these hazards at its line, with the properties that
would catch it going wrong.

## Modules

| Module | Contents |
|---|---|
| `HubReconfig` | one hub, its client rows, the callers of `request_reconfigure`, the messages and the workers |
| `HubSync` | the abstract specification: a ledger of what is owed to the hub |
| `HubRefinement` | the mapping under which `HubReconfig` implements `HubSync` |
| `MCHubReconfig` | their small instances |
| `HubReconfigProofs`, `HubRefinementProofs` | their theorems |
| `Enrollment` | the tokens of one hub, concurrent redemptions, operators' registrations, the address table |
| `MCEnrollment` | its small instances |
| `EnrollmentProofs` | its theorems |
| `HostCert` | the SSH host certificate of one host, its columns in the row, the sweep that renews it |
| `MCHostCert` | its small instances |
| `HostCertProofs` | its theorems |
| `Certs`, `MCCerts`, `CertsProofs` | mTLS leaves: the CA, the registry with its audit rows, the files; API, shell and timer |
| `Access`, `MCAccess`, `AccessProofs` | operators, memberships, pools and servers; requests and commands |
| `ProxyProtocol`, `MCProxyProtocol` | the header parser and the connections in front of TLS |
| `RateLimit` | the two buckets and the middleware |
| `EnrollEdge`, `MCEnrollEdge` | their composition: who is charged for which request |
| `EdgeProofs` | theorems about the three |
| `Inventory` | SSH roles, hubs, clients and discovered peers as tables; discovery passes |
| `Backup`, `MCBackup` | dump and restore on top of `Inventory` |
| `BackupProofs` | theorems about both |

`HubReconfig` and `Enrollment` model **one** hub, `HostCert` one host.  Every lock name, generation counter, client list and
address pool is keyed by `server_id`, and no step of one hub reads or writes another's.
They model the MySQL deployment; on SQLite (tests) `task_row_lock` always yields `True`.

### HubReconfig

*Database.* `status` is `client.status`, with `none` before the INSERT and `deleted`
after the DELETE (ids are not reused); `serverStatus`, `requested_gen` and `applied_gen`
are the hub's row.  *Hub.* `conf` is the set of peers in `wg0.conf`, `live` the peers on
the interface, `up` whether it is up.  *Messages.* A member of `Task` is a message, or
free to be one; `pc` says how far the worker that holds it has come.  A message is
acknowledged only when its task ends (`task_acks_late`), so a crash puts it back.
*Callers.* A member of `Caller` is an API request or a worker between the commit of a
client change and the end of `request_reconfigure`.

The steps of a task are the points at which another process can see a difference:
lock, read of the server row, read of the client list, teardown, file, restart,
commit and release, acknowledgement.  Reads follow InnoDB: under `RepeatableRead` the
list comes from the snapshot that the first read took, otherwise from the latest commit.
The ORM's rule that an attribute set to the value it was loaded with is not written
(`SetServerStatus`, `ProvisionClientDone`) is kept: it decides who wins when an operator's
reprovision overlaps the end of a task.

Mishaps are counted by `used` and bounded by `Limit`, one number per kind: a worker
`crash`, a `fault` (SSH, CA, database or broker refuses), a `torn` write, a duplicate
delivery (`redeliver`), loss of the lock's connection (`lockloss`), and the operator's
`reprovision`.

`since[c]` is a ghost: the first generation whose bump is bound to come after the latest
commit of client `c`, which is what "announced by generation g" means.  `reported` and
`failedCalls` are ghosts too: what somebody was told about, through a FAILURE result or
an error response.

The provisioning of a *client* is three actions (`RegisterClient`, `ProvisionClientDone`,
`ProvisionClientFailed`) that may happen at any time after the row is there; its own lock
and SSH steps change nothing the hub depends on.

### Enrollment

`address` is the client table: the address of each name, `NoAddress` for no row; the names
are the members of `Host`, and addresses are the positions of the assignable addresses of
the subnet.  A redemption (`Redeemer`) walks through `enroll`: the checks (`Check`, which
also fixes the snapshot `view`: the engine sets no isolation level, so InnoDB's REPEATABLE READ holds), the lock (`LockIpam`, or `Busy` for 503), the guarded
UPDATE (`Consume`, `Exhausted`), `_admit` (`Admit`, `AdmitFails`), the commit (`Commit`,
`CommitFails`) and the answer (`Reply`, `ReplyFails`).  Every failure before the commit is
`Rollback`.  `rowlock` is the row lock the UPDATE holds on the token until the transaction
ends: revocation, the sweep and other redemptions of that token wait for it.  Operators (`OperatorAllocates`, `OperatorCommits`) read and insert without
the ipam lock, as `routers/clients.py` does.  Time (`now`) only matters for expiry and retention.

The two modules meet in one place: `Enrollment!Reply` is where `HubReconfig!EnrollClient`
goes on to announce the committed row.

### HostCert

`disk` is the certificate in `/etc/ssh`, `served` the one sshd has loaded, and `rec` the row's
`host_cert_*` columns; a certificate is its principals and its `valid_before`.  The row is a
hub's or an SSH-managed client's: both kinds have the same columns, their own advisory lock and
the same rotation task.  The steps of a task are lock and read of the row (`Start`), the SSH
session that verifies the host (`Connect`, `Refused`), the signature (`Sign`), the file
(`WriteCert`), the reload (`ReloadSshd`) and the commit (`Record`); a registration with a
bootstrap key goes through them twice, first over a session that trusts any host.  A task that
meets the lock is skipped and acknowledged (`Skip`).  `TaskFails` and `Crash` may cut a task
short inside a step (`CutShort`), before or after it took effect.  `bootstrap-host` takes no
lock and leaves the row alone, with the default TTL.  Whether sshd has read a new file before it
is told to is left open: a session may meet `disk` or `served`.

Time is discrete and advances only when the sweep has run (beat is on time) and no message is
older than `MaxAge`, the time within which a message is done.  `missed` is a ghost that counts the
rotations which came to nothing (dispatch failed, skipped, refused, failed) since sshd last
loaded a certificate.

### HubSync and HubRefinement

`HubSync` knows no generations, messages, locks or retries.  Each client has an entry: a
committed change is *owed* until it is *done* on the hub or somebody was *told* that it is not,
and no peer list of the hub may disagree with an entry that is done.  `HubRefinement` derives
`want` from `client.status`, the entry from `since`, `applied_gen`, `reported` and
`failedCalls`, and the peer lists from `wg0.conf` and the interface.  A change for which nobody
answers maps to *lost*, which is no entry at all, so the refinement covers both safety
properties of `HubReconfig` at once and adds that a done entry never becomes undone.

### Certs

A leaf is its window; a serial is its place in `leaves`.  `rows` is the table `certificate`
(`trail` counts the `certificate.revoke` audit rows of a row), `crl` what the CA has revoked,
`disk` which leaf and which key lie at each path.  A job is a request, a shell command or the
timer: `mint`, then (not for the API) `leaf`, `key`, then `row`; or `revoke`, then `flip`.
`Crash` may end it between any two of these, `MintRefused` and `RevokeRefused` are the CA's
refusals.  The timer's walk (`StartWalk`, `NextDue`, `EndWalk`) works on the rows it selected at
its start.  A command ends within the unit of time it began in.  `Overlaps` counts the
cases in which two writers meet at one path, which the code does not prevent.

### Access

A request is resolved (`ResolveOperator`, `MaybeBootstrap`), refused or admitted with a stash of
its tenants (`Refuse`, `Admitted`), and then checks and commits in two steps (`CheckServer` and
`InsertServer`, `CheckTenant` or `CheckPatch` and `CommitPool`), between which others run.
Commands run on the same tables without the middleware.  A registry that cannot be read
counts as "not revoked" and memberships that cannot be read as none, as in `auth.py`.  A
CIDR is the set of blocks it covers.  `Disable` is external: nothing in the repository disables an operator.

### ProxyProtocol, RateLimit, EnrollEdge

`ProxyProtocol` reads the bytes of a connection in any segmentation; a byte is a symbol and a
header the few kinds `parse_header` tells apart.  `RateLimit` has one step per call of the
limiter's backend: peek at the failures, hit the requests, serve, hit the failures; a call may
fail before or after it was executed (fail closed before the work, logged after it).
`EnrollEdge` puts them together: the address the header names is the key of both buckets.

### Inventory and Backup

`db` is the four tables with their unique and foreign keys.  A request is one transaction
(`Commit`); a discovery pass is `LoadHub` (which fixes the snapshot), `ShowDump` or `SSHFailed`,
and `SavePeers`, or `SaveFails` when a row it wants to refresh is gone or one it wants to insert is
there.  `Backup` adds the dump, which selects one table after the other on one connection, and
the restore: count, delete children first, insert parents first, commit.  `locked` holds the
tables an open restore has written, and requests that need their rows wait.

## What is checked

Deadlock checking is off everywhere: the system is idle when nobody calls it, and the
bounded instances stop when their bounds are used up.

| Run | Instance | Result |
|---|---|---|
| `hub_faults` | 1 SSH client through its whole lifecycle, 1 caller, 2 messages, 2 generations, no retries, 1 fault, 1 reprovision, 1 redelivery, READ COMMITTED | `AppliedIsOnHub`, `NoSilentLoss`, `NoMessageIsStuck`, `KeepsLedger`, `TypeOK` hold |
| `hub_liveness` | 1 manual client, 2 callers, 2 messages, 2 generations, 1 retry, 1 crash, 1 torn write, the lock lost once, REPEATABLE READ, fair | `AppliedMovesForward`, `EveryRequestSettles`, `TrafficClears` hold |
| `enroll` | 1 token of two uses, 2 redemptions, 2 operators, 2 hosts, 1 address, clock to 2, fair | `TokenNotOverused`, `NoAdmissionAfterRevoke`, `OnlyOverlapCollides`, `NoRedemptionIsStuck`, `LockIsReleased`, `TypeOK` hold |
| `enroll_snapshot` | 1 token of two uses, 2 redemptions, 2 hosts, 2 addresses | `AddressUnique` is **violated** |
| `hostcert_renewal` | 1 name, 2 messages, 1 crash, 2 faults, 1 bootstrap-host, window of 5 intervals, clock to 7 | `NeverLapses`, `RecordNotAhead`, `TypeOK` hold |
| `hostcert_rename` | 3 names, 2 renames, 2 requests, 2 messages, clock to 4 | `RenamedIsReachable` holds |
| `certs` | 1 path, 2 requests, 1 shell and the timer, 5 leaves, clock to 4 with a lifetime of 4, 2 revocations, 1 of every other event | `RegistryFollowsCA`, `RevokedStaysRefused`, `AuditTrailIsFinal`, `DiskNeverLapses`, `BrokenFilesAreDue`, `NoRenewalChurn`, `TypeOK` hold |
| `certs_audit` | 2 requests and the timer | `OneAuditRowPerRevoke` is **violated** |
| `access` | 2 operators, 2 tenants, 2 servers, 2 requests and 1 shell at once, 4 pools, 4 requests in all, 2 membership changes, 1 of every other event | `BootstrapIsKnown`, `PoolsDisjoint`, `AddressesDisjoint`, `ScopedWrites` hold |
| `proxy` | 15 kinds of header before 3 kinds of TLS bytes, cut anywhere | `HeaderReadOnce`, `ConnTypeOK` hold |
| `edge` | 2 callers, 2 connections, 5 requests, limits 2 and 1, windows of 2, clock to 2 | `TwiceTheLimit`, `LockoutIsSharp`, `OneLinePerTrip`, `WindowIsFixed`, `BlamedForOwn` hold |
| `inventory` | 2 SSH roles, 1 hub, 1 client, 2 keys, 2 passes, 2 changes, 1 dump, 1 restore, 1 fault, REPEATABLE READ | `PassesConverge`, `PruneOnlyTheGone`, `DumpCanBeRestored`, `AllOrNothing` hold |

The hub invariants are not run again with racing callers, retries and crashes: the theorems
below establish them for every number of those; nor are the type invariants of `Access`,
`RateLimit` and `Backup`, which are proved.

*The guarantees.* `AppliedIsOnHub` is what makes coalescing safe: the hub's file agrees
with every addition and deletion that a generation up to `reconfig_applied_gen`
announced, and so does the interface whenever it is up.  `NoSilentLoss` is its counterpart:
every addition and deletion is applied, or somebody was told that it is not, or a caller
or a message that covers it is still on its way.  `AppliedMovesForward` is what the
forward-only UPDATE keeps even when mutual exclusion is gone.  `NeverLapses` says how much
trouble the renew window absorbs: a ready host keeps a valid certificate while
`(missed + 1) * Interval + 2 * MaxAge < RenewBefore`.  The bound is exact on this instance: with
`<=`, or with one `MaxAge`, TLC finds a lapse (the second `MaxAge` is a bootstrap-host whose
certificate was signed before, and installed after, a rotation's).  It also needs
`RenewBefore + MaxAge <= Ttl`, which the proof brought to light: otherwise a certificate can be due
already when the task that signed it ends, and the rotations missed meanwhile are no longer
counted; with `Ttl = 9`, `RenewBefore = 8`, `Interval = 1`, `MaxAge = 3` TLC finds a lapse.  The
validated settings only ask that `Interval < RenewBefore < Ttl`, which leaves room for no missed rotation at
all; the defaults (24 h, 12 h, 1 h) satisfy both conditions for messages that live up to 5 h.
`RecordNotAhead` is why the sweep may go by the columns.

`RegistryFollowsCA` and `RevokedStaysRefused` are the two halves of "backend first": a flagged
row is revoked at the CA, and a revocation reported as done is one the middleware enforces, also
when a first attempt died in between.  `AuditTrailIsFinal` is what holds of "one row per event":
the rows a revocation gets are those of the requests that overlapped it, and no later retry adds
one.  `OnlyOverlapCollides` is the same kind of bound for addresses: a request never takes the
address of a client that was in the table when it looked, so only requests that overlap can
collide.  `DiskNeverLapses` says how much trouble the timer's
threshold absorbs: `2 * Interval * (failed walks + 1) <= Ttl`.  `BrokenFilesAreDue` is why the
row is recorded last: files that do not match belong to a row that is due, so the next walk
repairs them.  `ScopedWrites` bounds how stale an authorisation may be: it is the one the caller
had when admitted.  `LockoutIsSharp` bounds how late the lockout may be: by the requests that fit
in flight, less one.  `PassesConverge` holds although racing passes fail with an integrity
error: the failed one changes nothing.

*Bounds.* Two messages are the smallest instance in which a task runs while a second change
is committed and announced, one message overtakes another, and the lock is contended; a second
caller (`hub_liveness`) adds changes announced out of the order of their commits; two generations let one run cover both or only the first.
In `hub_liveness` `MaxRetries` is 1, so both a retry and the failure after the last one happen.  Two
redemptions of a token with two uses let one use be taken while both are under way for the other, one
wait while the other consumes, and two registrations beside them collide with each other or with a
redemption; one address for two hosts makes every wrong choice a collision, and fills the subnet.  The clock
passes expiry and retention.  Two messages for
one host let a rotation meet a held lock or follow a crashed one; the clock runs past the
expiry of the first certificate (`Ttl` 6), so that a renewal, its failure and the lapse can
all happen; three names tell a name that was never used from one that was given up.
In `certs` the clock reaches the end of the first leaf's lifetime and five leaves allow an issue,
a renewal by hand, one by the API and two by the timer; one path is enough because nothing relates two of them.
In `access` two requests and a shell let a check, a change and a commit interleave; the pools are one
inside another, one around it and one apart.  `edge` lets a window end between the two calls of a
request, and has one request more than twice the limit; its callers are always named, the other headers are the business of `proxy`.  In
`inventory` two changes are a role created and a hub moved onto it, which is what splits a parent from a
child in a dump, and two passes are what races.

*Fairness.* `HubReconfig!Fairness` asks weak fairness of each caller and of each message:
a handler that has committed goes on, and there is a worker that takes messages and a lock
that is tried again while the message has retries left.  Nothing is asked of operators, of
mishaps or of the provisioning of clients.  `Enrollment!FairSpec` asks that a request
which has begun runs to its end.  Without these the program is simply stopped.  The other modules state safety only: their
progress is a client's retry or the timer's next walk.

*Where code and documentation disagree.*  Two runs are findings of `PROJECT.json`.  `enroll_snapshot`: two
enrollments can be given one address under MySQL's default isolation, because the token is
read before the lock is waited for (`reconfigure_server_task` opens a fresh session after its
lock).  `certs_audit`: two revocations of one leaf that overlap both write an audit row, because the
flag is read before the CA is called and set after it.  The others below have no run of their own; where an instance shows them,
it is named.

* A provision that meets the held lock returns `skipped` and is acknowledged (`tasks.py:383`).  If the
  holder was a rotation, which leaves the status alone, the row stays `pending` with no task and
  no message behind it, where `tasks.py:378` says "broker re-delivery picks us back up once the holding
  worker finishes" and the host-certificate sweep takes a pending row for one "mid-provision".
* When `request_reconfigure` raises after the commit of an enrollment (`enroll_app.py:237`), the host is
  answered 500, and the client row, its address and the token use stay, where `enroll_app.py:231`
  says "nothing, including the token use, survives a failed enrollment".
* Registrations do not take the ipam lock that enrollments take (`routers/clients.py:82`), so an
  operator and a redemption can be given one address: `enroll_snapshot.cfg` with one redemption and one
  operator violates `AddressUnique` too.
* A rotation that dies between installation and commit while its host is renamed and renamed back
  leaves a host that no session accepts: `hostcert_rename.cfg` with one crash violates
  `RenamedIsReachable`; `tasks.py:112` says such a row "can still be reached".
* `_write_server_config` truncates `wg0.conf` before it writes, and calls itself atomic.
* The API's renewal inserts the newest row of a path and writes no file, where
  `_drop_superseded` (`cli.py:1577`) takes the newest row for the file on disk: the old leaf is no longer
  renewed in time.  `OnlyWritten` leaves such paths out of `DiskNeverLapses`.
* A row that is revoked after the timer has selected it is renewed all the same; the docstring of
  `certs_renew` says a revoked row is never renewed.
* Two writes of pools that race, a tenant created without a pool, and a PATCH that moves a pool
  away from its tenant's servers each lead to tenants that share addresses; `PoolsDisjoint` and
  `AddressesDisjoint` say so in their hypotheses.
* Racing discovery passes converge, but one of the tasks may end in FAILURE with an integrity error,
  which the docstring of `discover_peers_task` does not expect.

## What is proved

`HubReconfigProofs`, for any sets of clients, callers and messages, any bounds, and both
isolation levels:

* `TypeCorrect`: `Spec => []TypeOK`.
* `AppliedForward`: `Spec => AppliedMovesForward`, with every kind of mishap.  The inductive
  invariant `GenInv` adds to the types that no task's target and no caller's generation is
  ahead of `requested_gen`.
* `AppliedOnHub`: if the lock is never lost and no write is torn (`Reliable`), `Spec =>
  []AppliedIsOnHub`.  `AppliedIsOnHub` alone is not inductive: it says nothing of a task
  halfway through.  `HubInv` adds mutual exclusion, and that at each point a task has reached,
  what it holds (its list, then the file, then the interface) agrees with every change up to
  its target, or, before it wrote anything, that the file still agrees with `applied_gen`.
  Both hypotheses are needed: with either mishap allowed TLC finds a state in which the
  applied generation is ahead of the hub.
* `LossIsReported`: `Spec => []NoSilentLoss`, with every kind of mishap.  `CoverInv` adds that
  a generation argument covers the bump it came from.
* `RequestsSettle`: `Spec /\ []Live => EveryRequestSettles`.  `Live` is the fairness of the
  specification and two properties the hub's runs check: no message is stuck, and traffic clears (a
  caller that has bumped returns, no message goes around forever).  A requested generation is settled, carried by
  a message or held by a caller (`Answered`, an invariant).  A message keeps what it carries until
  that is settled (`CarriesOn`), and while it does not go back it passes its points in their order,
  each left by its own next step (`MessageMoves`, `MessageLeaves`), up to the commit that marks a
  target no earlier than its generation, or to a report.

`HubRefinementProofs`, on top of it:

* `LedgerIsKept`: for reliable locks and writes, `Spec => KeepsLedger`, that is, `HubReconfig`
  implements `HubSync` under the mapping of `HubRefinement`.  `LedgerInv` is `HubInv`, `CoverInv`,
  `NoSilentLoss` and that nobody is told of a loss that was not requested yet.  With them no entry
  of the ledger is ever "lost", every copy of the peer list shows what is done, and each step is
  one of `HubSync`'s or a stutter.

`EnrollmentProofs`, for any sets of tokens and operators, any finite set of hosts, any
number of redemptions:

* `EnrollmentTypeCorrect`: `Spec => []TypeOK`.
* `TokenLimit`: `Spec => []TokenNotOverused`.  `TokenInv` adds that a request which has taken a
  use holds the row lock of a token that is there, not revoked and not used up, so the
  increment it commits cannot pass `max_uses`; a cardinality argument then bounds the
  hosts admitted by the increments.
* `RevocationWins`: `Spec => NoAdmissionAfterRevoke`, from the same invariant.
* `CollisionNeedsOverlap`: `Spec => OnlyOverlapCollides`.  `AddressInv` says that the address a request is about to
  insert is one that no client had when it read the table, for redemptions, which read once and wait, and
  for registrations alike.  It has no hypothesis on isolation or on who registers: the specification has the
  code's.  That addresses are unique is not a theorem: `enroll_snapshot` refutes it.
* `NoWaitInsideTheLock`: a redemption that holds the ipam lock and is about to use its token never
  finds the token's row held by another (`LockInv`: whoever holds the row of a token holds the ipam lock
  too), so the two locks cannot wait for each other.
* `LockComesBack`: `FairSpec /\ []NoRedemptionIsStuck => LockIsReleased`.  From each of the three points
  at which a redemption can hold the lock it only goes to the next one or gives the lock back.

`HostCertProofs`, for any names, messages, windows and bounds:

* `HostCertTypeCorrect`: `Spec => []TypeOK`.
* `RecordIsNotAhead`: `Spec => []RecordNotAhead`, which speaks of the time until bootstrap-host
  is first run.  `RecordInv` adds that the lock excludes, that no certificate reaches further than one signed
  now would, and that at each point of an installation the host has either the certificate
  before or the one the task is about to record.

* `CertificatesNeverLapse`: `Spec => []NeverLapses`.  `AgeInv` says how old things can be: a task's
  certificate is at most as old as its message, what replaces it on the host at most `MaxAge` older
  (bootstrap-host), and the columns promise at most `MaxAge` more than the host has.  `PaceInv` counts:
  since a certificate that ends at `b` became visible to the sweep (`DueFrom(b)`), every sweep has sent a
  rotation that still waits or is one of the `missed`; and the same of the sweeps before each
  message.  An installation starts the count anew; a skipped, refused or failed rotation leaves the waiting ones and
  enters `missed`; a sweep adds a message or a miss and an interval.  The oldest message
  that waits is at most `MaxAge` old, which gives the bound.
* `RenamedRowsAreReached`: `Spec => [](Undisturbed => RenamedIsReachable)`, where `Undisturbed` says that
  no task was cut short and bootstrap-host was not run so far; each of the two can break
  it (see above).  `Orderly` adds that the row, the file and sshd agree except where the holder of the lock is between two of
  them, and that a registration finds a host nobody else can talk to.

`CertsProofs`, for any paths, requests, commands, lifetimes and intervals.
`Base` holds the types and what each job holds at each point; the rest is inductive relative to it:

* `CertsTypeCorrect`, with `Distinct`: no two rows or jobs share a serial.
* `RegistryIsBackendFirst` and `RevocationIsEnforced`, from `Revocation`: a job about to flip a
  flag has revoked the serial, and an answered revocation has its flag.
* `RevocationTrailIsFinal`: `Spec => AuditTrailIsFinal`.  A row that is flagged while no request is on its way to
  flag it stays like that: a retry ends at the flag, and a command that flags it again writes no audit row.
* `WalkDoesNotChurn`, from `Ordered` (later rows hold later leaves) and `Chosen` (what the walk has selected is
  due, and it comes to each path once).
* `BrokenFilesAreRepaired`, from `Files`: one writer at a path, whose leaf the files are, while the rows it replaces stay due.
* `HeadroomSuffices`: `Spec => []DiskNeverLapses`, from `Fresh` and `Timely`: at each walk the leaf at a path is
  younger than half its lifetime, give or take the walks that failed and the one under way.

`AccessProofs`, for any operators, tenants, servers, pools and concurrent requests:
`AccessTypeCorrect`; `BootstrapNeverRefused`; `WritesAreScoped` (`Scoped`: what a request goes by are the
memberships of its caller at admission, or none); `PoolsStayApart` (`PoolInv`: unless something raced, what a pending write was
checked against still stands); `AddressesStayApart` (`Placed`: servers, and those about to be inserted, lie in their tenant's pool).

`EdgeProofs`, for any byte streams, limits, windows and clients and any finite set of connections:
`ConnTypeCorrect` and `CutsMakeNoDifference` (what the parser says of a prefix it also says of the whole,
unless it asks for more); `LimitTypeCorrect`, `WindowsAreFixed`, `OneLine`; `LockoutIsTimely` (a step that adds a failure
takes a request out of flight, and a request that passes the check saw room); `BucketsAreOwn` (a
request bears the name of its connection's client, and what is in a bucket or about to be was asked or did fail);
`AtMostTwiceTheLimit` (`LatestInv`: the latest window has let through what it counted at most, the same time before it no more
than the limit, and nothing since it ended; any stretch meets at most two windows).  `ProxyAssumption` says what
the balancer does: a header it sends names the client it speaks for, or nobody.

`BackupProofs`, for any roles, hubs, clients, keys and workers:

* `BackupTypeCorrect`.
* `BackupsCanBeRestored`: `RepeatableRead => (BackupSpec => []DumpCanBeRestored)`.  `BackupInv` says that the tables read so far
  are those of one moment, that a file obeys the keys by itself, and that what the restoring
  transaction sees beside the others' commits obeys them after every statement.  The lemma
  `RequestsKeepSeen` carries it: a commit that leaves alone what the restore has locked, and
  what refers to it, cannot break the view.  The hypothesis is needed: under READ COMMITTED a child can be
  dumped without its parent.
* `RestoreIsAtomic`: `BackupSpec => AllOrNothing`, from the same invariant.
* `PeersThatStayAreKept`: `BackupSpec => PruneOnlyTheGone`.  `OffInv`: a key that an answer lacks was off the hub since the load.
* `RacingPassesConverge`: `BackupSpec => []PassesConverge`, for both isolation levels.  `SettledInv` says what each pass on a hub
  that has stopped changing knows of it, and that once one has succeeded the others can only confirm its rows or fail.

The constants' assumptions are named in the modules that declare them and TLC evaluates them in
every run; beside typing, they say that messages, requests, connections and hosts are
finitely many, that a dump from before the peers' table is consistent, and what the balancer does.

Every safety property a run checks and that holds is proved, except the two that say ENABLED.
Liveness is divided between the tools.  The provers have rules for fairness but none for ENABLED and no
induction over the number of retries and crashes, so `LockComesBack` and `RequestsSettle`
take as premises what needs those, and TLC checks the premises: `NoRedemptionIsStuck` and
`NoMessageIsStuck` (ENABLED) and `TrafficClears` (the induction; and that a caller gets a place in
the bounded set of messages).  TLC also checks the two conclusions, `LockIsReleased`
and `EveryRequestSettles`, without them.

## What is not modelled

The list with reasons is in `PROJECT.json` under `components`.  In short: cryptography and
the wire formats of SSH, TLS and WireGuard; formatting of configuration files, reports and
logs; the dashboard and the commands that are thin clients of the API; metrics and tracing;
validation of request bodies.  Within the modelled parts: package installation, key generation
and IP forwarding on the hub, token hashing, the networks a token is bound to, a bootstrap-host
with a TTL of its own, a certificate file (on a host, or of a listener) that is cut short, the minute by which the CA
sets `not_before` back, an overlap of two revocations of one token (the later time stays), the failure of both lookups
of one admission, a bootstrap role that is no role, the audit rows of events
other than `certificate.revoke`, requests without a certificate, and the rewrap of secrets.

## Plan

The modules are written, and what the runs check is proved as far as the provers reach.  What
could be added:

1. what remains without the hypotheses: what the ledger keeps when the advisory lock is lost or
   `wg0.conf` is torn, and what pools keep when two writes of them race;
2. liveness of the other components, which state safety only: their progress is a client's
   retry or the timer's next walk, neither of which the code guarantees;
3. shorter proofs: the lemmas on kinds of steps in `CertsProofs` and `BackupProofs` have the same
   shape.
