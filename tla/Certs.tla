------------------------------- MODULE Certs --------------------------------
(***************************************************************************)
(* The mTLS leaves: the certificate authority (Vault PKI), the registry    *)
(* table certificate, and the PEM files the listeners load.                *)
(*                                                                         *)
(* Three parties write them and none takes a lock: the API (issue, renew   *)
(* and revoke; it never touches a file), an operator at the command line   *)
(* (wg-manager certs issue, renew --id, revoke) and the systemd timer that *)
(* runs wg-manager certs renew --due.  A renewal is a call to the CA, then *)
(* the files, then the row; a revocation is a call to the CA, then the     *)
(* row.  Each of those steps may be the last one.                          *)
(*                                                                         *)
(* Time is discrete: the timer is on time, and a request or a command ends *)
(* within the unit of time it began in.                                    *)
(***************************************************************************)
EXTENDS Integers, Sequences, FiniteSets

CONSTANTS
    Path,       \* out_cert_path values; the key and the chain lie beside it
    NoPath,     \* the three path columns are NULL
    Api,        \* concurrent requests to /certs
    Cli,        \* an operator's shells
    Timer,      \* wg-manager-cert-renew.service
    Ttl,        \* lifetime of a leaf that is issued
    Interval,   \* OnCalendar of the timer
    MaxTime,    \* bound on the clock
    MaxLeaf,    \* bound on the leaves the CA signs
    Limit       \* bound on each kind of rare event, see Rare

Job  == Api \cup Cli \cup {Timer}
Rare == {"crash", "abort", "refused", "overlap", "issue", "renew", "revoke"}

ASSUME CertsAssumption ==
    /\ NoPath \notin Path /\ Timer \notin Api \cup Cli /\ Api \cap Cli = {}
    /\ Ttl \in Nat \ {0} /\ Interval \in Nat \ {0}
    /\ MaxTime \in Nat /\ MaxLeaf \in Nat
    /\ Limit \in [Rare -> Nat]

VARIABLES
    now,       \* wall clock
    lastWalk,  \* when the timer last fired
    leaves,    \* the leaves the CA has signed; a serial is an index
    crl,       \* serials the CA has revoked
    rows,      \* table certificate in the order of its ids
    disk,      \* the serials of the leaf and of the key at each path
    job,       \* what each request or command is doing
    told,      \* ghost: rows whose revocation was reported as done
    used       \* rare events so far

vars == <<now, lastWalk, leaves, crl, rows, disk, job, told, used>>

Serial == 1 .. MaxLeaf
NoLeaf == 0
NoRow  == 0

\* A certificate: its validity window.
Leaf == [not_before : 0 .. MaxTime, not_after : Nat]

\* The certificate.revoke rows of table auditevent for one certificate: their number.
Trail == Nat

\* A row; by (ghost) is who inserted it.
Row == [serial : Serial, path : Path \cup {NoPath}, revoked : BOOLEAN, trail : Trail, by : Job]

\* free; walk: between two rows of --due; mint: about to call the CA; leaf, key:
\* about to write that file; row: about to insert; revoke: about to call the
\* CA; flip: about to commit the revoked flag.
Progress == {"free", "walk", "mint", "leaf", "key", "row", "revoke", "flip"}

Free == [pc |-> "free", source |-> NoRow, path |-> NoPath, serial |-> NoLeaf, todo |-> {}]

TypeOK ==
    /\ now \in 0 .. MaxTime /\ lastWalk \in 0 .. now
    /\ leaves \in Seq(Leaf) /\ Len(leaves) <= MaxLeaf
    /\ crl \subseteq 1 .. Len(leaves)
    /\ rows \in Seq(Row) /\ Len(rows) <= Len(leaves)
    /\ disk \in [Path -> [leaf : Serial \cup {NoLeaf}, key : Serial \cup {NoLeaf}]]
    /\ job \in [Job -> [pc : Progress, source : Nat, path : Path \cup {NoPath},
                        serial : Serial \cup {NoLeaf}, todo : SUBSET (1 .. Len(rows))]]
    /\ told \subseteq 1 .. Len(rows)
    /\ used \in [Rare -> Nat]

Init ==
    /\ now = 0 /\ lastWalk = 0
    /\ leaves = <<>> /\ crl = {} /\ rows = <<>>
    /\ disk = [p \in Path |-> [leaf |-> NoLeaf, key |-> NoLeaf]]
    /\ job = [j \in Job |-> Free]
    /\ told = {}
    /\ used = [m \in Rare |-> 0]

Spend(m) == /\ used[m] < Limit[m]
            /\ used' = [used EXCEPT ![m] = @ + 1]

Goto(j, step) == job' = [job EXCEPT ![j].pc = step]

\* The end of one leaf: the walker looks for the next, the others are done.
Resume(j) == IF j = Timer THEN [Free EXCEPT !.pc = "walk", !.todo = job[j].todo] ELSE Free

\* Mutant: the row is recorded before the files are written.
RowFirst(j) ==
    LET next == [mint |-> "row", row |-> IF j \in Api THEN "end" ELSE "leaf",
                 leaf |-> "key", key |-> "end"][job[j].pc]
    IN  IF next = "end" THEN Resume(j) ELSE [job[j] EXCEPT !.pc = next]

\* The API returns the new leaf in its response.  The others write it to disk,
\* and record the row only after that.
Advance(j) ==
    LET next == [mint |-> IF j \in Api THEN "row" ELSE "leaf",
                 leaf |-> "key", key |-> "row", row |-> "end"][job[j].pc]
    IN  IF next = "end" THEN Resume(j) ELSE [job[j] EXCEPT !.pc = next]

(***************************************************************************)
(* Issue and renew                                                         *)
(***************************************************************************)

\* The request or command may call the CA for a leaf at that path, with the
\* identity of the row it renews.
Begin(j, source, p) ==
    /\ job[j].pc = "free"
    /\ job' = [job EXCEPT ![j] = [Free EXCEPT !.pc = "mint", !.source = source, !.path = p]]
    /\ UNCHANGED <<now, lastWalk, leaves, crl, rows, disk, told>>

IssueByAPI(j) == Begin(j, NoRow, NoPath) /\ Spend("issue")

IssueByCLI(j, p) == Begin(j, NoRow, p) /\ Spend("issue")

\* 422 for a revoked row.  The new row will copy the paths of the old one.
RenewByAPI(j, i) ==
    /\ ~rows[i].revoked
    /\ Begin(j, i, rows[i].path)
    /\ Spend("renew")

\* renew --id: --out-* or else the stored paths.
RenewByCLI(j, i, p) ==
    /\ ~rows[i].revoked
    /\ Begin(j, i, p)
    /\ Spend("renew")

\* Mutant: superseded rows stay in the walk.
KeepSuperseded(R) == R

\* The rows of R that no newer row of R has replaced at their path.
DropSuperseded(R) ==
    {i \in R : \/ rows[i].path = NoPath
               \/ \A k \in R : rows[k].path = rows[i].path => k <= i}

\* Mutant: the threshold is the whole of the lifetime.
DueWhenLapsed(i) == now >= leaves[rows[i].serial].not_after

\* --threshold-pct 50: half of the window has passed.
RowIsDue(i) ==
    LET leaf == leaves[rows[i].serial]
    IN  2 * (now - leaf.not_before) >= leaf.not_after - leaf.not_before

TimerFires == now - lastWalk >= Interval

\* The walk works off the rows it selected at its start; rows without paths
\* are skipped.
StartWalk ==
    /\ job[Timer].pc = "free"
    /\ TimerFires
    /\ lastWalk' = now
    /\ LET live == {i \in DOMAIN rows : ~rows[i].revoked}
       IN  job' = [job EXCEPT ![Timer].pc = "walk",
               ![Timer].todo = {i \in DropSuperseded(live) : rows[i].path # NoPath /\ RowIsDue(i)}]
    /\ UNCHANGED <<now, leaves, crl, rows, disk, told, used>>

NextDue ==
    /\ job[Timer].pc = "walk"
    /\ \E i \in job[Timer].todo :
         job' = [job EXCEPT ![Timer] = [Free EXCEPT !.pc = "mint", !.source = i,
                     !.path = rows[i].path, !.todo = job[Timer].todo \ {i}]]
    /\ UNCHANGED <<now, lastWalk, leaves, crl, rows, disk, told, used>>

EndWalk ==
    /\ job[Timer].pc = "walk" /\ job[Timer].todo = {}
    /\ job' = [job EXCEPT ![Timer] = Free]
    /\ UNCHANGED <<now, lastWalk, leaves, crl, rows, disk, told, used>>

\* A renewal asks for a window as long as its source's.
TtlOf(j) ==
    IF job[j].source = NoRow THEN Ttl
    ELSE LET leaf == leaves[rows[job[j].source].serial]
         IN  leaf.not_after - leaf.not_before

\* The window starts at the signature; the minute by which not_before is set back
\* is far below the unit of time.
Mint(j) ==
    /\ job[j].pc = "mint"
    /\ Len(leaves) < MaxLeaf
    /\ leaves' = Append(leaves, [not_before |-> now, not_after |-> now + TtlOf(j)])
    /\ job' = [job EXCEPT ![j] = [Advance(j) EXCEPT !.serial = Len(leaves) + 1]]
    /\ UNCHANGED <<now, lastWalk, crl, rows, disk, told, used>>

\* The CA refuses or cannot be reached: PKIError.  The walker skips the row.
MintRefused(j) ==
    /\ job[j].pc = "mint"
    /\ Spend("refused")
    /\ job' = [job EXCEPT ![j] = Resume(j)]
    /\ UNCHANGED <<now, lastWalk, leaves, crl, rows, disk, told>>

\* Two writers at one path: somebody else has written it and not recorded it
\* yet, or the walker renews a row that was replaced since it was selected.
Overlaps(j) ==
    \/ \E k \in (Cli \cup {Timer}) \ {j} :
          job[k].pc \in {"key", "row"} /\ job[k].path = job[j].path
    \/ /\ j = Timer
       /\ \E i \in DOMAIN rows : /\ i > job[j].source
                                 /\ rows[i].path = job[j].path /\ rows[i].serial # job[j].serial

\* Each file is written whole or not at all; a torn one is not modelled.
WriteLeaf(j) ==
    /\ job[j].pc = "leaf"
    /\ disk' = [disk EXCEPT ![job[j].path].leaf = job[j].serial]
    /\ job' = [job EXCEPT ![j] = Advance(j)]
    /\ IF Overlaps(j) THEN Spend("overlap") ELSE UNCHANGED used
    /\ UNCHANGED <<now, lastWalk, leaves, crl, rows, told>>

\* The key, and the chain, which is the same for every leaf.
WriteKey(j) ==
    /\ job[j].pc = "key"
    /\ disk' = [disk EXCEPT ![job[j].path].key = job[j].serial]
    /\ job' = [job EXCEPT ![j] = Advance(j)]
    /\ UNCHANGED <<now, lastWalk, leaves, crl, rows, told, used>>

\* Mutant: the row copies the serial of the one it renews.
RowOfSource(j) ==
    [serial |-> IF job[j].source = NoRow THEN NoLeaf ELSE rows[job[j].source].serial,
     path |-> job[j].path, revoked |-> FALSE, trail |-> 0, by |-> j]

NewRow(j) == [serial |-> job[j].serial, path |-> job[j].path, revoked |-> FALSE, trail |-> 0, by |-> j]

Insert(j) ==
    /\ job[j].pc = "row"
    /\ rows' = Append(rows, NewRow(j))
    /\ job' = [job EXCEPT ![j] = Advance(j)]
    /\ UNCHANGED <<now, lastWalk, leaves, crl, disk, told, used>>

(***************************************************************************)
(* Revoke                                                                  *)
(***************************************************************************)

\* Mutant: the retry asks the CA, not the row, whether there is work to do.
DoneAtCA(i) == rows[i].serial \in crl

\* Mutant: a retry starts all over.
NeverDone(i) == FALSE

\* The API answers 200 for a row that is revoked already.
AlreadyRevoked(i) == rows[i].revoked

StartRevokeByAPI(j, i) ==
    /\ job[j].pc = "free"
    /\ Spend("revoke")
    /\ IF AlreadyRevoked(i)
       THEN told' = told \cup {i} /\ UNCHANGED job
       ELSE /\ job' = [job EXCEPT ![j] = [Free EXCEPT !.pc = "revoke", !.source = i]]
            /\ UNCHANGED told
    /\ UNCHANGED <<now, lastWalk, leaves, crl, rows, disk>>

\* certs revoke --serial goes to the CA whatever the row says.
StartRevokeByCLI(j, i) ==
    /\ job[j].pc = "free"
    /\ Spend("revoke")
    /\ job' = [job EXCEPT ![j] = [Free EXCEPT !.pc = "revoke", !.source = i]]
    /\ UNCHANGED <<now, lastWalk, leaves, crl, rows, disk, told>>

RevokeAtCA(j) ==
    /\ job[j].pc = "revoke"
    /\ crl' = crl \cup {rows[job[j].source].serial}
    /\ job' = [job EXCEPT ![j].pc = "flip"]
    /\ UNCHANGED <<now, lastWalk, leaves, rows, disk, told, used>>

\* Mutant: the CA's refusal is logged and the row flagged all the same.
RefusalSwallowed(j) ==
    /\ job[j].pc = "revoke"
    /\ Spend("refused")
    /\ job' = [job EXCEPT ![j].pc = "flip"]
    /\ UNCHANGED <<now, lastWalk, leaves, crl, rows, disk, told>>

\* PKIError: the row is left as it is.
RevokeRefused(j) ==
    /\ job[j].pc = "revoke"
    /\ Spend("refused")
    /\ job' = [job EXCEPT ![j] = Free]
    /\ UNCHANGED <<now, lastWalk, leaves, crl, rows, disk, told>>

\* audit.persist: the API adds an audit row in the transaction of the flag; the
\* command writes none.
Persist(j, n) == IF j \in Api THEN n + 1 ELSE n

\* The flag is set whatever it says by now: another revocation may be first.
Flip(j) ==
    /\ job[j].pc = "flip"
    /\ rows' = [rows EXCEPT ![job[j].source].revoked = TRUE,
                             ![job[j].source].trail = Persist(j, @)]
    /\ told' = told \cup {job[j].source}
    /\ job' = [job EXCEPT ![j] = Free]
    /\ UNCHANGED <<now, lastWalk, leaves, crl, disk, used>>

(***************************************************************************)
(* Time and failure                                                        *)
(***************************************************************************)

\* The process dies, or an error that is not a PKIError (a full disk, a lost
\* database) ends the command: the steps it has done stay done.
Crash(j) ==
    /\ job[j].pc # "free"
    /\ Spend(IF j = Timer THEN "crash" ELSE "abort")
    /\ job' = [job EXCEPT ![j] = Free]
    /\ UNCHANGED <<now, lastWalk, leaves, crl, rows, disk, told>>

Tick ==
    /\ now < MaxTime
    /\ \A j \in Job : job[j].pc = "free"
    /\ ~TimerFires
    /\ now' = now + 1
    /\ UNCHANGED <<lastWalk, leaves, crl, rows, disk, job, told, used>>

Next ==
    \/ \E j \in Api : IssueByAPI(j)
    \/ \E j \in Cli, p \in Path : IssueByCLI(j, p)
    \/ \E j \in Api, i \in DOMAIN rows : RenewByAPI(j, i) \/ StartRevokeByAPI(j, i)
    \/ \E j \in Cli, i \in DOMAIN rows, p \in Path : RenewByCLI(j, i, p)
    \/ \E j \in Cli, i \in DOMAIN rows : StartRevokeByCLI(j, i)
    \/ StartWalk \/ NextDue \/ EndWalk
    \/ \E j \in Job : \/ Mint(j) \/ MintRefused(j)
                      \/ WriteLeaf(j) \/ WriteKey(j) \/ Insert(j)
                      \/ RevokeAtCA(j) \/ RevokeRefused(j) \/ Flip(j)
                      \/ Crash(j)
    \/ Tick

Spec == Init /\ [][Next]_vars

(***************************************************************************)
(* Properties                                                              *)
(***************************************************************************)

\* A row is flagged only after the CA has revoked its serial, also when the CA
\* refuses, the process dies in between, or two revocations race: "backend
\* first" in revoke_cert.
RegistryFollowsCA ==
    \A i \in DOMAIN rows : rows[i].revoked => rows[i].serial \in crl

\* A revocation that was reported as done is one the API's middleware enforces,
\* which reads the row: also when an earlier attempt died after the CA call.
RevokedStaysRefused == \A i \in told : rows[i].revoked

\* revoke_cert emits "one certificate.revoke audit row on the first revoke only;
\* idempotent retries don't add a second row so the application audit trail stays
\* one-row-per-event".  The flag is read before the CA call and set after it, so
\* two requests that overlap each add one.
OneAuditRowPerRevoke == \A i \in DOMAIN rows : rows[i].trail <= 1

\* The requests on their way to flag row i.
Revokers(i) == {j \in Api : job[j].pc \in {"revoke", "flip"} /\ job[j].source = i}

\* What is left of it: once a row is flagged and the requests that overlapped its
\* revocation are over, its audit trail is final.  No retry sets out again, no
\* renewal or revocation at the command line, and no crash changes it.
AuditTrailIsFinal ==
    [][\A i \in DOMAIN rows :
          /\ rows[i].revoked
          /\ Revokers(i) = {}
          => /\ rows'[i].revoked
             /\ rows'[i].trail = rows[i].trail
             /\ Revokers(i)' = {}]_<<rows, job>>

AtPath(p) == {i \in DOMAIN rows : rows[i].path = p}
LiveAt(p) == {i \in AtPath(p) : ~rows[i].revoked}

\* No row of the path comes from the API, which copies the path and writes no
\* file.
OnlyWritten(p) == \A i \in AtPath(p) : rows[i].by \notin Api

\* A leaf some live row tracks never lapses on disk as long as the walks that
\* failed or died, and the one that did not, fit into half its lifetime: the
\* headroom docs/deploy/systemd-timer.md promises.
DiskNeverLapses ==
    \A p \in Path :
        /\ LiveAt(p) # {} /\ OnlyWritten(p)
        /\ 2 * Interval * (used["crash"] + used["refused"] + 1) <= Ttl
        => disk[p].leaf # NoLeaf /\ now < leaves[disk[p].leaf].not_after

Writing(p) == \E j \in Job : job[j].pc \in {"key", "row"} /\ job[j].path = p

\* A walk that died between the two files of a path left the row that describes
\* them due, so that the next walk writes both again: the row is recorded only
\* after the files.  (A renewal by hand that dies, or two writers at one path,
\* can leave a mismatch behind for half a lifetime.)
BrokenFilesAreDue ==
    \A p \in Path :
        /\ disk[p].leaf # disk[p].key
        /\ ~Writing(p) /\ OnlyWritten(p)
        /\ used["abort"] = 0 /\ used["overlap"] = 0
        => \A i \in DropSuperseded({k \in DOMAIN rows : ~rows[k].revoked}) :
              rows[i].path = p => RowIsDue(i)

\* Two leaves the timer put at one path lie half a lifetime apart, unless the
\* first was revoked: re-running the walk renews nothing twice.
NoRenewalChurn ==
    \A i, k \in DOMAIN rows :
        /\ i < k /\ rows[i].path = rows[k].path
        /\ rows[i].by = Timer /\ rows[k].by = Timer
        /\ ~rows[i].revoked
        => 2 * (leaves[rows[k].serial].not_before - leaves[rows[i].serial].not_before) >= Ttl
=============================================================================
