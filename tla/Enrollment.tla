----------------------------- MODULE Enrollment -----------------------------
(***************************************************************************)
(* Zero-touch enrollment into one hub: hosts redeem enrollment tokens      *)
(* (POST /v1/enroll) while operators mint and revoke tokens, register and  *)
(* delete clients, and the sweep deletes tokens dead for long enough.      *)
(*                                                                         *)
(* A redemption is one database transaction.  The engine sets no isolation *)
(* level, so its reads follow InnoDB's default, REPEATABLE READ: every     *)
(* plain SELECT sees the snapshot taken by the first one (find_token),     *)
(* while UPDATE, INSERT and DELETE see the latest committed rows and take  *)
(* row locks until the end.  Redemptions of one hub hold the advisory lock *)
(* wgm:ipam:<server_id>; operators' registrations do not take it.          *)
(***************************************************************************)
EXTENDS Integers, FiniteSets

CONSTANTS
    Token,          \* enrollment_token ids of this hub
    Host,           \* client names; name_prefix-hostname for an enrolled host
    Redeemer,       \* concurrent POST /v1/enroll requests
    Operator,       \* concurrent POST /clients and /clients/manual requests
    NoToken, NoHost, NoOne,
    MaxUses,        \* max_uses of each token
    PoolSize,       \* assignable addresses of the subnet
    Ttl,            \* ttl_seconds of a token
    Retention,      \* ENROLL_TOKEN_RETENTION_SECONDS
    MaxTime,        \* bound on the clock
    BrokerMayFail   \* request_reconfigure may raise after the commit

ASSUME EnrollmentAssumption ==
    /\ NoToken \notin Token /\ NoHost \notin Host /\ NoOne \notin Redeemer
    /\ IsFiniteSet(Host)
    /\ MaxUses \in [Token -> Nat \ {0}]
    /\ PoolSize \in Nat /\ Ttl \in Nat /\ Retention \in Nat /\ MaxTime \in Nat
    /\ BrokerMayFail \in BOOLEAN

VARIABLES
    now,        \* wall clock
    minted,     \* whether the token row is there: "none", "row" or "deleted"
    use_count,  \* EnrollmentToken.use_count, committed
    expires_at, \* EnrollmentToken.expires_at
    revoked_at, \* EnrollmentToken.revoked_at, NotRevoked for NULL
    address,    \* Client.address of the row with each name, NoAddress for no row
    via,        \* ghost: the token that admitted it
    ipam,       \* holder of GET_LOCK('wgm:ipam:<server_id>')
    rowlock,    \* the transaction that has updated the token row
    sweeping,   \* ids the running sweep selected
    pc,         \* progress of each redemption, see Step
    req,        \* its token, host, view of the addresses and allocated address
    answer,     \* how the last redemption of each process ended
    opreq       \* the name and address an operator's request is about to insert,
                \* and (ghost) the addresses it has read

tokvars == <<minted, use_count, expires_at, revoked_at, rowlock>>
vars == <<now, tokvars, address, via, ipam, sweeping, pc, req, answer, opreq>>

NoAddress  == 0
NotRevoked == -1
Addresses  == 1 .. PoolSize
Table      == [Host -> Addresses \cup {NoAddress}]

Step == {"idle", "checked", "locked", "consumed", "drafted", "committed"}

Idle == [token |-> NoToken, host |-> NoHost,
         view |-> [h \in Host |-> NoAddress], address |-> NoAddress]

NoRequest == [host |-> NoHost, view |-> [h \in Host |-> NoAddress], address |-> NoAddress]

\* A request past its checks has a token and a host.
TypeOK ==
    /\ now \in Nat
    /\ minted \in [Token -> {"none", "row", "deleted"}]
    /\ use_count \in [Token -> Nat]
    /\ expires_at \in [Token -> Nat]
    /\ revoked_at \in [Token -> Nat \cup {NotRevoked}]
    /\ rowlock \in [Token -> Redeemer \cup {NoOne}]
    /\ address \in Table
    /\ via \in [Host -> Token \cup {NoToken}]
    /\ ipam \in Redeemer \cup {NoOne}
    /\ sweeping \in SUBSET Token
    /\ pc \in [Redeemer -> Step]
    /\ req \in [Redeemer -> [token : Token \cup {NoToken}, host : Host \cup {NoHost},
                             view : Table, address : Addresses \cup {NoAddress}]]
    /\ \A r \in Redeemer : pc[r] # "idle" => req[r].token \in Token /\ req[r].host \in Host
    /\ answer \in [Redeemer -> {"none", "created", "refused", "failed"}]
    /\ opreq \in [Operator -> [host : Host \cup {NoHost}, view : Table,
                               address : Addresses \cup {NoAddress}]]

Init ==
    /\ now = 0
    /\ minted = [k \in Token |-> "none"]
    /\ use_count = [k \in Token |-> 0]
    /\ expires_at = [k \in Token |-> 0]
    /\ revoked_at = [k \in Token |-> NotRevoked]
    /\ rowlock = [k \in Token |-> NoOne]
    /\ address = [h \in Host |-> NoAddress]
    /\ via = [h \in Host |-> NoToken]
    /\ ipam = NoOne
    /\ sweeping = {}
    /\ pc = [r \in Redeemer |-> "idle"]
    /\ req = [r \in Redeemer |-> Idle]
    /\ answer = [r \in Redeemer |-> "none"]
    /\ opreq = [o \in Operator |-> NoRequest]

(***************************************************************************)
(* allocate_client_ip: the lowest address no row of the view has.          *)
(***************************************************************************)

\* Mutant: the broadcast address is not reserved.
FreeWithBroadcast(table) == {a \in 1 .. PoolSize + 1 : \A h \in Host : table[h] # a}

Free(table) == {a \in Addresses : \A h \in Host : table[h] # a}

\* The one smallest element, none for an empty set (IPPoolExhausted).
Lowest(S) == {a \in S : \A b \in S : a <= b}

(***************************************************************************)
(* Tokens: mint, revoke, sweep                                             *)
(***************************************************************************)

Tick ==
    /\ now < MaxTime
    /\ now' = now + 1
    /\ UNCHANGED <<tokvars, address, via, ipam, sweeping, pc, req, answer, opreq>>

\* mint_token: the lifetime counts from the insert.
NewExpiry == now + Ttl

\* create_enrollment_token
MintToken(k) ==
    /\ minted[k] = "none"
    /\ minted' = [minted EXCEPT ![k] = "row"]
    /\ expires_at' = [expires_at EXCEPT ![k] = NewExpiry]
    /\ UNCHANGED <<now, use_count, revoked_at, rowlock, address, via, ipam,
                   sweeping, pc, req, answer, opreq>>

\* revoke_token leaves a revoked token as it is.
Revocable(k) == minted[k] = "row" /\ revoked_at[k] = NotRevoked

\* The UPDATE waits for a redemption that has updated the row.  Read and UPDATE
\* are one step: of two revocations that overlap the later one's time would stay.
RevokeToken(k) ==
    /\ Revocable(k)
    /\ rowlock[k] = NoOne
    /\ revoked_at' = [revoked_at EXCEPT ![k] = now]
    /\ UNCHANGED <<now, minted, use_count, expires_at, rowlock, address, via,
                   ipam, sweeping, pc, req, answer, opreq>>

IsExpired(k) == expires_at[k] <= now

\* delete_dead_tokens: select the dead ids, then delete them by id; the
\* DELETE waits for a redemption that has updated one of the rows.
Dead(k) ==
    /\ minted[k] = "row"
    /\ \/ expires_at[k] < now - Retention
       \/ revoked_at[k] # NotRevoked /\ revoked_at[k] < now - Retention

SweepSelect ==
    /\ sweeping = {}
    /\ sweeping' = {k \in Token : Dead(k)}
    /\ sweeping' # {}
    /\ UNCHANGED <<now, tokvars, address, via, ipam, pc, req, answer, opreq>>

SweepDelete ==
    /\ sweeping # {}
    /\ \A k \in sweeping : rowlock[k] = NoOne
    /\ minted' = [k \in Token |-> IF k \in sweeping THEN "deleted" ELSE minted[k]]
    /\ sweeping' = {}
    /\ UNCHANGED <<now, use_count, expires_at, revoked_at, rowlock, address, via,
                   ipam, pc, req, answer, opreq>>

(***************************************************************************)
(* enroll                                                                  *)
(***************************************************************************)

\* Mutant: only the clients that came in with a token are looked at.
ReadsEnrolled(r) ==
    [h \in Host |-> IF via[h] = NoToken THEN NoAddress ELSE req[r].view[h]]

\* What a plain SELECT on client returns inside the redemption: the snapshot of
\* its first one.
Reads(r) == req[r].view

\* find_token and the checks before the lock.  A request they refuse changes
\* nothing.  The committed use_count is read: another request's increment is
\* not visible yet.
Check(r, k, h) ==
    /\ pc[r] = "idle"
    /\ minted[k] = "row"
    /\ revoked_at[k] = NotRevoked
    /\ ~IsExpired(k)
    /\ use_count[k] < MaxUses[k]
    /\ pc' = [pc EXCEPT ![r] = "checked"]
    /\ req' = [req EXCEPT ![r] = [token |-> k, host |-> h, view |-> address,
                                  address |-> NoAddress]]
    /\ answer' = [answer EXCEPT ![r] = "none"]
    /\ UNCHANGED <<now, tokvars, address, via, ipam, sweeping, opreq>>

LockIpam(r) ==
    /\ pc[r] = "checked"
    /\ ipam = NoOne
    /\ ipam' = r
    /\ pc' = [pc EXCEPT ![r] = "locked"]
    /\ UNCHANGED <<now, tokvars, address, via, sweeping, req, answer, opreq>>

\* End of the request: the transaction is gone, the locks it held are free.
Unlocked(r) ==
    /\ rowlock' = [k \in Token |-> IF rowlock[k] = r THEN NoOne ELSE rowlock[k]]
    /\ ipam' = IF ipam = r THEN NoOne ELSE ipam

Return(r, how) ==
    /\ pc' = [pc EXCEPT ![r] = "idle"]
    /\ req' = [req EXCEPT ![r] = Idle]
    /\ answer' = [answer EXCEPT ![r] = how]

\* Mutant: RELEASE_LOCK is skipped on the error path, as it was when the lock
\* rode on the session's connection.
RollbackKeepsLock(r) ==
    /\ rowlock' = [k \in Token |-> IF rowlock[k] = r THEN NoOne ELSE rowlock[k]]
    /\ Return(r, "refused")
    /\ UNCHANGED <<now, minted, use_count, expires_at, revoked_at, address, via,
                   ipam, sweeping, opreq>>

Rollback(r) ==
    /\ Unlocked(r)
    /\ Return(r, "refused")
    /\ UNCHANGED <<now, minted, use_count, expires_at, revoked_at, address, via,
                   sweeping, opreq>>

\* 503: the lock stayed held for _IPAM_LOCK_TIMEOUT_SECONDS.
Busy(r) ==
    /\ pc[r] = "checked"
    /\ ipam # NoOne
    /\ Rollback(r)

\* Mutants of the WHERE clause.
ConsumableUncounted(k) == minted[k] = "row" /\ revoked_at[k] = NotRevoked
ConsumableRevoked(k)   == minted[k] = "row" /\ use_count[k] < MaxUses[k]

\* consume_token: the guarded UPDATE waits for the row and sees its latest
\* committed version, or no row once the sweep has deleted it.
Consumable(k) ==
    /\ minted[k] = "row"
    /\ use_count[k] < MaxUses[k]
    /\ revoked_at[k] = NotRevoked

Consume(r) ==
    /\ pc[r] = "locked"
    /\ rowlock[req[r].token] = NoOne
    /\ Consumable(req[r].token)
    /\ rowlock' = [rowlock EXCEPT ![req[r].token] = r]
    /\ pc' = [pc EXCEPT ![r] = "consumed"]
    /\ UNCHANGED <<now, minted, use_count, expires_at, revoked_at, address, via,
                   ipam, sweeping, req, answer, opreq>>

\* Mutant: only a used-up token is refused here; one that was revoked or swept
\* meanwhile leaves the request with no way on.
ExhaustedByUses(r) ==
    /\ pc[r] = "locked"
    /\ rowlock[req[r].token] = NoOne
    /\ use_count[req[r].token] >= MaxUses[req[r].token]
    /\ Rollback(r)

\* 401: rowcount 0.
Exhausted(r) ==
    /\ pc[r] = "locked"
    /\ rowlock[req[r].token] = NoOne
    /\ ~Consumable(req[r].token)
    /\ Rollback(r)

\* _admit: the name is free, an address is free and the CA signs.
Admit(r) ==
    /\ pc[r] = "consumed"
    /\ Reads(r)[req[r].host] = NoAddress
    /\ \E a \in Lowest(Free(Reads(r))) : req' = [req EXCEPT ![r].address = a]
    /\ pc' = [pc EXCEPT ![r] = "drafted"]
    /\ UNCHANGED <<now, tokvars, address, via, ipam, sweeping, answer, opreq>>

\* 409 (name or key taken, subnet full), 502 (CA), 503 (hub not ready).
AdmitFails(r) ==
    /\ pc[r] = "consumed"
    /\ Rollback(r)

\* INSERT and COMMIT: the unique index on client.name sees every row.
Commit(r) ==
    /\ pc[r] = "drafted"
    /\ address[req[r].host] = NoAddress
    /\ address' = [address EXCEPT ![req[r].host] = req[r].address]
    /\ via' = [via EXCEPT ![req[r].host] = req[r].token]
    /\ use_count' = [use_count EXCEPT ![req[r].token] = @ + 1]
    /\ Unlocked(r)
    /\ pc' = [pc EXCEPT ![r] = "committed"]
    /\ UNCHANGED <<now, minted, expires_at, revoked_at, sweeping, req, answer, opreq>>

\* 500: IntegrityError, or the database refuses the commit.
CommitFails(r) ==
    /\ pc[r] = "drafted"
    /\ Rollback(r)

\* request_reconfigure (see HubReconfig!EnrollClient), then 201.
Reply(r) ==
    /\ pc[r] = "committed"
    /\ Return(r, "created")
    /\ UNCHANGED <<now, tokvars, address, via, ipam, sweeping, opreq>>

\* request_reconfigure raises outside the try block: 500.
ReplyFails(r) ==
    /\ BrokerMayFail
    /\ pc[r] = "committed"
    /\ Return(r, "failed")
    /\ UNCHANGED <<now, tokvars, address, via, ipam, sweeping, opreq>>

(***************************************************************************)
(* routers/clients.py: registrations take no lock, deletion frees the      *)
(* address.                                                                *)
(***************************************************************************)

OperatorAllocates(o, h) ==
    /\ opreq[o].host = NoHost
    /\ address[h] = NoAddress
    /\ \E a \in Lowest(Free(address)) :
          opreq' = [opreq EXCEPT ![o] = [host |-> h, view |-> address, address |-> a]]
    /\ UNCHANGED <<now, tokvars, address, via, ipam, sweeping, pc, req, answer>>

\* The unique index on client.name refuses a name taken meanwhile (500).
OperatorCommits(o) ==
    /\ opreq[o].host # NoHost
    /\ address' = IF address[opreq[o].host] = NoAddress
                    THEN [address EXCEPT ![opreq[o].host] = opreq[o].address]
                    ELSE address
    /\ opreq' = [opreq EXCEPT ![o] = NoRequest]
    /\ UNCHANGED <<now, tokvars, via, ipam, sweeping, pc, req, answer>>

DeleteClient(h) ==
    /\ address[h] # NoAddress
    /\ address' = [address EXCEPT ![h] = NoAddress]
    /\ via' = [via EXCEPT ![h] = NoToken]
    /\ UNCHANGED <<now, tokvars, ipam, sweeping, pc, req, answer, opreq>>

(***************************************************************************)
(* Specification                                                           *)
(***************************************************************************)

TokenStep ==
    \/ \E k \in Token : MintToken(k) \/ RevokeToken(k)
    \/ SweepSelect \/ SweepDelete

Redeem(r) ==
    \/ LockIpam(r) \/ Busy(r)
    \/ Consume(r) \/ Exhausted(r)
    \/ Admit(r) \/ AdmitFails(r)
    \/ Commit(r) \/ CommitFails(r)
    \/ Reply(r) \/ ReplyFails(r)

OperatorStep ==
    \/ \E o \in Operator : \/ \E h \in Host : OperatorAllocates(o, h)
                           \/ OperatorCommits(o)
    \/ \E h \in Host : DeleteClient(h)

Next ==
    \/ Tick
    \/ TokenStep
    \/ \E r \in Redeemer, k \in Token, h \in Host : Check(r, k, h)
    \/ \E r \in Redeemer : Redeem(r)
    \/ OperatorStep

Spec == Init /\ [][Next]_vars

\* A request that has begun runs to its end.
Fair(r) == WF_vars(Redeem(r))

FairSpec == Spec /\ \A r \in Redeemer : Fair(r)

(***************************************************************************)
(* Properties                                                              *)
(***************************************************************************)

\* A token never admits more hosts than max_uses, however many redemptions
\* passed the pre-check before the first of them committed (consume_token).
TokenNotOverused ==
    \A k \in Token : /\ use_count[k] <= MaxUses[k]
                     /\ Cardinality({h \in Host : via[h] = k}) <= use_count[k]

\* "A revoke committed after the caller loaded row still wins" (consume_token):
\* no host is admitted on a token that is revoked or swept by then.
NoAdmissionAfterRevoke ==
    [][\A h \in Host : via'[h] # via[h] /\ via'[h] # NoToken =>
            /\ revoked_at[via'[h]] = NotRevoked
            /\ minted[via'[h]] = "row"]_via

\* No two clients of the hub have the same address: enrollment is "serialised per
\* hub by an advisory lock so concurrent redemptions can't be handed the same
\* address" (enroll).  WireGuard would route to whichever peer comes last.
AddressUnique ==
    \A g, h \in Host : g # h /\ address[g] # NoAddress => address[g] # address[h]

\* Only requests that overlap can collide: "existing Client rows for the given
\* server are excluded from the pool" (allocate_client_ip), so a client h comes
\* to an address g has only when h's request read the table before g was there.
\* This has to hold at the commit, after the wait for the lock and whatever was
\* deleted, registered and enrolled meanwhile.
OnlyOverlapCollides ==
    [][\A g, h \in Host :
          /\ g # h
          /\ address'[h] # address[h] /\ address'[h] = address[g] /\ address[g] # NoAddress
          => \/ \E r \in Redeemer : /\ pc[r] = "drafted" /\ pc'[r] = "committed"
                                    /\ req[r].host = h /\ req[r].view[g] # address[g]
             \/ \E o \in Operator : /\ opreq[o].host = h /\ opreq'[o].host = NoHost
                                     /\ opreq[o].view[g] # address[g]]_address

\* No redemption is ever stuck: neither the ipam lock nor a token's row lock,
\* which it takes second, can leave it with nothing it may do next.
CanGoOn(r) == pc[r] # "idle" => ENABLED <<Redeem(r)>>_vars

NoRedemptionIsStuck == \A r \in Redeemer : CanGoOn(r)

\* Whatever way a redemption ends, it frees the hub's ipam lock (the
\* try/finally of task_row_lock), so later enrollments are not all 503: nobody
\* keeps it forever.
Released(r) == []<>(ipam # r)

LockIsReleased == \A r \in Redeemer : Released(r)
=============================================================================
