-------------------------- MODULE EnrollmentProofs --------------------------
(***************************************************************************)
(* Theorems about Enrollment, for any number of tokens, hosts and          *)
(* concurrent requests.                                                    *)
(***************************************************************************)
EXTENDS Enrollment, FiniteSetTheorems, TLAPS

(***************************************************************************)
(* Type correctness                                                        *)
(***************************************************************************)

LEMMA LowestIsFree == \A table : Lowest(Free(table)) \subseteq Addresses
  BY DEF Lowest, Free

LEMMA IdleType ==
    Idle \in [token : Token \cup {NoToken}, host : Host \cup {NoHost},
              view : Table, address : Addresses \cup {NoAddress}]
  BY DEF Idle, Table

LEMMA InitType == Init => TypeOK
  BY IdleType DEF Init, TypeOK, Step, Table, NotRevoked, NoRequest

LEMMA RollbackType == ASSUME TypeOK, NEW r \in Redeemer, Rollback(r) PROVE TypeOK'
  BY IdleType DEF Rollback, Unlocked, Return, TypeOK, Step

LEMMA RedeemType == ASSUME TypeOK, NEW r \in Redeemer, Redeem(r) PROVE TypeOK'
  <1> USE DEF TypeOK, tokvars
  <1>1. CASE LockIpam(r)
    BY <1>1 DEF LockIpam, Step
  <1>2. CASE Busy(r) \/ Exhausted(r) \/ AdmitFails(r) \/ CommitFails(r)
    BY <1>2, RollbackType DEF Busy, Exhausted, AdmitFails, CommitFails
  <1>3. CASE Consume(r)
    BY <1>3 DEF Consume, Step
  <1>4. CASE Admit(r)
    <2>1. PICK a \in Addresses : req' = [req EXCEPT ![r].address = a]
      BY <1>4, LowestIsFree DEF Admit
    <2>2. /\ req' \in [Redeemer -> [token : Token \cup {NoToken}, host : Host \cup {NoHost},
                                    view : Table, address : Addresses \cup {NoAddress}]]
          /\ \A q \in Redeemer : /\ req'[q].token = req[q].token
                                 /\ req'[q].host = req[q].host
      BY <2>1
    <2>3. /\ pc' = [pc EXCEPT ![r] = "drafted"]
          /\ pc[r] # "idle"
          /\ UNCHANGED <<now, tokvars, address, via, ipam, sweeping, answer, opreq>>
      BY <1>4 DEF Admit
    <2> QED
      BY <2>2, <2>3 DEF Step
  <1>5. CASE Commit(r)
    BY <1>5 DEF Commit, Unlocked, Table, Step
  <1>6. CASE Reply(r)
    BY <1>6, IdleType DEF Reply, Return, Step
  <1>7. CASE ReplyFails(r)
    BY <1>7, IdleType DEF ReplyFails, Return, Step
  <1> QED
    BY <1>1, <1>2, <1>3, <1>4, <1>5, <1>6, <1>7 DEF Redeem

LEMMA NextType == TypeOK /\ [Next]_vars => TypeOK'
  <1> SUFFICES ASSUME TypeOK, [Next]_vars PROVE TypeOK'
    OBVIOUS
  <1> USE DEF TypeOK, tokvars
  <1>1. CASE Tick
    BY <1>1 DEF Tick
  <1>2. ASSUME NEW k \in Token, MintToken(k) \/ RevokeToken(k) PROVE TypeOK'
    BY <1>2, EnrollmentAssumption DEF MintToken, NewExpiry, RevokeToken, Revocable
  <1>3. CASE SweepSelect \/ SweepDelete
    BY <1>3 DEF SweepSelect, SweepDelete
  <1>4. ASSUME NEW r \in Redeemer, NEW k \in Token, NEW h \in Host, Check(r, k, h)
        PROVE  TypeOK'
    BY <1>4 DEF Check, Step
  <1>5. ASSUME NEW o \in Operator, NEW h \in Host, OperatorAllocates(o, h) PROVE TypeOK'
    BY <1>5, LowestIsFree DEF OperatorAllocates, Table
  <1>6. ASSUME NEW o \in Operator, OperatorCommits(o) PROVE TypeOK'
    BY <1>6 DEF OperatorCommits, Table, NoRequest
  <1>7. ASSUME NEW h \in Host, DeleteClient(h) PROVE TypeOK'
    BY <1>7 DEF DeleteClient, Table
  <1>8. CASE UNCHANGED vars
    BY <1>8 DEF vars
  <1> QED
    BY <1>1, <1>2, <1>3, <1>4, <1>5, <1>6, <1>7, <1>8, RedeemType
    DEF Next, TokenStep, OperatorStep

\* Type correctness: token and client columns, locks and requests keep their
\* types; in particular every assigned address lies in the subnet's pool.
THEOREM EnrollmentTypeCorrect == Spec => []TypeOK
  BY InitType, NextType, PTL DEF Spec

(***************************************************************************)
(* A use that was taken stays good until the transaction ends: the row     *)
(* lock keeps the token's other writers out.                               *)
(***************************************************************************)

UseIsHeld ==
    \A r \in Redeemer : pc[r] \in {"consumed", "drafted"} =>
        rowlock[req[r].token] = r /\ Consumable(req[r].token)

CountBound == \A k \in Token : use_count[k] <= MaxUses[k]

TokenInv == TypeOK /\ UseIsHeld /\ CountBound

\* A request that leaves gives up its own row lock and nobody else's.
LEMMA RollbackToken ==
    ASSUME TokenInv, NEW r \in Redeemer, Rollback(r)
    PROVE  UseIsHeld' /\ CountBound'
  BY DEF TokenInv, UseIsHeld, CountBound, Consumable, TypeOK, Rollback, Unlocked, Return

LEMMA RedeemToken ==
    ASSUME TokenInv, NEW r \in Redeemer, Redeem(r)
    PROVE  UseIsHeld' /\ CountBound'
  <1> USE DEF TokenInv, UseIsHeld, CountBound, Consumable, TypeOK, tokvars
  <1>1. CASE LockIpam(r)
    BY <1>1 DEF LockIpam
  <1>2. CASE Busy(r) \/ Exhausted(r) \/ AdmitFails(r) \/ CommitFails(r)
    BY <1>2, RollbackToken DEF Busy, Exhausted, AdmitFails, CommitFails
  <1>3. CASE Consume(r)
    BY <1>3, EnrollmentAssumption DEF Consume
  <1>4. CASE Admit(r)
    <2>1. /\ \A q \in Redeemer : req'[q].token = req[q].token
          /\ pc[r] = "consumed" /\ pc' = [pc EXCEPT ![r] = "drafted"]
          /\ UNCHANGED tokvars
      BY <1>4 DEF Admit
    <2> QED
      BY <2>1
  <1>5. CASE Commit(r)
    <2>0. PICK k \in Token : k = req[r].token
      BY <1>5 DEF Commit
    <2>1. pc[r] = "drafted" /\ rowlock[k] = r /\ use_count[k] < MaxUses[k]
      BY <1>5, <2>0 DEF Commit
    <2>2. /\ use_count' = [use_count EXCEPT ![k] = use_count[k] + 1]
          /\ pc' = [pc EXCEPT ![r] = "committed"]
          /\ rowlock' = [j \in Token |-> IF rowlock[j] = r THEN NoOne ELSE rowlock[j]]
          /\ UNCHANGED <<req, minted, revoked_at>>
      BY <1>5, <2>0 DEF Commit, Unlocked
    <2>3. CountBound'
      <3>1. ASSUME NEW j \in Token PROVE use_count'[j] <= MaxUses[j]
        <4>1. use_count[j] \in Nat /\ MaxUses[j] \in Nat /\ use_count[j] <= MaxUses[j]
          BY EnrollmentAssumption
        <4>2. use_count'[j] = IF j = k THEN use_count[j] + 1 ELSE use_count[j]
          BY <2>2
        <4> QED
          BY <2>1, <4>1, <4>2
      <3> QED
        BY <3>1
    <2>4. ASSUME NEW q \in Redeemer, pc'[q] \in {"consumed", "drafted"}
          PROVE  (rowlock[req[q].token] = q /\ Consumable(req[q].token))'
      <3>1. q # r /\ pc[q] = pc'[q] /\ req'[q].token = req[q].token /\ req[q].token \in Token
        BY <2>2, <2>4
      <3>2. rowlock[req[q].token] = q /\ req[q].token # k
        BY <2>1, <2>4, <3>1
      <3> QED
        BY <2>2, <2>4, <3>1, <3>2
    <2> QED
      BY <2>3, <2>4
  <1>6. CASE Reply(r) \/ ReplyFails(r)
    <2>1. /\ pc'[r] = "idle" /\ UNCHANGED <<use_count, rowlock, minted, revoked_at>>
          /\ \A q \in Redeemer \ {r} : pc'[q] = pc[q] /\ req'[q] = req[q]
      BY <1>6 DEF Reply, ReplyFails, Return
    <2> QED
      BY <2>1
  <1> QED
    BY <1>1, <1>2, <1>3, <1>4, <1>5, <1>6 DEF Redeem

LEMMA TokenInductive == TokenInv /\ [Next]_vars => TokenInv'
  <1> SUFFICES ASSUME TokenInv, [Next]_vars PROVE UseIsHeld' /\ CountBound'
    BY NextType DEF TokenInv
  <1> USE EnrollmentAssumption
          DEF TokenInv, UseIsHeld, CountBound, Consumable, TypeOK, tokvars
  <1>1. CASE Tick \/ OperatorStep \/ UNCHANGED vars
    BY <1>1 DEF Tick, OperatorStep, OperatorAllocates, OperatorCommits, DeleteClient, vars
  <1>2. ASSUME NEW k \in Token, MintToken(k) PROVE UseIsHeld' /\ CountBound'
    BY <1>2 DEF MintToken, NewExpiry
  <1>3. ASSUME NEW k \in Token, RevokeToken(k) PROVE UseIsHeld' /\ CountBound'
    BY <1>3 DEF RevokeToken, Revocable
  <1>4. CASE SweepSelect
    BY <1>4 DEF SweepSelect
  <1>5. CASE SweepDelete
    BY <1>5 DEF SweepDelete
  <1>6. ASSUME NEW r \in Redeemer, NEW k \in Token, NEW h \in Host, Check(r, k, h)
        PROVE  UseIsHeld' /\ CountBound'
    BY <1>6 DEF Check
  <1>7. ASSUME NEW r \in Redeemer, Redeem(r) PROVE UseIsHeld' /\ CountBound'
    BY <1>7, RedeemToken
  <1> QED
    BY <1>1, <1>2, <1>3, <1>4, <1>5, <1>6, <1>7 DEF Next, TokenStep

LEMMA TokenInvariant == Spec => []TokenInv
  <1>1. Init => TokenInv
    BY InitType, EnrollmentAssumption DEF Init, TokenInv, UseIsHeld, CountBound
  <1> QED
    BY <1>1, TokenInductive, PTL DEF Spec

\* Who changes via: Commit adds one host to one token, DeleteClient removes one.
LEMMA ViaStep ==
    ASSUME TokenInv, [Next]_vars
    PROVE  \/ UNCHANGED <<via, use_count>>
           \/ \E r \in Redeemer :
                 /\ pc[r] = "drafted" /\ Consumable(req[r].token)
                 /\ req[r].token \in Token /\ req[r].host \in Host
                 /\ via' = [via EXCEPT ![req[r].host] = req[r].token]
                 /\ use_count' = [use_count EXCEPT ![req[r].token] = @ + 1]
           \/ \E h \in Host : /\ via' = [via EXCEPT ![h] = NoToken]
                              /\ UNCHANGED use_count
  <1>1. ASSUME NEW r \in Redeemer, Commit(r)
        PROVE  /\ pc[r] = "drafted" /\ Consumable(req[r].token)
               /\ req[r].token \in Token /\ req[r].host \in Host
               /\ via' = [via EXCEPT ![req[r].host] = req[r].token]
               /\ use_count' = [use_count EXCEPT ![req[r].token] = @ + 1]
    BY <1>1 DEF Commit, TokenInv, UseIsHeld, TypeOK
  <1>2. ASSUME NEW r \in Redeemer, Redeem(r), ~Commit(r) PROVE UNCHANGED <<via, use_count>>
    BY <1>2 DEF Redeem, LockIpam, Busy, Consume, Exhausted, Admit, AdmitFails, CommitFails,
                Rollback, Reply, ReplyFails, tokvars
  <1>3. ASSUME NEW h \in Host, DeleteClient(h)
        PROVE  via' = [via EXCEPT ![h] = NoToken] /\ UNCHANGED use_count
    BY <1>3 DEF DeleteClient, tokvars
  <1>4. CASE \/ Tick \/ TokenStep \/ UNCHANGED vars
             \/ \E o \in Operator : \/ \E h \in Host : OperatorAllocates(o, h)
                                    \/ OperatorCommits(o)
             \/ \E r \in Redeemer, k \in Token, h \in Host : Check(r, k, h)
    BY <1>4 DEF Tick, TokenStep, MintToken, NewExpiry, RevokeToken, Revocable, SweepSelect, SweepDelete,
                OperatorAllocates, OperatorCommits, Check, vars, tokvars
  <1> QED
    BY <1>1, <1>2, <1>3, <1>4 DEF Next, OperatorStep

\* The hosts a token has admitted and that are still registered.
Admitted(k) == {h \in Host : via[h] = k}

LEMMA AdmittedFinite == \A k : IsFiniteSet(Admitted(k)) /\ Cardinality(Admitted(k)) \in Nat
  BY EnrollmentAssumption, FS_Subset, FS_CardinalityType DEF Admitted

AdmittedBound == \A k \in Token : Cardinality(Admitted(k)) <= use_count[k]

LEMMA AdmittedInductive ==
    ASSUME TokenInv, TokenInv', [Next]_vars, AdmittedBound PROVE AdmittedBound'
  <1> SUFFICES ASSUME NEW k \in Token PROVE (Cardinality(Admitted(k)) <= use_count[k])'
    BY DEF AdmittedBound
  <1>1. /\ use_count[k] \in Nat /\ Cardinality(Admitted(k)) \in Nat
        /\ Cardinality(Admitted(k)) <= use_count[k]
        /\ IsFiniteSet(Admitted(k))
    BY AdmittedFinite DEF TokenInv, TypeOK, AdmittedBound
  <1>2. CASE UNCHANGED <<via, use_count>>
    BY <1>1, <1>2 DEF Admitted
  <1>3. ASSUME NEW h \in Host, via' = [via EXCEPT ![h] = NoToken], UNCHANGED use_count
        PROVE  (Cardinality(Admitted(k)) <= use_count[k])'
    <2>1. Admitted(k)' \subseteq Admitted(k)
      BY <1>3, EnrollmentAssumption DEF Admitted, TokenInv, TypeOK
    <2>2. Cardinality(Admitted(k)') <= Cardinality(Admitted(k)) /\ Cardinality(Admitted(k)') \in Nat
      BY <1>1, <2>1, FS_Subset, FS_CardinalityType
    <2> QED
      BY <1>1, <1>3, <2>2
  <1>4. ASSUME NEW h \in Host, NEW j \in Token, via' = [via EXCEPT ![h] = j],
               use_count' = [use_count EXCEPT ![j] = @ + 1]
        PROVE  (Cardinality(Admitted(k)) <= use_count[k])'
    <2>1. use_count'[k] = IF j = k THEN use_count[k] + 1 ELSE use_count[k]
      BY <1>4 DEF TokenInv, TypeOK
    <2>2. Admitted(k)' \subseteq IF j = k THEN Admitted(k) \cup {h} ELSE Admitted(k)
      BY <1>4 DEF Admitted, TokenInv, TypeOK
    <2>3. /\ IsFiniteSet(Admitted(k) \cup {h})
          /\ Cardinality(Admitted(k) \cup {h}) \in Nat
          /\ Cardinality(Admitted(k) \cup {h}) <= Cardinality(Admitted(k)) + 1
      BY <1>1, FS_AddElement, FS_CardinalityType
    <2>4. CASE j = k
      <3>1. Admitted(k)' \subseteq Admitted(k) \cup {h}
        BY <2>2, <2>4
      <3>2. /\ Cardinality(Admitted(k)') <= Cardinality(Admitted(k) \cup {h})
            /\ Cardinality(Admitted(k)') \in Nat
        BY <2>3, <3>1, FS_Subset, FS_CardinalityType
      <3> QED
        BY <1>1, <2>1, <2>3, <2>4, <3>2
    <2>5. CASE j # k
      <3>1. Admitted(k)' \subseteq Admitted(k)
        BY <2>2, <2>5
      <3>2. /\ Cardinality(Admitted(k)') <= Cardinality(Admitted(k))
            /\ Cardinality(Admitted(k)') \in Nat
        BY <1>1, <3>1, FS_Subset, FS_CardinalityType
      <3> QED
        BY <1>1, <2>1, <2>5, <3>2
    <2> QED
      BY <2>4, <2>5
  <1> QED
    BY <1>2, <1>3, <1>4, ViaStep

\* A token admits at most max_uses hosts, for every number of concurrent
\* redemptions, revocations, sweeps and registrations: the guarded UPDATE of
\* consume_token and the row lock it holds until COMMIT are enough.
THEOREM TokenLimit == Spec => []TokenNotOverused
  <1>1. Init => AdmittedBound
    <2> SUFFICES ASSUME Init, NEW k \in Token PROVE Cardinality(Admitted(k)) <= use_count[k]
      BY DEF AdmittedBound
    <2>1. Admitted(k) = {}
      BY EnrollmentAssumption DEF Init, Admitted
    <2> QED
      BY <2>1, FS_EmptySet DEF Init
  <1>2. TokenInv /\ AdmittedBound => TokenNotOverused
    BY DEF TokenInv, CountBound, AdmittedBound, Admitted, TokenNotOverused
  <1> QED
    BY <1>1, <1>2, AdmittedInductive, TokenInvariant, PTL DEF Spec

\* Revocation and the sweep always win over a redemption that has not taken its
\* use yet, and wait for one that has: no host is admitted on a dead token.
THEOREM RevocationWins == Spec => NoAdmissionAfterRevoke
  <1>1. TokenInv /\ [Next]_vars =>
          [\A h \in Host : via'[h] # via[h] /\ via'[h] # NoToken =>
                /\ revoked_at[via'[h]] = NotRevoked
                /\ minted[via'[h]] = "row"]_via
    <2> SUFFICES ASSUME TokenInv, [Next]_vars, NEW h \in Host,
                        via'[h] # via[h], via'[h] # NoToken
                 PROVE  revoked_at[via'[h]] = NotRevoked /\ minted[via'[h]] = "row"
      OBVIOUS
    <2>1. PICK r \in Redeemer : /\ Consumable(req[r].token)
                                /\ via' = [via EXCEPT ![req[r].host] = req[r].token]
      BY ViaStep DEF TokenInv, TypeOK
    <2>2. via'[h] = req[r].token
      BY <2>1 DEF TokenInv, TypeOK
    <2> QED
      BY <2>1, <2>2 DEF Consumable
  <1> QED
    BY <1>1, TokenInvariant, PTL DEF Spec, NoAdmissionAfterRevoke

(***************************************************************************)
(* Only requests that overlap can collide: an address that is about to be  *)
(* inserted is one that no client had when the request read the table.     *)
(***************************************************************************)

\* The address of a request that has read the view.
Unseen(view, a) == a # NoAddress /\ \A g \in Host : view[g] # a

DraftsUnseen == \A r \in Redeemer : pc[r] = "drafted" => Unseen(req[r].view, req[r].address)

OperatorsUnseen ==
    \A o \in Operator : opreq[o].host # NoHost => Unseen(opreq[o].view, opreq[o].address)

AddressInv == TypeOK /\ DraftsUnseen /\ OperatorsUnseen

LEMMA LowestIsUnseen == \A view : \A a \in Lowest(Free(view)) : Unseen(view, a)
  BY EnrollmentAssumption DEF Lowest, Free, Addresses, NoAddress, Unseen

LEMMA DraftsInductive ==
    ASSUME AddressInv, NEW r \in Redeemer, Redeem(r) PROVE DraftsUnseen'
  <1> USE DEF AddressInv, DraftsUnseen
  <1>0. /\ pc \in [Redeemer -> Step]
        /\ req \in [Redeemer -> [token : Token \cup {NoToken}, host : Host \cup {NoHost},
                                 view : Table, address : Addresses \cup {NoAddress}]]
    BY DEF TypeOK
  <1>1. CASE Admit(r)
    <2>1. PICK a \in Lowest(Free(req[r].view)) : req' = [req EXCEPT ![r].address = a]
      BY <1>1 DEF Admit, Reads
    <2>2. req'[r].view = req[r].view /\ req'[r].address = a
      BY <1>0, <2>1
    <2>3. \A q \in Redeemer \ {r} : req'[q] = req[q] /\ pc'[q] = pc[q]
      BY <1>0, <1>1, <2>1 DEF Admit
    <2> QED
      BY <2>1, <2>2, <2>3, LowestIsUnseen
  <1>2. CASE ~Admit(r)
    <2>1. /\ pc'[r] # "drafted"
          /\ \A q \in Redeemer \ {r} : req'[q] = req[q] /\ pc'[q] = pc[q]
      BY <1>0, <1>2 DEF Redeem, LockIpam, Busy, Consume, Exhausted, AdmitFails, Commit,
                       CommitFails, Reply, ReplyFails, Rollback, Return
    <2> QED
      BY <2>1
  <1> QED
    BY <1>1, <1>2

LEMMA AddressInductive == AddressInv /\ [Next]_vars => AddressInv'
  <1> SUFFICES ASSUME AddressInv, [Next]_vars PROVE DraftsUnseen' /\ OperatorsUnseen'
    BY NextType DEF AddressInv
  <1> USE DEF AddressInv, DraftsUnseen, OperatorsUnseen
  <1>0. /\ pc \in [Redeemer -> Step]
        /\ req \in [Redeemer -> [token : Token \cup {NoToken}, host : Host \cup {NoHost},
                                 view : Table, address : Addresses \cup {NoAddress}]]
        /\ opreq \in [Operator -> [host : Host \cup {NoHost}, view : Table,
                                   address : Addresses \cup {NoAddress}]]
    BY DEF TypeOK
  <1>1. CASE Tick \/ TokenStep \/ UNCHANGED vars \/ \E h \in Host : DeleteClient(h)
    <2>1. UNCHANGED <<pc, req, opreq>>
      BY <1>1 DEF Tick, TokenStep, MintToken, RevokeToken, SweepSelect, SweepDelete,
                  DeleteClient, vars
    <2> QED
      BY <2>1
  <1>2. ASSUME NEW r \in Redeemer, NEW k \in Token, NEW h \in Host, Check(r, k, h)
        PROVE  DraftsUnseen' /\ OperatorsUnseen'
    BY <1>0, <1>2 DEF Check
  <1>3. ASSUME NEW r \in Redeemer, Redeem(r) PROVE DraftsUnseen' /\ OperatorsUnseen'
    <2>1. opreq' = opreq
      BY <1>3 DEF Redeem, LockIpam, Busy, Consume, Exhausted, Admit, AdmitFails, Commit,
                  CommitFails, Reply, ReplyFails, Rollback
    <2> QED
      BY <1>3, <2>1, DraftsInductive
  <1>4. ASSUME NEW o \in Operator, NEW h \in Host, OperatorAllocates(o, h)
        PROVE  DraftsUnseen' /\ OperatorsUnseen'
    <2>1. PICK a \in Lowest(Free(address)) :
             opreq' = [opreq EXCEPT ![o] = [host |-> h, view |-> address, address |-> a]]
      BY <1>4 DEF OperatorAllocates
    <2>2. Unseen(address, a) /\ UNCHANGED <<pc, req>>
      BY <1>4, <2>1, LowestIsUnseen DEF OperatorAllocates
    <2> QED
      BY <1>0, <2>1, <2>2
  <1>5. ASSUME NEW o \in Operator, OperatorCommits(o) PROVE DraftsUnseen' /\ OperatorsUnseen'
    <2>1. opreq' = [opreq EXCEPT ![o] = NoRequest] /\ UNCHANGED <<pc, req>>
      BY <1>5 DEF OperatorCommits
    <2> QED
      BY <1>0, <2>1 DEF NoRequest
  <1> QED
    BY <1>1, <1>2, <1>3, <1>4, <1>5 DEF Next, OperatorStep

\* Who gives a client an address.
LEMMA AddressStep ==
    ASSUME TypeOK, [Next]_vars
    PROVE  \/ \A h \in Host : address'[h] = address[h] \/ address'[h] = NoAddress
           \/ \E r \in Redeemer :
                 /\ pc[r] = "drafted" /\ pc'[r] = "committed"
                 /\ address' = [address EXCEPT ![req[r].host] = req[r].address]
           \/ \E o \in Operator :
                 /\ opreq[o].host # NoHost /\ opreq'[o].host = NoHost
                 /\ address' = [address EXCEPT ![opreq[o].host] = opreq[o].address]
  <1>0. /\ pc \in [Redeemer -> Step] /\ address \in Table
        /\ opreq \in [Operator -> [host : Host \cup {NoHost}, view : Table,
                                   address : Addresses \cup {NoAddress}]]
    BY DEF TypeOK
  <1>1. ASSUME NEW r \in Redeemer, Commit(r)
        PROVE  /\ pc[r] = "drafted" /\ pc'[r] = "committed"
               /\ address' = [address EXCEPT ![req[r].host] = req[r].address]
    BY <1>0, <1>1 DEF Commit
  <1>2. ASSUME NEW r \in Redeemer, Redeem(r), ~Commit(r) PROVE address' = address
    BY <1>2 DEF Redeem, LockIpam, Busy, Consume, Exhausted, Admit, AdmitFails, CommitFails,
                Rollback, Reply, ReplyFails
  <1>3. ASSUME NEW o \in Operator, OperatorCommits(o)
        PROVE  /\ opreq[o].host # NoHost /\ opreq'[o].host = NoHost
               /\ \/ address' = address
                  \/ address' = [address EXCEPT ![opreq[o].host] = opreq[o].address]
    BY <1>0, <1>3 DEF OperatorCommits, NoRequest
  <1>4. ASSUME NEW h \in Host, DeleteClient(h)
        PROVE  \A g \in Host : address'[g] = address[g] \/ address'[g] = NoAddress
    BY <1>0, <1>4 DEF DeleteClient, Table
  <1>5. CASE \/ Tick \/ TokenStep \/ UNCHANGED vars
             \/ \E o \in Operator, h \in Host : OperatorAllocates(o, h)
             \/ \E r \in Redeemer, k \in Token, h \in Host : Check(r, k, h)
    BY <1>5 DEF Tick, TokenStep, MintToken, RevokeToken, SweepSelect, SweepDelete,
                OperatorAllocates, Check, vars
  <1> QED
    BY <1>1, <1>2, <1>3, <1>4, <1>5 DEF Next, OperatorStep

\* For any number of redemptions and registrations, on InnoDB's default isolation
\* and with registrations that take no lock: a client is put at another one's
\* address only by a request that read the table before that one was there.
THEOREM CollisionNeedsOverlap == Spec => OnlyOverlapCollides
  <1>1. Init => AddressInv
    BY InitType DEF Init, AddressInv, DraftsUnseen, OperatorsUnseen, NoRequest
  <1>2. AddressInv /\ [Next]_vars =>
          [\A g, h \in Host :
             /\ g # h
             /\ address'[h] # address[h] /\ address'[h] = address[g] /\ address[g] # NoAddress
             => \/ \E r \in Redeemer : /\ pc[r] = "drafted" /\ pc'[r] = "committed"
                                       /\ req[r].host = h /\ req[r].view[g] # address[g]
                \/ \E o \in Operator : /\ opreq[o].host = h /\ opreq'[o].host = NoHost
                                        /\ opreq[o].view[g] # address[g]]_address
    <2> SUFFICES ASSUME AddressInv, [Next]_vars, NEW g \in Host, NEW h \in Host, g # h,
                        address'[h] # address[h], address'[h] = address[g], address[g] # NoAddress
                 PROVE  \/ \E r \in Redeemer : /\ pc[r] = "drafted" /\ pc'[r] = "committed"
                                               /\ req[r].host = h /\ req[r].view[g] # address[g]
                        \/ \E o \in Operator : /\ opreq[o].host = h /\ opreq'[o].host = NoHost
                                                /\ opreq[o].view[g] # address[g]
      OBVIOUS
    <2>0. address \in [Host -> Addresses \cup {NoAddress}]
      BY DEF AddressInv, TypeOK, Table
    <2>1. ASSUME NEW r \in Redeemer, pc[r] = "drafted", pc'[r] = "committed",
                 address' = [address EXCEPT ![req[r].host] = req[r].address]
          PROVE  req[r].host = h /\ req[r].view[g] # address[g]
      <3>1. req[r].host = h /\ req[r].address = address[g]
        BY <2>0, <2>1
      <3> QED
        BY <2>1, <3>1 DEF AddressInv, DraftsUnseen, Unseen
    <2>2. ASSUME NEW o \in Operator, opreq[o].host # NoHost,
                 address' = [address EXCEPT ![opreq[o].host] = opreq[o].address]
          PROVE  opreq[o].host = h /\ opreq[o].view[g] # address[g]
      <3>1. opreq[o].host = h /\ opreq[o].address = address[g]
        BY <2>0, <2>2
      <3> QED
        BY <2>2, <3>1 DEF AddressInv, OperatorsUnseen, Unseen
    <2>3. ~\A f \in Host : address'[f] = address[f] \/ address'[f] = NoAddress
      OBVIOUS
    <2> QED
      BY <2>1, <2>2, <2>3, AddressStep DEF AddressInv
  <1> QED
    BY <1>1, <1>2, AddressInductive, PTL DEF Spec, OnlyOverlapCollides

(***************************************************************************)
(* The ipam lock comes back.  Its holder is always a redemption at work,   *)
(* and the row lock it takes second is free when it asks for it, so it     *)
(* waits for nobody; each of its own steps moves it on, and nobody else's  *)
(* step moves it at all.                                                   *)
(***************************************************************************)

Working == {"locked", "consumed", "drafted"}

HolderWorks == \A r \in Redeemer : ipam = r <=> pc[r] \in Working

RowHolderWorks ==
    \A k \in Token, r \in Redeemer : rowlock[k] = r => pc[r] \in {"consumed", "drafted"}

LockInv == TypeOK /\ HolderWorks /\ RowHolderWorks

\* A redemption that has the ipam lock finds the token's row unlocked.
NoSecondWait == \A r \in Redeemer : pc[r] = "locked" => rowlock[req[r].token] = NoOne

LEMMA LockInvRollback ==
    ASSUME LockInv, NEW r \in Redeemer, Rollback(r)
    PROVE  HolderWorks' /\ RowHolderWorks'
  <1>1. /\ pc'[r] = "idle" /\ \A q \in Redeemer \ {r} : pc'[q] = pc[q]
        /\ rowlock' = [k \in Token |-> IF rowlock[k] = r THEN NoOne ELSE rowlock[k]]
        /\ ipam' = IF ipam = r THEN NoOne ELSE ipam
    BY DEF LockInv, TypeOK, Rollback, Unlocked, Return
  <1>2. HolderWorks'
    BY <1>1, EnrollmentAssumption DEF LockInv, HolderWorks, Working
  <1>3. RowHolderWorks'
    BY <1>1, EnrollmentAssumption DEF LockInv, RowHolderWorks
  <1> QED
    BY <1>2, <1>3

LEMMA LockInvRedeem ==
    ASSUME LockInv, NEW r \in Redeemer, Redeem(r)
    PROVE  HolderWorks' /\ RowHolderWorks'
  <1> USE EnrollmentAssumption DEF LockInv, HolderWorks, RowHolderWorks, Working
  <1>0. pc \in [Redeemer -> Step] /\ rowlock \in [Token -> Redeemer \cup {NoOne}]
    BY DEF TypeOK
  <1>1. CASE LockIpam(r)
    BY <1>0, <1>1 DEF LockIpam, tokvars
  <1>2. CASE Busy(r) \/ Exhausted(r) \/ AdmitFails(r) \/ CommitFails(r)
    BY <1>2, LockInvRollback DEF Busy, Exhausted, AdmitFails, CommitFails
  <1>3. CASE Consume(r)
    <2>1. /\ pc[r] = "locked" /\ pc'[r] = "consumed" /\ ipam' = ipam
          /\ \A q \in Redeemer \ {r} : pc'[q] = pc[q]
          /\ \A k \in Token : rowlock'[k] = rowlock[k] \/ rowlock'[k] = r
      BY <1>0, <1>3 DEF Consume
    <2> QED
      BY <2>1
  <1>4. CASE Admit(r)
    BY <1>0, <1>4 DEF Admit, tokvars
  <1>5. CASE Commit(r)
    <2>1. /\ pc[r] = "drafted" /\ pc'[r] = "committed" /\ \A q \in Redeemer \ {r} : pc'[q] = pc[q]
          /\ rowlock' = [k \in Token |-> IF rowlock[k] = r THEN NoOne ELSE rowlock[k]]
          /\ ipam' = IF ipam = r THEN NoOne ELSE ipam
      BY <1>0, <1>5 DEF Commit, Unlocked
    <2> QED
      BY <2>1
  <1>6. CASE Reply(r) \/ ReplyFails(r)
    <2>1. /\ pc[r] = "committed" /\ pc'[r] = "idle" /\ UNCHANGED <<ipam, rowlock>>
          /\ \A q \in Redeemer \ {r} : pc'[q] = pc[q]
      BY <1>0, <1>6 DEF Reply, ReplyFails, Return, tokvars
    <2> QED
      BY <2>1
  <1> QED
    BY <1>1, <1>2, <1>3, <1>4, <1>5, <1>6 DEF Redeem

\* What a step that is not one of a redemption leaves alone.
Outside == UNCHANGED <<ipam, rowlock>> /\ \A r \in Redeemer : pc[r] # "idle" => pc'[r] = pc[r] /\ req'[r] = req[r]

LEMMA OutsideSteps ==
    ASSUME TypeOK, [Next]_vars, \A r \in Redeemer : ~Redeem(r)
    PROVE  Outside /\ \A r \in Redeemer : pc'[r] = pc[r] \/ (pc[r] = "idle" /\ pc'[r] = "checked")
  <1>0. pc \in [Redeemer -> Step] /\ req \in [Redeemer -> [token : Token \cup {NoToken},
           host : Host \cup {NoHost}, view : Table, address : Addresses \cup {NoAddress}]]
    BY DEF TypeOK
  <1>1. CASE Tick \/ TokenStep \/ OperatorStep \/ UNCHANGED vars
    <2>1. UNCHANGED <<ipam, rowlock, pc, req>>
      BY <1>1 DEF Tick, TokenStep, MintToken, RevokeToken, SweepSelect, SweepDelete, OperatorStep,
                  OperatorAllocates, OperatorCommits, DeleteClient, tokvars, vars
    <2> QED
      BY <2>1 DEF Outside
  <1>2. ASSUME NEW r \in Redeemer, NEW k \in Token, NEW h \in Host, Check(r, k, h)
        PROVE  Outside /\ \A q \in Redeemer : pc'[q] = pc[q] \/ (pc[q] = "idle" /\ pc'[q] = "checked")
    <2>1. /\ pc[r] = "idle" /\ pc' = [pc EXCEPT ![r] = "checked"] /\ UNCHANGED <<ipam, rowlock>>
          /\ \A q \in Redeemer \ {r} : req'[q] = req[q]
      BY <1>0, <1>2 DEF Check, tokvars
    <2> QED
      BY <1>0, <2>1 DEF Outside
  <1> QED
    BY <1>1, <1>2 DEF Next

LEMMA LockInductive == LockInv /\ [Next]_vars => LockInv'
  <1> SUFFICES ASSUME LockInv, [Next]_vars PROVE HolderWorks' /\ RowHolderWorks'
    BY NextType DEF LockInv
  <1>1. CASE \E r \in Redeemer : Redeem(r)
    BY <1>1, LockInvRedeem
  <1>2. CASE \A r \in Redeemer : ~Redeem(r)
    <2>1. /\ UNCHANGED <<ipam, rowlock>>
          /\ \A r \in Redeemer : pc'[r] = pc[r] \/ (pc[r] = "idle" /\ pc'[r] = "checked")
      BY <1>2, OutsideSteps DEF LockInv, Outside
    <2> QED
      BY <2>1 DEF LockInv, HolderWorks, RowHolderWorks, Working
  <1> QED
    BY <1>1, <1>2

LEMMA LockInvariant == Spec => []LockInv
  <1>1. Init => LockInv
    BY InitType, EnrollmentAssumption DEF Init, LockInv, HolderWorks, RowHolderWorks, Working
  <1> QED
    BY <1>1, LockInductive, PTL DEF Spec

\* Whoever has the ipam lock never waits a second time, for the token's row:
\* the two locks of a redemption cannot deadlock.
THEOREM NoWaitInsideTheLock == Spec => []NoSecondWait
  <1>1. LockInv => NoSecondWait
    <2> SUFFICES ASSUME LockInv, NEW r \in Redeemer, pc[r] = "locked"
                 PROVE  rowlock[req[r].token] = NoOne
      BY DEF NoSecondWait
    <2>1. req[r].token \in Token /\ rowlock[req[r].token] \in Redeemer \cup {NoOne}
      BY DEF LockInv, TypeOK
    <2>2. ASSUME NEW q \in Redeemer, rowlock[req[r].token] = q PROVE FALSE
      <3>1. pc[q] \in {"consumed", "drafted"}
        BY <2>1, <2>2 DEF LockInv, RowHolderWorks
      <3> QED
        BY <3>1 DEF LockInv, HolderWorks, Working
    <2> QED
      BY <2>1, <2>2
  <1> QED
    BY <1>1, LockInvariant, PTL

\* Where a redemption's own step takes it, and that no other step moves it.
LEMMA RedeemMoves ==
    ASSUME TypeOK, NEW q \in Redeemer, Redeem(q)
    PROVE  /\ \A r \in Redeemer \ {q} : pc'[r] = pc[r]
           /\ pc[q] = "locked" => pc'[q] \in {"consumed", "idle"}
           /\ pc[q] = "consumed" => pc'[q] \in {"drafted", "idle"}
           /\ pc[q] = "drafted" => pc'[q] \in {"committed", "idle"}
  <1>1. PICK p \in Step : pc' = [pc EXCEPT ![q] = p]
    BY DEF Redeem, LockIpam, Busy, Consume, Exhausted, Admit, AdmitFails, Commit, CommitFails,
           Reply, ReplyFails, Rollback, Return, Step
  <1>2. pc'[q] = p /\ \A r \in Redeemer \ {q} : pc'[r] = pc[r]
    BY <1>1 DEF TypeOK
  <1>3. pc[q] = "locked" => pc'[q] \in {"consumed", "idle"}
    BY DEF TypeOK, Redeem, LockIpam, Busy, Consume, Exhausted, Admit, AdmitFails, Commit,
           CommitFails, Reply, ReplyFails, Rollback, Return
  <1>4. pc[q] = "consumed" => pc'[q] \in {"drafted", "idle"}
    BY DEF TypeOK, Redeem, LockIpam, Busy, Consume, Exhausted, Admit, AdmitFails, Commit,
           CommitFails, Reply, ReplyFails, Rollback, Return
  <1>5. pc[q] = "drafted" => pc'[q] \in {"committed", "idle"}
    BY DEF TypeOK, Redeem, LockIpam, Busy, Consume, Exhausted, Admit, AdmitFails, Commit,
           CommitFails, Reply, ReplyFails, Rollback, Return
  <1> QED
    BY <1>2, <1>3, <1>4, <1>5

Holding(r, p) == ipam = r /\ pc[r] = p

\* The holder stays where it is, moves on, or has given the lock back.
LEMMA HolderMoves ==
    ASSUME LockInv, LockInv', [Next]_vars, NEW r \in Redeemer
    PROVE  /\ Holding(r, "locked") =>
                 Holding(r, "locked")' \/ Holding(r, "consumed")' \/ (ipam # r)'
           /\ Holding(r, "consumed") =>
                 Holding(r, "consumed")' \/ Holding(r, "drafted")' \/ (ipam # r)'
           /\ Holding(r, "drafted") => Holding(r, "drafted")' \/ (ipam # r)'
           /\ Redeem(r) => /\ ~(Holding(r, "locked") /\ Holding(r, "locked")')
                           /\ ~(Holding(r, "consumed") /\ Holding(r, "consumed")')
                           /\ ~(Holding(r, "drafted") /\ Holding(r, "drafted")')
  <1>1. CASE Redeem(r)
    <2>1. /\ pc[r] = "locked" => pc'[r] \in {"consumed", "idle"}
          /\ pc[r] = "consumed" => pc'[r] \in {"drafted", "idle"}
          /\ pc[r] = "drafted" => pc'[r] \in {"committed", "idle"}
      BY <1>1, RedeemMoves DEF LockInv
    <2> QED
      BY <2>1 DEF LockInv, HolderWorks, Working, Holding
  <1>2. CASE ~Redeem(r)
    <2>1. pc[r] # "idle" => pc'[r] = pc[r]
      <3>1. CASE \E q \in Redeemer : Redeem(q)
        BY <1>2, <3>1, RedeemMoves DEF LockInv
      <3>2. CASE \A q \in Redeemer : ~Redeem(q)
        BY <3>2, OutsideSteps DEF LockInv, Outside
      <3> QED
        BY <3>1, <3>2
    <2> QED
      BY <1>2, <2>1 DEF LockInv, HolderWorks, Working, Holding
  <1> QED
    BY <1>1, <1>2

\* One redemption's fairness is enough for its own lock.
LEMMA OwnFairness ==
    ASSUME NEW r \in Redeemer
    PROVE  Spec /\ Fair(r) /\ []CanGoOn(r) => Released(r)
  <1>1. LockInv /\ ipam = r =>
           Holding(r, "locked") \/ Holding(r, "consumed") \/ Holding(r, "drafted")
    BY DEF LockInv, HolderWorks, Working, Holding
  <1>2. Holding(r, "locked") \/ Holding(r, "consumed") \/ Holding(r, "drafted") => pc[r] # "idle"
    BY DEF Holding
  <1>3. LockInv /\ LockInv' /\ [Next]_vars =>
           /\ Holding(r, "locked") =>
                 Holding(r, "locked")' \/ Holding(r, "consumed")' \/ (ipam # r)'
           /\ Holding(r, "consumed") =>
                 Holding(r, "consumed")' \/ Holding(r, "drafted")' \/ (ipam # r)'
           /\ Holding(r, "drafted") => Holding(r, "drafted")' \/ (ipam # r)'
    BY HolderMoves
  <1>4. LockInv /\ LockInv' /\ [Next]_vars /\ <<Redeem(r)>>_vars =>
           /\ ~(Holding(r, "locked") /\ Holding(r, "locked")')
           /\ ~(Holding(r, "consumed") /\ Holding(r, "consumed")')
           /\ ~(Holding(r, "drafted") /\ Holding(r, "drafted")')
    BY HolderMoves
  <1>5. ipam = r \/ ipam # r
    OBVIOUS
  <1> QED
    BY <1>1, <1>2, <1>3, <1>4, <1>5, LockInvariant, PTL DEF Spec, Fair, CanGoOn, Released

\* Every redemption that holds the ipam lock gives it back, given that none is
\* ever stuck, which is NoRedemptionIsStuck, and that each takes the steps it can.
THEOREM LockComesBack == FairSpec /\ []NoRedemptionIsStuck => LockIsReleased
  <1>1. ASSUME NEW r \in Redeemer PROVE FairSpec /\ []NoRedemptionIsStuck => Released(r)
    <2>1. NoRedemptionIsStuck => CanGoOn(r)
      BY DEF NoRedemptionIsStuck
    <2>2. []NoRedemptionIsStuck => []CanGoOn(r)
      BY <2>1, PTL
    <2>3. FairSpec => Spec /\ Fair(r)
      BY DEF FairSpec
    <2> QED
      BY <2>2, <2>3, OwnFairness
  <1> QED
    BY <1>1 DEF LockIsReleased
=============================================================================
