------------------------ MODULE HubRefinementProofs -------------------------
(***************************************************************************)
(* HubReconfig implements HubSync, for any number of clients, callers and  *)
(* messages and any bounds: the machinery of generations keeps the ledger. *)
(***************************************************************************)
EXTENDS HubRefinement, HubReconfigProofs

(***************************************************************************)
(* Nobody is told of the loss of a generation that was never requested, so *)
(* a fresh change is owed and not already written off.                     *)
(***************************************************************************)

ReportedBound == reported <= requested_gen

LEMMA ReportedInductive ==
    ASSUME CoverInv, ReportedBound, [Next]_vars PROVE ReportedBound'
<1>. USE DEF CoverInv, GenInv, TypeOK, ReportedBound, GenCover
<1>1. ASSUME UNCHANGED <<reported, requested_gen>> PROVE ReportedBound'
  BY <1>1
<1>2. CASE ClientStep
  BY <1>1, <1>2
  DEF ClientStep, RegisterClient, ProvisionClientFailed, ReprovisionClient,
      RegisterManualClient, EnrollClient, ProvisionClientDone, DeleteClient,
      CommitAndAnnounce, CommitOnly
<1>3. ASSUME NEW a \in Caller, CallerStep(a) PROVE ReportedBound'
  BY <1>3 DEF CallerStep, Bump, Dispatch, dbvars
<1>4. ASSUME NEW a \in Caller, CallerFails(a) PROVE ReportedBound'
  BY <1>4 DEF CallerFails, Larger, dbvars
<1>5. ASSUME NEW t \in Task, pc[t] # "free", UNCHANGED requested_gen,
             reported' \in {reported, Larger(reported, gen[t])}
      PROVE  ReportedBound'
  BY <1>5 DEF Larger, NoGen
<1>6. ASSUME NEW t \in Task, TaskFails(t) \/ TornWrite(t) PROVE ReportedBound'
  BY <1>5, <1>6 DEF TaskFails, TornWrite, EndInFailure, BeforeWrite, Held
<1>7. ASSUME NEW t \in Task, Contended(t) PROVE ReportedBound'
  BY <1>5, <1>7 DEF Contended, dbvars
<1>8. ASSUME NEW t \in Task, TaskStep(t), ~Contended(t) PROVE ReportedBound'
  BY <1>1, <1>8
  DEF TaskStep, Acquire, Coalesce, Load, List, Lower, Write, Restart, Remote, Apply,
      ProvisionDone, Ack, dbvars
<1>9. CASE \/ \E t \in Task : Crash(t) \/ Redeliver(t)
           \/ LoseLock \/ ReprovisionServer \/ UNCHANGED vars
  BY <1>1, <1>9 DEF Crash, Redeliver, LoseLock, ReprovisionServer, vars, dbvars
<1>. QED
  BY <1>2, <1>3, <1>4, <1>6, <1>7, <1>8, <1>9 DEF Next, MishapStep

(***************************************************************************)
(* The mapping                                                             *)
(***************************************************************************)

\* What the refinement rests on.
LedgerInv == HubInv /\ CoverInv /\ NoSilentLoss /\ ReportedBound

LEMMA WantedCases ==
    ASSUME NEW c
    PROVE  /\ Wanted(c) = "in" <=> status[c] = "ready"
           /\ Wanted(c) = "out" <=> status[c] = "deleted"
           /\ Wanted(c) \in {"in", "out", "free"}
BY DEF Wanted

\* No entry is ever "lost".
EntryCases ==
    \A c \in Client :
        /\ Wanted(c) = "free" => Entry(c) = "none"
        /\ Wanted(c) # "free" =>
             /\ since[c] <= applied_gen => Entry(c) = "done"
             /\ since[c] > applied_gen =>
                  Entry(c) = IF since[c] <= reported \/ c \in failedCalls
                             THEN "told" ELSE "owed"

\* Every copy of the peer list shows what is done.
Views == {conf} \cup (IF up THEN {live} ELSE {})

ViewsShow ==
    \A peers \in Views :
        Ledger!Shows(peers, [c \in Client |-> Wanted(c)], [c \in Client |-> Entry(c)])

LEMMA MappedState == LedgerInv => EntryCases /\ ViewsShow /\ Views \in SUBSET SUBSET Client
<1>. SUFFICES ASSUME LedgerInv
              PROVE  EntryCases /\ ViewsShow /\ Views \in SUBSET SUBSET Client
  OBVIOUS
<1>1. TypeOK
  BY DEF LedgerInv, HubInv, GenInv
<1>2. EntryCases
  <2>. SUFFICES ASSUME NEW c \in Client
                PROVE  /\ Wanted(c) = "free" => Entry(c) = "none"
                       /\ Wanted(c) # "free" =>
                            /\ since[c] <= applied_gen => Entry(c) = "done"
                            /\ since[c] > applied_gen =>
                                 Entry(c) = IF since[c] <= reported \/ c \in failedCalls
                                            THEN "told" ELSE "owed"
    BY DEF EntryCases
  <2>1. Wanted(c) # "free" => status[c] \in {"ready", "deleted"}
    BY DEF Wanted
  <2>2. Wanted(c) # "free" => Accounted(c)
    BY <2>1 DEF LedgerInv, NoSilentLoss
  <2>. QED
    BY <1>1, <2>2 DEF Entry, TypeOK
<1>3. ASSUME NEW peers \in Views
      PROVE  Ledger!Shows(peers, [c \in Client |-> Wanted(c)], [c \in Client |-> Entry(c)])
  <2>1. Agrees(peers, applied_gen)
    BY DEF Views, LedgerInv, HubInv, AppliedIsOnHub
  <2>2. ASSUME NEW c \in Client, Entry(c) = "done", Wanted(c) # "free"
        PROVE  since[c] <= applied_gen
    BY <1>1, <1>2, <2>2 DEF EntryCases, TypeOK
  <2>. QED
    BY <2>1, <2>2, WantedCases DEF Ledger!Shows, Agrees
<1>. QED
  BY <1>1, <1>2, <1>3 DEF ViewsShow, Views, TypeOK

\* A step that changes no client row: entries move forward, or back from told to
\* owed when the change is announced again, and none that is done is undone.
LEMMA WorkStep ==
    ASSUME LedgerInv, LedgerInv', UNCHANGED <<status, since>>, applied_gen <= applied_gen'
    PROVE  Ledger!Work
<1>1. TypeOK /\ TypeOK'
  BY DEF LedgerInv, HubInv, GenInv
<1>2. EntryCases /\ EntryCases' /\ ViewsShow' /\ (Views \in SUBSET SUBSET Client)'
  BY MappedState, PTL
<1>3. \A c \in Client : Wanted(c)' = Wanted(c)
  BY DEF Wanted
<1>4. ASSUME NEW c \in Client
      PROVE  /\ Entry(c)' \in {"none", "owed", "told", "done"}
             /\ Entry(c)' \in Ledger!Progress[Entry(c)]
  <2>1. CASE Wanted(c) = "free"
    <3>1. Entry(c) = "none" /\ Entry(c)' = "none"
      BY <1>2, <1>3, <2>1 DEF EntryCases
    <3>. QED
      BY <3>1 DEF Ledger!Progress
  <2>2. CASE Wanted(c) # "free"
    <3>1. Wanted(c)' # "free"
      BY <1>3, <2>2
    <3>2. since[c] \in Nat /\ since'[c] = since[c] /\ applied_gen \in Nat /\ applied_gen' \in Nat
      BY <1>1 DEF TypeOK
    <3>3. /\ Entry(c) \in {"owed", "told", "done"} /\ Entry(c)' \in {"owed", "told", "done"}
          /\ Entry(c) = "done" => Entry(c)' = "done"
      BY <1>2, <2>2, <3>1, <3>2 DEF EntryCases
    <3>. QED
      BY <3>3 DEF Ledger!Progress
  <2>. QED
    BY <2>1, <2>2
<1>5. [c \in Client |-> Wanted(c)]' = [c \in Client |-> Wanted(c)]
  BY <1>3
<1>. QED
  BY <1>2, <1>4, <1>5 DEF Ledger!Work, ViewsShow, Views

\* A client row is committed: a Change of that client, except when the row had
\* that status already and is only announced again.
LEMMA ClientRowStep ==
    ASSUME LedgerInv, LedgerInv', ClientStep
    PROVE  Ledger!SyncNext
<1>1. TypeOK /\ TypeOK'
  BY DEF LedgerInv, HubInv, GenInv
<1>2. EntryCases /\ EntryCases'
  BY MappedState, PTL
<1>3. ASSUME NEW c \in Client, UNCHANGED <<conf, live, up>>,
             \A d \in Client \ {c} : Wanted(d)' = Wanted(d) /\ Entry(d)' = Entry(d),
             Entry(c)' = IF Wanted(c)' = "free" THEN "none" ELSE "owed"
      PROVE  Ledger!SyncNext
  <2>1. Wanted(c)' \in {"in", "out", "free"}
    BY DEF Wanted
  <2>2. [d \in Client |-> Wanted(d)]' = [[d \in Client |-> Wanted(d)] EXCEPT ![c] = Wanted(c)']
    BY <1>3
  <2>3. [d \in Client |-> Entry(d)]'
          = [[d \in Client |-> Entry(d)] EXCEPT
               ![c] = IF [d \in Client |-> Wanted(d)]'[c] = "free" THEN "none" ELSE "owed"]
    BY <1>3
  <2>. QED
    BY <1>3, <2>1, <2>2, <2>3 DEF Ledger!Change, Ledger!SyncNext
<1>4. ASSUME NEW d \in Client, status'[d] = status[d], since'[d] = since[d],
             UNCHANGED <<applied_gen, reported>>, d \in failedCalls' <=> d \in failedCalls
      PROVE  Wanted(d)' = Wanted(d) /\ Entry(d)' = Entry(d)
  <2>1. Wanted(d)' = Wanted(d)
    BY <1>4 DEF Wanted
  <2>2. since[d] \in Nat /\ applied_gen \in Nat
    BY <1>1 DEF TypeOK
  <2>. QED
    BY <1>2, <1>4, <2>1, <2>2 DEF EntryCases
<1>5. ASSUME NEW c \in Client, NEW s \in {"pending", "error"}, CommitOnly(c, s)
      PROVE  Ledger!SyncNext
  <2>1. /\ UNCHANGED <<since, conf, live, up, applied_gen, reported, failedCalls>>
        /\ status'[c] = s /\ \A d \in Client \ {c} : status'[d] = status[d]
    BY <1>1, <1>5 DEF CommitOnly, TypeOK, hubvars
  <2>2. Wanted(c)' = "free"
    BY <2>1 DEF Wanted
  <2>3. Entry(c)' = "none"
    BY <1>2, <2>2 DEF EntryCases
  <2>. QED
    BY <1>3, <1>4, <2>1, <2>2, <2>3
<1>6. ASSUME NEW a \in Caller, NEW c \in Client, NEW s, CommitAndAnnounce(a, c, s)
      PROVE  Ledger!SyncNext
  <2>1. UNCHANGED <<conf, live, up, applied_gen, reported, requested_gen>>
    BY <1>6 DEF CommitAndAnnounce, hubvars
  <2>2. CASE status[c] = s
    <3>1. UNCHANGED <<status, since>> /\ applied_gen <= applied_gen'
      BY <1>1, <1>6, <2>1, <2>2 DEF CommitAndAnnounce, TypeOK
    <3>. QED
      BY <3>1, WorkStep DEF Ledger!SyncNext
  <2>3. CASE status[c] # s
    <3>1. /\ since'[c] = requested_gen + 1 /\ c \notin failedCalls'
          /\ \A d \in Client \ {c} : /\ status'[d] = status[d] /\ since'[d] = since[d]
                                     /\ d \in failedCalls' <=> d \in failedCalls
      BY <1>1, <1>6, <2>3 DEF CommitAndAnnounce, TypeOK
    <3>2. since'[c] > applied_gen' /\ ~(since'[c] <= reported')
      BY <1>1, <2>1, <3>1
      DEF LedgerInv, HubInv, GenInv, GenBound, ReportedBound, TypeOK
    <3>3. Entry(c)' = IF Wanted(c)' = "free" THEN "none" ELSE "owed"
      BY <1>2, <3>1, <3>2 DEF EntryCases
    <3>. QED
      BY <1>3, <1>4, <2>1, <3>1, <3>3
  <2>. QED
    BY <2>2, <2>3
<1>. QED
  BY <1>5, <1>6
  DEF ClientStep, RegisterClient, ProvisionClientFailed, ReprovisionClient,
      RegisterManualClient, EnrollClient, ProvisionClientDone, DeleteClient

\* While the advisory lock is kept and remote writes are whole, HubReconfig
\* implements HubSync: every committed change is owed to the hub, settled there or
\* reported, never lost, and once it is done no later run, however stale, takes it
\* off wg0.conf or the interface again.
THEOREM LedgerIsKept == Reliable => (Spec => KeepsLedger)
<1>. SUFFICES ASSUME Reliable PROVE Spec => KeepsLedger
  OBVIOUS
<1>1. Init => Ledger!SyncInit
  <2>. SUFFICES ASSUME Init PROVE Ledger!SyncInit
    OBVIOUS
  <2>1. \A c \in Client : Wanted(c) = "free" /\ Entry(c) = "none"
    BY DEF Init, Wanted, Entry
  <2>. QED
    BY <2>1 DEF Init, Ledger!SyncInit
<1>2. LedgerInv /\ LedgerInv' /\ [Next]_vars => [Ledger!SyncNext]_(Ledger!syncvars)
  <2>. SUFFICES ASSUME LedgerInv, LedgerInv', [Next]_vars PROVE Ledger!SyncNext
    OBVIOUS
  <2>1. CASE ClientStep
    BY <2>1, ClientRowStep
  <2>2. CASE ~ClientStep
    <3>1. UNCHANGED <<status, since>>
      BY <2>2 DEF Next, CallerStep, Bump, Dispatch, ReprovisionServer, TaskStep,
           Acquire, Contended, Coalesce, Load, List, Lower, Write, Restart, Remote,
           Apply, ProvisionDone, Ack, MishapStep, CallerFails, TaskFails, TornWrite,
           EndInFailure, Crash, Redeliver, LoseLock, vars, dbvars
    <3>2. applied_gen <= applied_gen'
      BY AppliedStep DEF LedgerInv, HubInv, GenInv, TypeOK
    <3>. QED
      BY <3>1, <3>2, WorkStep DEF Ledger!SyncNext
  <2>. QED
    BY <2>1, <2>2
<1>3. Init => ReportedBound
  BY DEF Init, ReportedBound
<1>4. CoverInv /\ ReportedBound /\ [Next]_vars => ReportedBound'
  BY ReportedInductive
<1>. QED
  BY <1>1, <1>2, <1>3, <1>4, HubInvariant, CoverInvariant, LossIsReported, PTL
  DEF Spec, KeepsLedger, Ledger!SyncSpec, LedgerInv
=============================================================================
