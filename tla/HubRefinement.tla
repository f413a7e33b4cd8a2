--------------------------- MODULE HubRefinement ----------------------------
(* HubReconfig implements HubSync. *)
EXTENDS HubReconfig

Wanted(c) ==
    CASE status[c] = "ready"   -> "in"
      [] status[c] = "deleted" -> "out"
      [] OTHER                 -> "free"

\* "lost" is no entry of HubSync: a change nobody answers for breaks it.
Entry(c) ==
    CASE Wanted(c) = "free"                                              -> "none"
      [] Wanted(c) # "free" /\ since[c] <= applied_gen                   -> "done"
      [] Wanted(c) # "free" /\ since[c] > applied_gen /\
         (since[c] <= reported \/ c \in failedCalls)                     -> "told"
      [] OTHER                     -> IF Accounted(c) THEN "owed" ELSE "lost"

Ledger == INSTANCE HubSync WITH
    want   <- [c \in Client |-> Wanted(c)],
    ledger <- [c \in Client |-> Entry(c)],
    views  <- {conf} \cup (IF up THEN {live} ELSE {})

\* The machinery of generations, coalescing, retries and redelivery keeps the
\* ledger: every committed change is owed, settled or reported, never lost, and
\* once it is done no later run, however stale, takes it off the hub again.
KeepsLedger == Ledger!SyncSpec
=============================================================================
