--------------------------- MODULE MCHubReconfig ---------------------------
(* Small instances of HubReconfig for TLC. *)
EXTENDS HubRefinement, TLC

\* Messages and callers are interchangeable; clients are not (Manual).
Symmetry == Permutations(Task) \cup Permutations(Caller)

\* Exactly the events of E happen, once each.
Once(E) == [m \in Rare |-> IF m \in E THEN 1 ELSE 0]

FaultyHub        == Once({"fault", "reprovision", "redeliver"})
UnreliableLock   == Once({"crash", "lockloss", "torn"})
=============================================================================
