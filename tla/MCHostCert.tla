----------------------------- MODULE MCHostCert -----------------------------
(* Small instances of HostCert for TLC. *)
EXTENDS HostCert, TLC

Symmetry == Permutations(Task) \cup Permutations(Name)

\* n events of each kind in E, none of the others.
Each(E, n) == [m \in Rare |-> IF m \in E THEN n ELSE 0]

MishapsAndBootstrap == [Each({"bootstrap", "crash"}, 1) EXCEPT !["fault"] = 2]
CalmRenames       == [Each({"rename"}, 2) EXCEPT !["request"] = 2]
=============================================================================
