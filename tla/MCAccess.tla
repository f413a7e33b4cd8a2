------------------------------ MODULE MCAccess ------------------------------
(* Small instances of Access for TLC. *)
EXTENDS Access, TLC

Symmetry == Permutations(Request) \cup Permutations(Server)

\* Blocks 1 and 2 make up 10.0.0.0/8.
Blocks       == {{1, 2, 3}, {1, 2}, {1}, {3}}
TenOverEight == {1, 2}

\* n events of each kind in E, none of the others.
Each(E, n) == [m \in Rare |-> IF m \in E THEN n ELSE 0]

AllOnce   == [Each(Rare, 1) EXCEPT !["request"] = 4, !["member"] = 2]
=============================================================================
