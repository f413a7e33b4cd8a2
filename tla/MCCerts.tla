------------------------------ MODULE MCCerts -------------------------------
(* Small instances of Certs for TLC. *)
EXTENDS Certs, TLC

\* n events of each kind in E, none of the others.
Each(E, n) == [m \in Rare |-> IF m \in E THEN n ELSE 0]

ApiSymmetry == Permutations(Api)

Mishaps     == [Each(Rare, 1) EXCEPT !["revoke"] = 2]
=============================================================================
