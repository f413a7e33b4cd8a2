------------------------------ MODULE MCBackup ------------------------------
(* A small instance of Inventory and Backup for TLC. *)
EXTENDS Backup, TLC

CONSTANTS r1, r2, h1, s1, k1, k2, w1, w2

SpokeKey == s1 :> k1

EachLimit ==
    [change |-> 2, pass |-> 2, fault |-> 1, dump |-> 1, restore |-> 1]

\* A file from before the discovered peers were dumped.
Version1 ==
    [rows |-> [NoTables EXCEPT !.roles = {[role |-> r2]}, !.hubs = {[hub |-> h1, role |-> r2]}],
     tables |-> {"roles", "hubs", "spokes"}, encrypted |-> FALSE, whole |-> TRUE]

\* Workers are alike.
Symmetry == Permutations(Worker)
=============================================================================
