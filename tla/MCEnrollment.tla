---------------------------- MODULE MCEnrollment ----------------------------
(* Small instances of Enrollment for TLC. *)
EXTENDS Enrollment

\* Every token admits two hosts: a redemption can find one use taken and another
\* one on its way.
TwoEach == [k \in Token |-> 2]
=============================================================================
