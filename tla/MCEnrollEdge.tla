---------------------------- MODULE MCEnrollEdge ----------------------------
(* A small instance of EnrollEdge for TLC. *)
EXTENDS EnrollEdge, TLC

\* A header that names the client, and the start of TLS.
NamedHeaders == [a \in Caller |-> {<<"P", "R", a, "CR", "LF", "h">>}]

\* Connections are alike, and so are clients.
Symmetry == Permutations(Conn) \cup Permutations(Caller)
=============================================================================
