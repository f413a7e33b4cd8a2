------------------------------ MODULE HubSync -------------------------------
(***************************************************************************)
(* What the hub's machinery promises, without generations, messages, locks *)
(* or retries: a ledger with one entry per client. A committed change is   *)
(* owed to the hub until it is done there or somebody was told that it is  *)
(* not, and what is done stays on every copy of the peer list until the    *)
(* next change of that client.                                             *)
(***************************************************************************)
CONSTANTS Client

VARIABLES
    want,    \* must the client be a peer: in, out, or free (not decided)
    ledger,  \* the latest change of each client: none, owed, told or done
    views    \* the peer lists of the hub: the file, and the interface when up

syncvars == <<want, ledger, views>>

\* A peer list agrees with what is done.
Shows(peers, w, l) ==
    \A c \in Client : l[c] = "done" =>
        /\ w[c] = "in"  => c \in peers
        /\ w[c] = "out" => c \notin peers

SyncInit ==
    /\ want = [c \in Client |-> "free"]
    /\ ledger = [c \in Client |-> "none"]
    /\ views \in SUBSET SUBSET Client

\* A client row is committed.
Change(c) ==
    /\ \E w \in {"in", "out", "free"} : want' = [want EXCEPT ![c] = w]
    /\ ledger' = [ledger EXCEPT ![c] = IF want'[c] = "free" THEN "none" ELSE "owed"]
    /\ UNCHANGED views

Progress == [none |-> {"none"}, owed |-> {"owed", "told", "done"},
             told |-> {"told", "owed", "done"}, done |-> {"done"}]

\* The hub is rewritten, entries are settled or a failure is reported: any of
\* these at once, but no copy may ever disagree with an entry that is done.
Work ==
    /\ UNCHANGED want
    /\ views' \in SUBSET SUBSET Client
    /\ ledger' \in [Client -> {"none", "owed", "told", "done"}]
    /\ \A c \in Client : ledger'[c] \in Progress[ledger[c]]
    /\ \A peers \in views' : Shows(peers, want', ledger')

SyncNext == Work \/ \E c \in Client : Change(c)

SyncSpec == SyncInit /\ [][SyncNext]_syncvars
=============================================================================
