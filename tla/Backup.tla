------------------------------- MODULE Backup -------------------------------
(***************************************************************************)
(* db backup and db restore, beside the API and the workers. The dump is   *)
(* one SELECT per table on one connection, parents first, and a file; the  *)
(* restore is one transaction that may empty the tables, children first,   *)
(* and fills them, parents first. The database goes on changing during     *)
(* both, and either may be cut off.                                        *)
(***************************************************************************)
EXTENDS Inventory, Sequences

CONSTANTS
    OldFile   \* a version 1 file: sshkey, server and client only

VARIABLES
    dump,     \* db backup: the next table, its transaction's snapshot and the rows read
    file,     \* the newest backup file
    restore   \* db restore: its step, --drop-existing, the file read and what it has written

backupvars == <<inventoryvars, dump, file, restore>>

\* Mutant: a child before its parent.
AlphabeticalTables == <<"hubs", "peers", "roles", "spokes">>

\* SQLModel.metadata.sorted_tables: parents before children.
SortedTables == <<"roles", "hubs", "spokes", "peers">>
First == 1
Last  == Len(SortedTables)

NoTables  == [t \in Table |-> {}]
NoDump    == [next |-> 0, snap |-> NoTables, rows |-> NoTables]
NoFile    == [rows |-> NoTables, tables |-> {}, encrypted |-> FALSE, whole |-> FALSE]
NoRestore == [at |-> "idle", table |-> 0, drop |-> FALSE, source |-> NoFile, work |-> NoTables]

\* A file: its tables, whether it is an envelope and whether it is complete JSON.
NewFile(rows, encrypted, whole) ==
    [rows |-> rows, tables |-> Table, encrypted |-> encrypted, whole |-> whole]

ASSUME OldFileAssumption ==
    /\ OldFile.tables = {"roles", "hubs", "spokes"} /\ ~OldFile.encrypted /\ OldFile.whole
    /\ OldFile.rows.peers = {} /\ Consistent(OldFile.rows)
    /\ \A t \in Table : OldFile.rows[t] \subseteq Rows[t]

BackupTypeOK ==
    /\ InventoryTypeOK
    /\ dump.next \in 0 .. Last
    /\ \A t \in Table : dump.rows[t] \subseteq Rows[t] /\ restore.work[t] \subseteq Rows[t]
    /\ restore.at \in {"idle", "count", "delete", "insert"}
    /\ restore.table \in 0 .. Last + 1

BackupInit ==
    /\ InventoryInit
    /\ dump = NoDump /\ file = OldFile /\ restore = NoRestore

(***************************************************************************)
(* db backup                                                               *)
(***************************************************************************)

BeginDump ==
    /\ dump = NoDump
    /\ dump' = [next |-> First, snap |-> db, rows |-> NoTables]
    /\ Spend("dump")
    /\ UNCHANGED <<db, locked, live, pass, calm, file, restore>>

\* The rows a SELECT sees. BeginDump and the first SELECT are one moment.
Selected(t) == IF RepeatableRead THEN dump.snap[t] ELSE db[t]

\* The last table ends the transaction, and the file is written: as JSON or in
\* an envelope, and cut short when the process dies or the disk is full.
SelectTable ==
    LET t    == SortedTables[dump.next]
        rows == [dump.rows EXCEPT ![t] = Selected(t)]
    IN  /\ dump.next >= First
        /\ \/ /\ dump.next < Last
              /\ dump' = [dump EXCEPT !.next = @ + 1, !.rows = rows]
              /\ UNCHANGED <<file, used>>
           \/ /\ dump.next = Last
              /\ dump' = NoDump
              /\ \E encrypted, whole \in BOOLEAN :
                   /\ file' = NewFile(rows, encrypted, whole)
                   /\ IF whole THEN UNCHANGED used ELSE Spend("fault")
        /\ UNCHANGED <<db, locked, live, pass, calm, restore>>

(***************************************************************************)
(* db restore                                                              *)
(***************************************************************************)

\* What the open transaction sees: its own writes over the last commit.
Seen == [t \in Table |-> IF t \in locked THEN restore.work[t] ELSE db[t]]

\* A broken file, a wrong --decrypt and an unknown version end the command here.
BeginRestore(drop, decrypt) ==
    /\ restore = NoRestore
    /\ file.whole /\ file.encrypted = decrypt
    /\ restore' = [NoRestore EXCEPT !.at = "count", !.drop = drop, !.source = file]
    /\ Spend("restore")
    /\ UNCHANGED <<db, locked, live, pass, calm, dump, file>>

Rollback ==
    /\ restore' = NoRestore /\ locked' = {}
    /\ UNCHANGED <<db, live, pass, calm, used, dump, file>>

\* Refuse to clobber unless --drop-existing.
CountRows ==
    /\ restore.at = "count"
    /\ IF restore.drop \/ \A t \in restore.source.tables : db[t] = {}
       THEN /\ restore' = IF restore.drop THEN [restore EXCEPT !.at = "delete", !.table = Last]
                          ELSE [restore EXCEPT !.at = "insert", !.table = First]
            /\ UNCHANGED <<inventoryvars, dump, file>>
       ELSE Rollback

Advance(next) == [next EXCEPT !.table = IF restore.at = "delete" THEN @ - 1 ELSE @ + 1]

\* Mutant: each statement is a transaction of its own.
WriteAtOnce(t, rows) ==
    /\ db' = [db EXCEPT ![t] = rows] /\ UNCHANGED locked
    /\ restore' = Advance(restore)

\* A statement of the open transaction.
Write(t, rows) ==
    /\ UNCHANGED db /\ locked' = locked \cup {t}
    /\ restore' = Advance([restore EXCEPT !.work[t] = rows])

\* The table is not in the file, or has no rows to insert.
PassOver ==
    /\ UNCHANGED <<db, locked>>
    /\ restore' = Advance(restore)

\* A row that is still referred to cannot be deleted.
Deletable(t) == Consistent([Seen EXCEPT ![t] = {}])

\* A key that is taken, or a parent that is missing, refuses the insert.
Insertable(t) ==
    /\ \A r \in restore.source.rows[t], q \in Seen[t] : ~SameKey(t, r, q)
    /\ Consistent([Seen EXCEPT ![t] = @ \cup restore.source.rows[t]])

DeleteTable ==
    LET t == SortedTables[restore.table]
    IN  /\ restore.at = "delete" /\ restore.table >= First
        /\ \/ t \notin restore.source.tables /\ PassOver
           \/ t \in restore.source.tables /\ Deletable(t) /\ Write(t, {})
        /\ UNCHANGED <<live, pass, calm, used, dump, file>>

DeletesDone ==
    /\ restore.at = "delete" /\ restore.table < First
    /\ restore' = [restore EXCEPT !.at = "insert", !.table = First]
    /\ UNCHANGED <<inventoryvars, dump, file>>

InsertTable ==
    LET t    == SortedTables[restore.table]
        rows == restore.source.rows[t]
    IN  /\ restore.at = "insert" /\ restore.table <= Last
        /\ \/ rows = {} /\ PassOver
           \/ rows # {} /\ Insertable(t) /\ Write(t, Seen[t] \cup rows)
        /\ UNCHANGED <<live, pass, calm, used, dump, file>>

\* The statement is refused: the transaction ends and nothing of it stays.
StatementRefused ==
    LET t == SortedTables[restore.table]
    IN  /\ restore.at \in {"delete", "insert"} /\ restore.table \in First .. Last
        /\ t \in restore.source.tables
        /\ IF restore.at = "delete" THEN ~Deletable(t) ELSE ~Insertable(t)
        /\ Rollback

\* The command is killed, or loses a deadlock or its connection.
RestoreCut ==
    /\ restore # NoRestore
    /\ restore' = NoRestore /\ locked' = {}
    /\ Spend("fault")
    /\ UNCHANGED <<db, live, pass, calm, dump, file>>

\* Rows come back under their own ids, so a pass that loaded one still has it.
CommitRestore ==
    /\ restore.at = "insert" /\ restore.table > Last
    /\ db' = Seen /\ locked' = {} /\ restore' = NoRestore
    /\ pass' = [w \in Worker |->
                  [pass[w] EXCEPT !.kept = {r \in @ : \E q \in Seen.peers : SameKey("peers", r, q)}]]
    /\ calm' = [h \in Hub |-> "changed"]
    /\ UNCHANGED <<live, used, dump, file>>

BackupNext ==
    \/ InventoryNext /\ UNCHANGED <<dump, file, restore>>
    \/ BeginDump \/ SelectTable
    \/ \E drop, decrypt \in BOOLEAN : BeginRestore(drop, decrypt)
    \/ CountRows \/ DeleteTable \/ DeletesDone \/ InsertTable
    \/ StatementRefused \/ RestoreCut \/ CommitRestore

BackupSpec == BackupInit /\ [][BackupNext]_backupvars

(***************************************************************************)
(* Properties                                                              *)
(***************************************************************************)

\* A backup is worth having: whatever was written while it was taken, and
\* whatever the tables hold now, --drop-existing can delete every table and
\* insert every row of it, in the order the restore does.
DumpCanBeRestored ==
    restore.drop /\ restore.source.tables = Table /\ restore.table \in First .. Last =>
        IF restore.at = "delete" THEN Deletable(SortedTables[restore.table])
        ELSE restore.at = "insert" => Insertable(SortedTables[restore.table])

\* "A failure part-way rolls back to the pre-restore state instead of leaving a
\* half-restored database": a step of a restore that changes the database puts
\* the whole file there, and with --drop-existing nothing else in its tables.
AllOrNothing ==
    [][restore' # restore /\ db' # db =>
         \A t \in restore.source.tables :
             /\ restore.source.rows[t] \subseteq db'[t]
             /\ restore.drop => db'[t] = restore.source.rows[t]]_backupvars
=============================================================================
