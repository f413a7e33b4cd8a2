----------------------------- MODULE Inventory ------------------------------
(***************************************************************************)
(* What is registered (SSH roles, hubs, clients) and what discovery found  *)
(* on the hubs. A pass loads the hub, asks it for its peers over SSH and   *)
(* then writes one transaction: refresh the rows it knew and still sees,   *)
(* insert the new ones, prune the rest. The hub, the tables and other      *)
(* passes change between the load, the answer and the commit.              *)
(*                                                                         *)
(* A table is a set of rows. Foreign keys and unique keys are the          *)
(* database's: a transaction that breaks one fails and changes nothing.    *)
(***************************************************************************)
EXTENDS Integers, FiniteSets

CONSTANTS
    Role,            \* SSH roles (SSHKey)
    Hub,             \* servers
    Spoke,           \* clients
    PublicKey,       \* WireGuard keys of peers, those of clients included
    KeyOf,           \* the key of each client
    Worker,          \* workers that run discovery
    RepeatableRead,  \* MySQL's default; FALSE: each statement sees the last commit
    Limit            \* bounds: how often each kind of event happens

ASSUME KeyOfAssumption == KeyOf \in [Spoke -> PublicKey]

VARIABLES
    db,      \* the committed tables
    locked,  \* tables an open restore has written
    live,    \* the peers of the WireGuard interface of each hub
    pass,    \* discovery passes
    calm,    \* ghost: what has happened to a hub since it last changed
    used     \* bounds: events so far

inventoryvars == <<db, locked, live, pass, calm, used>>

\* "off" is a ghost: the keys that were off the hub at some time since the load.
IdlePass == [at |-> "idle", hub |-> "none", rows |-> {}, clients |-> {}, kept |-> {},
             seen |-> {}, off |-> {}]

Kind == {"change", "pass", "fault", "dump", "restore"}

Spend(kind) ==
    /\ used[kind] < Limit[kind]
    /\ used' = [used EXCEPT ![kind] = @ + 1]

(***************************************************************************)
(* The tables                                                              *)
(***************************************************************************)

Rows ==
    [roles  |-> [role : Role],
     hubs   |-> [hub : Hub, role : Role],
     spokes |-> [spoke : Spoke, hub : Hub, role : Role],
     peers  |-> [hub : Hub, key : PublicKey, managed : BOOLEAN]]

Table == DOMAIN Rows

\* Parents before children.
ForeignKeys == [roles |-> {}, hubs |-> {"roles"}, spokes |-> {"roles", "hubs"}, peers |-> {"hubs"}]

SameKey(t, r, q) ==
    CASE t = "roles"  -> r.role = q.role
      [] t = "hubs"   -> r.hub = q.hub
      [] t = "spokes" -> r.spoke = q.spoke
      [] t = "peers"  -> r.hub = q.hub /\ r.key = q.key

RefersTo(t, r, parent, q) ==
    IF parent = "roles" THEN r.role = q.role ELSE r.hub = q.hub

Consistent(d) ==
    \A t \in Table :
        /\ \A r, q \in d[t] : SameKey(t, r, q) => r = q
        /\ \A r \in d[t], parent \in ForeignKeys[t] : \E q \in d[parent] : RefersTo(t, r, parent, q)

\* A row lock reaches the tables that refer to the row and those it refers to.
Reach(t) == {t} \cup ForeignKeys[t] \cup {c \in Table : t \in ForeignKeys[c]}

\* A transaction of one request: refused when it breaks a key, and waiting
\* while a restore holds rows it needs.
Commit(d) ==
    /\ Consistent(d)
    /\ \A t \in Table : d[t] # db[t] => Reach(t) \cap locked = {}
    /\ db' = d

Registered(h) == \E r \in db.hubs : r.hub = h
PeersOf(h)    == {r \in db.peers : r.hub = h}
SpokesOf(h)   == {r \in db.spokes : r.hub = h}
KeysOf(rows)  == {r.key : r \in rows}
ClientKeys(h) == {KeyOf[r.spoke] : r \in SpokesOf(h)}

InventoryTypeOK ==
    /\ \A t \in Table : db[t] \subseteq Rows[t]
    /\ locked \subseteq Table
    /\ live \in [Hub -> SUBSET PublicKey]
    /\ \A w \in Worker :
         /\ pass[w].at \in {"idle", "dump", "save"}
         /\ pass[w].at # "idle" => pass[w].hub \in Hub
         /\ pass[w].seen \subseteq PublicKey /\ pass[w].kept \subseteq pass[w].rows
    /\ calm \in [Hub -> {"changed", "quiet", "passed"}]
    /\ used \in [Kind -> Nat]

InventoryInit ==
    /\ \E k \in Role :
         db = [roles |-> {[role |-> k]}, hubs |-> {[hub |-> h, role |-> k] : h \in Hub},
               spokes |-> {}, peers |-> {}]
    /\ locked = {}
    /\ live = [h \in Hub |-> {}]
    /\ pass = [w \in Worker |-> IdlePass]
    /\ calm = [h \in Hub |-> "changed"]
    /\ used = [k \in Kind |-> 0]

(***************************************************************************)
(* The routers                                                             *)
(***************************************************************************)

Changed(h) == calm' = [calm EXCEPT ![h] = "changed"]

\* create_ssh_key: the name is free.
CreateRole(k) ==
    /\ [role |-> k] \notin db.roles
    /\ Commit([db EXCEPT !.roles = @ \cup {[role |-> k]}])
    /\ Spend("change") /\ UNCHANGED <<locked, live, pass, calm>>

\* delete_ssh_key: 409 while a server or client refers to it.
DeleteRole(k) ==
    /\ [role |-> k] \in db.roles
    /\ \A r \in db.hubs \cup db.spokes : r.role # k
    /\ Commit([db EXCEPT !.roles = @ \ {[role |-> k]}])
    /\ Spend("change") /\ UNCHANGED <<locked, live, pass, calm>>

RegisterHub(h, k) ==
    /\ ~Registered(h)
    /\ Commit([db EXCEPT !.hubs = @ \cup {[hub |-> h, role |-> k]}])
    /\ Changed(h) /\ Spend("change") /\ UNCHANGED <<locked, live, pass>>

RegisterSpoke(c, h, k) ==
    /\ \A r \in db.spokes : r.spoke # c
    /\ Commit([db EXCEPT !.spokes = @ \cup {[spoke |-> c, hub |-> h, role |-> k]}])
    /\ Changed(h) /\ Spend("change") /\ UNCHANGED <<locked, live, pass>>

\* update_server, update_client: the field other rows depend on is ssh_key_id.
UpdateHub(h, k) ==
    /\ Registered(h) /\ [hub |-> h, role |-> k] \notin db.hubs
    /\ Commit([db EXCEPT !.hubs = {r \in @ : r.hub # h} \cup {[hub |-> h, role |-> k]}])
    /\ Spend("change") /\ UNCHANGED <<locked, live, pass, calm>>

UpdateSpoke(r, k) ==
    /\ r.role # k
    /\ Commit([db EXCEPT !.spokes = (@ \ {r}) \cup {[r EXCEPT !.role = k]}])
    /\ Spend("change") /\ UNCHANGED <<locked, live, pass, calm>>

DeleteSpoke(r) ==
    /\ Commit([db EXCEPT !.spokes = @ \ {r}])
    /\ Changed(r.hub) /\ Spend("change") /\ UNCHANGED <<locked, live, pass>>

\* A row that a pass loaded and somebody deletes is no longer there to update.
Gone(p, rows) == [p EXCEPT !.kept = {r \in @ : \A q \in rows : ~SameKey("peers", r, q)}]

\* delete_server: with force the clients and the discovered peers go too; without,
\* clients are a 409 and discovered peers a foreign key error.
DeleteHub(h, force) ==
    /\ Registered(h)
    /\ SpokesOf(h) = {} \/ force
    /\ Commit([db EXCEPT !.hubs   = {r \in @ : r.hub # h},
                         !.spokes = @ \ SpokesOf(h),
                         !.peers  = IF force THEN @ \ PeersOf(h) ELSE @])
    /\ pass' = [w \in Worker |-> Gone(pass[w], PeersOf(h))]
    /\ Changed(h) /\ Spend("change") /\ UNCHANGED <<locked, live>>

\* A reconfigure, or somebody on the host, changes the interface.
HubChanges(h, keys) ==
    /\ keys # live[h]
    /\ live' = [live EXCEPT ![h] = keys]
    /\ pass' = [w \in Worker |->
                  IF pass[w].hub = h THEN [pass[w] EXCEPT !.off = @ \cup (PublicKey \ keys)]
                  ELSE pass[w]]
    /\ Changed(h) /\ Spend("change") /\ UNCHANGED <<db, locked>>

(***************************************************************************)
(* discover_peers_task                                                     *)
(***************************************************************************)

\* session.get(Server): the transaction's snapshot is of this moment.
LoadHub(w, h) ==
    /\ pass[w] = IdlePass /\ Registered(h)
    /\ pass' = [pass EXCEPT ![w] =
                  [at |-> "dump", hub |-> h, rows |-> PeersOf(h), clients |-> ClientKeys(h),
                   kept |-> PeersOf(h), seen |-> {}, off |-> PublicKey \ live[h]]]
    /\ calm' = [calm EXCEPT ![h] = IF @ = "changed" /\ \A v \in Worker : pass[v].hub # h
                                   THEN "quiet" ELSE @]
    /\ Spend("pass") /\ UNCHANGED <<db, locked, live>>

\* wg show <interface> dump, without its first line.
ShowDump(w) ==
    /\ pass[w].at = "dump"
    /\ pass' = [pass EXCEPT ![w].at = "save", ![w].seen = live[pass[w].hub]]
    /\ UNCHANGED <<db, locked, live, calm, used>>

\* Mutant: an unreachable hub is taken for one without peers.
NoPeersSeen(w) ==
    /\ pass[w].at = "dump"
    /\ pass' = [pass EXCEPT ![w].at = "save"]
    /\ Spend("fault") /\ UNCHANGED <<db, locked, live, calm>>

\* An SSH error is logged, and the pass returns without a write.
SSHFailed(w) ==
    /\ pass[w].at = "dump"
    /\ pass' = [pass EXCEPT ![w] = IdlePass]
    /\ Spend("fault") /\ UNCHANGED <<db, locked, live, calm>>

\* Mutant: peers that are gone from the hub linger.
NoneStale(rows, seen) == {}

Stale(rows, seen) == {r \in rows : r.key \notin seen}

\* What the pass reads: its snapshot, or the last commit.
View(p) ==
    IF RepeatableRead THEN [rows |-> p.rows, kept |-> p.kept, clients |-> p.clients]
    ELSE [rows |-> PeersOf(p.hub), kept |-> PeersOf(p.hub), clients |-> ClientKeys(p.hub)]

\* The peers table once the pass has refreshed, inserted and pruned.
Upsert(p, view) ==
    LET stale == Stale(view.rows, p.seen)
        saved == {[hub |-> p.hub, key |-> k, managed |-> k \in view.clients] : k \in p.seen}
    IN  {r \in db.peers : /\ \A q \in stale : ~SameKey("peers", r, q)
                          /\ \A q \in saved : ~SameKey("peers", r, q)} \cup saved

\* An insert of a key another pass has inserted, an update of a row that is
\* gone, and an insert for a hub that is gone fail the task.
Writable(p, view) ==
    /\ p.seen \cap KeysOf(view.rows) \subseteq KeysOf(view.kept)
    /\ (p.seen \ KeysOf(view.rows)) \cap KeysOf(PeersOf(p.hub)) = {}
    /\ p.seen # {} => Registered(p.hub)

SavePeers(w) ==
    LET p    == pass[w]
        view == View(p)
    IN  /\ p.at = "save" /\ Writable(p, view)
        /\ Commit([db EXCEPT !.peers = Upsert(p, view)])
        /\ pass' = [v \in Worker |-> IF v = w THEN IdlePass
                                     ELSE Gone(pass[v], Stale(view.rows, p.seen))]
        /\ calm' = [calm EXCEPT ![p.hub] = IF @ = "quiet" THEN "passed" ELSE @]
        /\ UNCHANGED <<locked, live, used>>

\* The task fails, and its transaction is rolled back.
SaveFails(w) ==
    /\ pass[w].at = "save" /\ ~Writable(pass[w], View(pass[w]))
    /\ pass' = [pass EXCEPT ![w] = IdlePass]
    /\ UNCHANGED <<db, locked, live, calm, used>>

InventoryNext ==
    \/ \E k \in Role : CreateRole(k) \/ DeleteRole(k)
    \/ \E h \in Hub :
         \/ \E k \in Role :
              \/ RegisterHub(h, k) \/ UpdateHub(h, k)
              \/ \E c \in Spoke : RegisterSpoke(c, h, k)
         \/ DeleteHub(h, TRUE) \/ DeleteHub(h, FALSE)
         \/ \E keys \in SUBSET PublicKey : HubChanges(h, keys)
         \/ \E w \in Worker : LoadHub(w, h)
    \/ \E r \in db.spokes : DeleteSpoke(r) \/ \E k \in Role : UpdateSpoke(r, k)
    \/ \E w \in Worker : ShowDump(w) \/ SSHFailed(w) \/ SavePeers(w) \/ SaveFails(w)

(***************************************************************************)
(* Properties                                                              *)
(***************************************************************************)

\* "Two workers racing the same server_id converge to the same row set": once a
\* hub and its clients have stopped changing, passes that began after that, in
\* any number and overlap, leave one row per peer of the hub, each with the
\* right flag, as soon as one of them has succeeded.
PassesConverge ==
    \A h \in Hub :
        calm[h] = "passed" =>
            PeersOf(h) = {[hub |-> h, key |-> k, managed |-> k \in ClientKeys(h)] : k \in live[h]}

\* "An SSH failure ... never wipes the known peer set": a pass prunes a row only
\* when the peer was off the hub at some time since the pass began.
PruneOnlyTheGone ==
    [][\A w \in Worker :
         pass[w].at = "save" /\ pass'[w].at = "idle" =>
             \A r \in PeersOf(pass[w].hub) :
                 r.key \notin {q.key : q \in {x \in db'.peers : x.hub = r.hub}} =>
                     r.key \in pass[w].off]_inventoryvars
=============================================================================
