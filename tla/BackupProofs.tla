---------------------------- MODULE BackupProofs ----------------------------
(***************************************************************************)
(* Theorems about Inventory and Backup, for any roles, hubs, clients, keys *)
(* and workers and any bounds.                                             *)
(*                                                                         *)
(* BackupInv holds the types and what makes a backup fit to be restored:   *)
(* the tables obey their keys, the tables read so far are those of one     *)
(* moment, a file obeys the keys by itself, and what the restoring         *)
(* transaction sees (its own tables beside what others commit) does so     *)
(* after every statement.  OffInv adds what a pass knows of the peers that *)
(* were off its hub, SettledInv what passes know of a hub that has stopped *)
(* changing.                                                               *)
(***************************************************************************)
EXTENDS Backup, TLAPS

-----------------------------------------------------------------------------
(* Tables and sets of tables *)

LEMMA TableIs == Table = {"roles", "hubs", "spokes", "peers"}
BY DEF Table, Rows

LEMMA Order ==
    /\ First = 1 /\ Last = 4
    /\ SortedTables[1] = "roles" /\ SortedTables[2] = "hubs"
    /\ SortedTables[3] = "spokes" /\ SortedTables[4] = "peers"
BY DEF First, Last, SortedTables

\* d is a function on the tables.
Tables(d) == d = [t \in Table |-> d[t]]

\* d holds rows of the right kind.
Typed(d) == \A t \in Table : d[t] \subseteq Rows[t]

\* A table is replaced, the others stay.
LEMMA Replace ==
    ASSUME NEW d, Tables(d), NEW t \in Table, NEW X
    PROVE  /\ Tables([d EXCEPT ![t] = X])
           /\ [d EXCEPT ![t] = X][t] = X
           /\ \A u \in Table : u # t => [d EXCEPT ![t] = X][u] = d[u]
BY DEF Tables

LEMMA Empty ==
    /\ Tables(NoTables) /\ Typed(NoTables) /\ Consistent(NoTables)
    /\ \A t \in Table : NoTables[t] = {}
<1>1. \A t \in Table : NoTables[t] = {}
  BY DEF NoTables
<1>2. \A t \in Table : ForeignKeys[t] \subseteq Table
  BY TableIs DEF ForeignKeys
<1>3. Tables(NoTables)
  BY <1>1 DEF NoTables, Tables
<1> QED
  BY <1>1, <1>2, <1>3 DEF Typed, Consistent

LEMMA Parents ==
    /\ ForeignKeys["roles"] = {} /\ ForeignKeys["hubs"] = {"roles"}
    /\ ForeignKeys["spokes"] = {"roles", "hubs"} /\ ForeignKeys["peers"] = {"hubs"}
    /\ \A t \in Table : ForeignKeys[t] \subseteq Table
BY TableIs DEF ForeignKeys

-----------------------------------------------------------------------------
(* What the requests and the discovery passes do to the tables *)

Pass == [at : {"idle", "dump", "save"}, hub : Hub \cup {"none"}, rows : SUBSET Rows.peers,
         clients : SUBSET PublicKey, kept : SUBSET Rows.peers, seen : SUBSET PublicKey,
         off : SUBSET PublicKey]

\* A pass that is under way has a hub, and only rows of that hub.
PassOK(p) ==
    /\ p \in Pass
    /\ p.at # "idle" => p.hub \in Hub
    /\ p.kept \subseteq p.rows
    /\ \A r \in p.rows : r.hub = p.hub

TablesOK == Tables(db) /\ Typed(db) /\ Consistent(db)

RestOK ==
    /\ live \in [Hub -> SUBSET PublicKey]
    /\ calm \in [Hub -> {"changed", "quiet", "passed"}]
    /\ used \in [Kind -> Nat]

PassesOK == pass = [w \in Worker |-> pass[w]] /\ \A w \in Worker : PassOK(pass[w])

InventoryOK == TablesOK /\ PassesOK /\ RestOK

\* What every request, and every step of a pass, does to the tables.
Respects ==
    /\ TablesOK'
    /\ \A t \in Table : db'[t] # db[t] => Reach(t) \cap locked = {}
    /\ locked' = locked

LEMMA RowKinds ==
    /\ Rows["roles"] = [role : Role] /\ Rows["hubs"] = [hub : Hub, role : Role]
    /\ Rows["spokes"] = [spoke : Spoke, hub : Hub, role : Role]
    /\ Rows["peers"] = [hub : Hub, key : PublicKey, managed : BOOLEAN]
BY DEF Rows

\* A request replaces one table.
LEMMA OneTable ==
    ASSUME TablesOK, NEW t \in Table, NEW X, X \subseteq Rows[t],
           Commit([db EXCEPT ![t] = X]), locked' = locked
    PROVE  /\ Respects /\ db'[t] = X
           /\ \A u \in Table : u # t => db'[u] = db[u]
<1> DEFINE d == [db EXCEPT ![t] = X]
<1>1. Tables(d) /\ d[t] = X /\ \A u \in Table : u # t => d[u] = db[u]
  BY Replace DEF TablesOK
<1>2. Typed(d)
  BY <1>1 DEF TablesOK, Typed
<1>3. /\ db' = d /\ Consistent(d)
      /\ \A u \in Table : d[u] # db[u] => Reach(u) \cap locked = {}
  BY DEF Commit
<1> HIDE DEF d
<1>4. Tables(db') /\ Typed(db') /\ Consistent(db')
  BY <1>1, <1>2, <1>3
<1>5. TablesOK'
  BY <1>4 DEF TablesOK, Tables, Typed, Consistent
<1> QED
  BY <1>1, <1>3, <1>5 DEF Respects

LEMMA NoTable ==
    ASSUME TablesOK, UNCHANGED <<db, locked>>
    PROVE  Respects
BY DEF TablesOK, Tables, Typed, Consistent, Respects

LEMMA ViewOK ==
    ASSUME InventoryOK, NEW w \in Worker, NEW v, v = View(pass[w])
    PROVE  /\ v.rows \subseteq Rows.peers
           /\ \A r \in v.rows : r.hub = pass[w].hub
<1>1. PassOK(pass[w]) /\ db.peers \subseteq Rows.peers
  BY TableIs DEF InventoryOK, PassesOK, TablesOK, Typed
<1>2. CASE RepeatableRead
  <2>1. v.rows = pass[w].rows
    BY <1>2 DEF View
  <2> QED
    BY <2>1, <1>1 DEF PassOK, Pass
<1>3. CASE ~RepeatableRead
  <2>1. v.rows = PeersOf(pass[w].hub)
    BY <1>3 DEF View
  <2> QED
    BY <2>1, <1>1 DEF PeersOf
<1> QED
  BY <1>2, <1>3

LEMMA UpsertOK ==
    ASSUME InventoryOK, NEW w \in Worker, pass[w].at = "save", NEW v
    PROVE  Upsert(pass[w], v) \subseteq Rows.peers
<1>1. PassOK(pass[w]) /\ db.peers \subseteq Rows.peers
  BY TableIs DEF InventoryOK, PassesOK, TablesOK, Typed
<1>2. pass[w].hub \in Hub /\ pass[w].seen \subseteq PublicKey
  BY <1>1 DEF PassOK, Pass
<1>3. \A k \in pass[w].seen :
        [hub |-> pass[w].hub, key |-> k, managed |-> k \in v.clients] \in Rows.peers
  <2>1. TAKE k \in pass[w].seen
  <2>2. \A b \in BOOLEAN : [hub |-> pass[w].hub, key |-> k, managed |-> b] \in Rows.peers
    BY <1>2, RowKinds
  <2>3. (k \in v.clients) = TRUE \/ (k \in v.clients) = FALSE
    OBVIOUS
  <2>4. (k \in v.clients) \in {TRUE, FALSE}
    BY <2>3, Zenon
  <2> QED
    BY <2>2, <2>4, Zenon
<1> QED
  BY <1>1, <1>3 DEF Upsert

LEMMA RequestsRespect ==
    ASSUME InventoryOK, InventoryNext
    PROVE  Respects
<1>0. /\ TablesOK /\ Table = {"roles", "hubs", "spokes", "peers"}
      /\ db.roles \subseteq Rows.roles /\ db.hubs \subseteq Rows.hubs
      /\ db.spokes \subseteq Rows.spokes /\ db.peers \subseteq Rows.peers
  BY TableIs DEF InventoryOK, TablesOK, Typed
<1>1. ASSUME NEW k \in Role, CreateRole(k) PROVE Respects
  <2>1. db.roles \cup {[role |-> k]} \subseteq Rows.roles
    BY <1>0, RowKinds
  <2> QED
    BY <1>0, <1>1, <2>1, OneTable DEF CreateRole
<1>2. ASSUME NEW k \in Role, DeleteRole(k) PROVE Respects
  <2>1. db.roles \ {[role |-> k]} \subseteq Rows.roles
    BY <1>0, RowKinds
  <2> QED
    BY <1>0, <1>2, <2>1, OneTable DEF DeleteRole
<1>3. ASSUME NEW h \in Hub, NEW k \in Role, RegisterHub(h, k) PROVE Respects
  <2>1. db.hubs \cup {[hub |-> h, role |-> k]} \subseteq Rows.hubs
    BY <1>0, RowKinds
  <2> QED
    BY <1>0, <1>3, <2>1, OneTable DEF RegisterHub
<1>4. ASSUME NEW h \in Hub, NEW k \in Role, UpdateHub(h, k) PROVE Respects
  <2>1. {r \in db.hubs : r.hub # h} \cup {[hub |-> h, role |-> k]} \subseteq Rows.hubs
    BY <1>0, RowKinds
  <2> QED
    BY <1>0, <1>4, <2>1, OneTable DEF UpdateHub
<1>5. ASSUME NEW h \in Hub, NEW k \in Role, NEW c \in Spoke, RegisterSpoke(c, h, k)
      PROVE Respects
  <2>1. db.spokes \cup {[spoke |-> c, hub |-> h, role |-> k]} \subseteq Rows.spokes
    BY <1>0, RowKinds
  <2> QED
    BY <1>0, <1>5, <2>1, OneTable DEF RegisterSpoke
<1>6. ASSUME NEW r \in db.spokes, NEW k \in Role, UpdateSpoke(r, k) PROVE Respects
  <2>1. (db.spokes \ {r}) \cup {[r EXCEPT !.role = k]} \subseteq Rows.spokes
    <3>1. r \in [spoke : Spoke, hub : Hub, role : Role]
      BY <1>0, RowKinds
    <3>2. [r EXCEPT !.role = k] \in [spoke : Spoke, hub : Hub, role : Role]
      BY <3>1
    <3> QED
      BY <1>0, <3>2, RowKinds
  <2> QED
    BY <1>0, <1>6, <2>1, OneTable DEF UpdateSpoke
<1>7. ASSUME NEW r \in db.spokes, DeleteSpoke(r) PROVE Respects
  <2>1. db.spokes \ {r} \subseteq Rows.spokes
    BY <1>0
  <2> QED
    BY <1>0, <1>7, <2>1, OneTable DEF DeleteSpoke
<1>8. ASSUME NEW h \in Hub, NEW force \in BOOLEAN, DeleteHub(h, force) PROVE Respects
  <2> DEFINE d == [db EXCEPT !.hubs   = {r \in @ : r.hub # h},
                             !.spokes = @ \ SpokesOf(h),
                             !.peers  = IF force THEN @ \ PeersOf(h) ELSE @]
  <2>1. db' = d /\ locked' = locked /\ Consistent(d)
        /\ \A t \in Table : d[t] # db[t] => Reach(t) \cap locked = {}
    BY <1>8 DEF DeleteHub, Commit
  <2>2. Tables(d) /\ Typed(d)
    BY <1>0 DEF TablesOK, Tables, Typed
  <2> HIDE DEF d
  <2>3. TablesOK'
    BY <2>1, <2>2 DEF TablesOK, Tables, Typed, Consistent
  <2> QED
    BY <2>1, <2>3 DEF Respects
<1>9. ASSUME NEW w \in Worker, SavePeers(w) PROVE Respects
  <2>1. Upsert(pass[w], View(pass[w])) \subseteq Rows.peers
    BY <1>9, UpsertOK DEF SavePeers
  <2> QED
    BY <1>0, <1>9, <2>1, OneTable DEF SavePeers
<1>10. ASSUME UNCHANGED <<db, locked>> PROVE Respects
  BY <1>0, <1>10, NoTable
<1>11. ASSUME NEW h \in Hub, NEW keys \in SUBSET PublicKey, HubChanges(h, keys) PROVE Respects
  BY <1>11, <1>10 DEF HubChanges
<1>12. ASSUME NEW h \in Hub, NEW w \in Worker, LoadHub(w, h) PROVE Respects
  BY <1>12, <1>10 DEF LoadHub
<1>13. ASSUME NEW w \in Worker, ShowDump(w) \/ SSHFailed(w) \/ SaveFails(w) PROVE Respects
  BY <1>13, <1>10 DEF ShowDump, SSHFailed, SaveFails
<1> QED
  BY <1>1, <1>2, <1>3, <1>4, <1>5, <1>6, <1>7, <1>8, <1>9, <1>11, <1>12, <1>13
  DEF InventoryNext

-----------------------------------------------------------------------------
(* What they do to the passes *)

\* The rows a pass still has may be fewer; the rest of it stays.
LEMMA FewerKept ==
    ASSUME NEW p, PassOK(p), NEW K, K \subseteq p.kept, NEW q, q = [p EXCEPT !.kept = K]
    PROVE  /\ PassOK(q)
           /\ q.at = p.at /\ q.hub = p.hub /\ q.rows = p.rows /\ q.clients = p.clients
           /\ q.seen = p.seen /\ q.off = p.off
BY DEF PassOK, Pass

\* A pass once a hub has changed.
LEMMA MoreOff ==
    ASSUME NEW p, PassOK(p), NEW S \in SUBSET PublicKey, NEW q, q = [p EXCEPT !.off = @ \cup S]
    PROVE  /\ PassOK(q)
           /\ q.at = p.at /\ q.hub = p.hub /\ q.rows = p.rows /\ q.clients = p.clients
           /\ q.seen = p.seen /\ q.off = p.off \cup S
BY DEF PassOK, Pass

\* What a pass is as one that has just been loaded, and once it has its answer.
LEMMA IdleOK == PassOK(IdlePass) /\ IdlePass.at = "idle"
BY DEF PassOK, Pass, IdlePass

Loaded(h) ==
    [at |-> "dump", hub |-> h, rows |-> PeersOf(h), clients |-> ClientKeys(h),
     kept |-> PeersOf(h), seen |-> {}, off |-> PublicKey \ live[h]]

LEMMA ClientKeysOK ==
    ASSUME InventoryOK, NEW h
    PROVE  ClientKeys(h) \subseteq PublicKey
<1>1. db.spokes \subseteq [spoke : Spoke, hub : Hub, role : Role]
  BY TableIs, RowKinds DEF InventoryOK, TablesOK, Typed
<1> QED
  BY <1>1, KeyOfAssumption DEF ClientKeys, SpokesOf

LEMMA LoadedOK ==
    ASSUME InventoryOK, NEW h \in Hub
    PROVE  PassOK(Loaded(h))
<1>1. PeersOf(h) \subseteq Rows.peers /\ \A r \in PeersOf(h) : r.hub = h
  BY TableIs DEF InventoryOK, TablesOK, Typed, PeersOf
<1>2. PublicKey \ live[h] \subseteq PublicKey /\ ClientKeys(h) \subseteq PublicKey
  BY ClientKeysOK
<1> QED
  BY <1>1, <1>2 DEF PassOK, Pass, Loaded

Answered(p) == [p EXCEPT !.at = "save", !.seen = live[p.hub]]

LEMMA AnsweredOK ==
    ASSUME InventoryOK, NEW p, PassOK(p), p.at = "dump", NEW q, q = Answered(p)
    PROVE  /\ PassOK(q)
           /\ q.at = "save" /\ q.hub = p.hub /\ q.rows = p.rows /\ q.clients = p.clients
           /\ q.seen = live[p.hub] /\ q.off = p.off
<1>1. p.hub \in Hub /\ live[p.hub] \subseteq PublicKey
  BY DEF PassOK, Pass, InventoryOK, RestOK
<1> QED
  BY <1>1 DEF PassOK, Pass, Answered

\* A step changes the passes in one of these ways.
Fewer(v) == \E K \in SUBSET pass[v].kept : pass'[v] = [pass[v] EXCEPT !.kept = K]

LEMMA GoneIsFewer ==
    ASSUME NEW p, NEW rows
    PROVE  \E K \in SUBSET p.kept : Gone(p, rows) = [p EXCEPT !.kept = K]
BY DEF Gone

LEMMA SameIsFewer ==
    ASSUME NEW v \in Worker, PassOK(pass[v]), pass'[v] = pass[v]
    PROVE  Fewer(v)
<1>1. pass[v] = [pass[v] EXCEPT !.kept = pass[v].kept]
  BY DEF PassOK, Pass
<1> QED
  BY <1>1 DEF Fewer

LEMMA OnePass ==
    ASSUME PassesOK, NEW w \in Worker, NEW q, pass' = [pass EXCEPT ![w] = q]
    PROVE  /\ pass' = [v \in Worker |-> pass'[v]]
           /\ pass'[w] = q
           /\ \A v \in Worker : v # w => pass'[v] = pass[v]
BY DEF PassesOK

\* The steps of a pass, and what the others see of it.
LEMMA PassSteps ==
    ASSUME InventoryOK, NEW w \in Worker,
           \/ \E h \in Hub : LoadHub(w, h)
           \/ ShowDump(w) \/ SSHFailed(w) \/ SavePeers(w) \/ SaveFails(w)
    PROVE  /\ pass' = [v \in Worker |-> pass'[v]]
           /\ \/ pass'[w] = IdlePass
              \/ \E h \in Hub : LoadHub(w, h) /\ pass'[w] = Loaded(h)
              \/ pass[w].at = "dump" /\ pass'[w] = Answered(pass[w])
           /\ \A v \in Worker : v # w => Fewer(v)
<1>0. PassesOK /\ \A v \in Worker : PassOK(pass[v])
  BY DEF InventoryOK, PassesOK
<1>1. CASE \E h \in Hub : LoadHub(w, h)
  <2>1. PICK h \in Hub : LoadHub(w, h)
    BY <1>1
  <2>2. pass' = [pass EXCEPT ![w] = Loaded(h)]
    BY <2>1 DEF LoadHub, Loaded
  <2> QED
    BY <1>0, <2>1, <2>2, OnePass, SameIsFewer
<1>2. CASE ShowDump(w)
  <2>1. pass[w].at = "dump" /\ pass' = [pass EXCEPT ![w] = Answered(pass[w])]
    BY <1>0, <1>2 DEF ShowDump, Answered, PassesOK, PassOK, Pass
  <2> QED
    BY <1>0, <2>1, OnePass, SameIsFewer
<1>3. CASE SSHFailed(w) \/ SaveFails(w)
  <2>1. pass' = [pass EXCEPT ![w] = IdlePass]
    BY <1>3 DEF SSHFailed, SaveFails
  <2> QED
    BY <1>0, <2>1, OnePass, SameIsFewer
<1>4. CASE SavePeers(w)
  <2>1. PICK S : pass' = [v \in Worker |-> IF v = w THEN IdlePass ELSE Gone(pass[v], S)]
    BY <1>4 DEF SavePeers
  <2>2. /\ pass' = [v \in Worker |-> pass'[v]] /\ pass'[w] = IdlePass
        /\ \A v \in Worker : v # w => pass'[v] = Gone(pass[v], S)
    BY <2>1
  <2>3. \A v \in Worker : v # w => Fewer(v)
    <3>1. TAKE v \in Worker
    <3>2. HAVE v # w
    <3>3. \E K \in SUBSET pass[v].kept : Gone(pass[v], S) = [pass[v] EXCEPT !.kept = K]
      BY GoneIsFewer
    <3> QED
      BY <2>2, <3>2, <3>3 DEF Fewer
  <2> QED
    BY <2>2, <2>3
<1> QED
  BY <1>1, <1>2, <1>3, <1>4

LEMMA PassesStayOK ==
    ASSUME InventoryOK, InventoryNext
    PROVE  PassesOK'
<1>0. PassesOK /\ \A v \in Worker : PassOK(pass[v])
  BY DEF InventoryOK, PassesOK
<1>1. \A v \in Worker : Fewer(v) => PassOK(pass'[v])
  BY <1>0, FewerKept DEF Fewer
<1>2. ASSUME NEW w \in Worker,
             \/ \E h \in Hub : LoadHub(w, h)
             \/ ShowDump(w) \/ SSHFailed(w) \/ SavePeers(w) \/ SaveFails(w)
      PROVE  PassesOK'
  <2>1. PassOK(pass'[w])
    BY <1>0, <1>2, PassSteps, IdleOK, LoadedOK, AnsweredOK
  <2>2. \A v \in Worker : PassOK(pass'[v])
    BY <1>1, <1>2, <2>1, PassSteps
  <2>3. pass' = [v \in Worker |-> pass'[v]]
    BY <1>2, PassSteps
  <2> QED
    BY <2>2, <2>3 DEF PassesOK, PassOK, Pass
<1>3. ASSUME NEW h \in Hub, NEW force \in BOOLEAN, DeleteHub(h, force)
      PROVE  PassesOK'
  <2>1. pass' = [w \in Worker |-> Gone(pass[w], PeersOf(h))]
    BY <1>3 DEF DeleteHub
  <2>2. pass' = [v \in Worker |-> pass'[v]] /\ \A v \in Worker : Fewer(v)
    BY <2>1, GoneIsFewer DEF Fewer
  <2> QED
    BY <1>1, <2>2 DEF PassesOK, PassOK, Pass
<1>4. ASSUME NEW h \in Hub, NEW keys \in SUBSET PublicKey, HubChanges(h, keys)
      PROVE  PassesOK'
  <2>1. pass' = [w \in Worker |->
                   IF pass[w].hub = h THEN [pass[w] EXCEPT !.off = @ \cup (PublicKey \ keys)]
                   ELSE pass[w]]
    BY <1>4 DEF HubChanges
  <2>2. \A v \in Worker : PassOK(pass'[v])
    BY <1>0, <2>1, MoreOff
  <2>3. pass' = [v \in Worker |-> pass'[v]]
    BY <2>1
  <2> QED
    BY <2>2, <2>3 DEF PassesOK, PassOK, Pass
<1>5. ASSUME pass' = pass PROVE PassesOK'
  BY <1>0, <1>5 DEF PassesOK, PassOK, Pass
<1>6. ASSUME NEW k \in Role, CreateRole(k) \/ DeleteRole(k) PROVE PassesOK'
  BY <1>5, <1>6 DEF CreateRole, DeleteRole
<1>7. ASSUME NEW h \in Hub, NEW k \in Role, RegisterHub(h, k) \/ UpdateHub(h, k) PROVE PassesOK'
  BY <1>5, <1>7 DEF RegisterHub, UpdateHub
<1>8. ASSUME NEW h \in Hub, NEW k \in Role, NEW c \in Spoke, RegisterSpoke(c, h, k) PROVE PassesOK'
  BY <1>5, <1>8 DEF RegisterSpoke
<1>9. ASSUME NEW r \in db.spokes, DeleteSpoke(r) \/ \E k \in Role : UpdateSpoke(r, k) PROVE PassesOK'
  BY <1>5, <1>9 DEF DeleteSpoke, UpdateSpoke
<1> QED
  BY <1>2, <1>3, <1>4, <1>6, <1>7, <1>8, <1>9 DEF InventoryNext

LEMMA SpendOK ==
    ASSUME RestOK, NEW kind \in Kind, Spend(kind)
    PROVE  used' \in [Kind -> Nat]
BY DEF RestOK, Spend

LEMMA ChangedOK ==
    ASSUME RestOK, NEW h \in Hub, Changed(h)
    PROVE  calm' \in [Hub -> {"changed", "quiet", "passed"}]
BY DEF RestOK, Changed

LEMMA RestStaysOK ==
    ASSUME InventoryOK, InventoryNext
    PROVE  RestOK'
<1>0. /\ RestOK
      /\ \A r \in db.spokes : r.hub \in Hub
      /\ \A w \in Worker : pass[w].at = "save" => pass[w].hub \in Hub
  <2>1. db.spokes \subseteq [spoke : Spoke, hub : Hub, role : Role]
    BY TableIs, RowKinds DEF InventoryOK, TablesOK, Typed
  <2>2. \A w \in Worker : PassOK(pass[w])
    BY DEF InventoryOK, PassesOK
  <2> QED
    BY <2>1, <2>2 DEF InventoryOK, PassOK
<1>1. ASSUME NEW k \in Role, CreateRole(k) \/ DeleteRole(k) PROVE RestOK'
  BY <1>0, <1>1, SpendOK DEF CreateRole, DeleteRole, RestOK, Kind
<1>2. ASSUME NEW h \in Hub, NEW k \in Role, RegisterHub(h, k) \/ UpdateHub(h, k) PROVE RestOK'
  BY <1>0, <1>2, SpendOK, ChangedOK DEF RegisterHub, UpdateHub, RestOK, Kind
<1>3. ASSUME NEW h \in Hub, NEW k \in Role, NEW c \in Spoke, RegisterSpoke(c, h, k) PROVE RestOK'
  BY <1>0, <1>3, SpendOK, ChangedOK DEF RegisterSpoke, RestOK, Kind
<1>4. ASSUME NEW r \in db.spokes, DeleteSpoke(r) \/ \E k \in Role : UpdateSpoke(r, k) PROVE RestOK'
  BY <1>0, <1>4, SpendOK, ChangedOK DEF DeleteSpoke, UpdateSpoke, RestOK, Kind
<1>5. ASSUME NEW h \in Hub, NEW force \in BOOLEAN, DeleteHub(h, force) PROVE RestOK'
  BY <1>0, <1>5, SpendOK, ChangedOK DEF DeleteHub, RestOK, Kind
<1>6. ASSUME NEW h \in Hub, NEW keys \in SUBSET PublicKey, HubChanges(h, keys) PROVE RestOK'
  BY <1>0, <1>6, SpendOK, ChangedOK DEF HubChanges, RestOK, Kind
<1>7. ASSUME NEW h \in Hub, NEW w \in Worker, LoadHub(w, h) PROVE RestOK'
  BY <1>0, <1>7, SpendOK DEF LoadHub, RestOK, Kind
<1>8. ASSUME NEW w \in Worker, ShowDump(w) \/ SSHFailed(w) \/ SaveFails(w) PROVE RestOK'
  BY <1>0, <1>8, SpendOK DEF ShowDump, SSHFailed, SaveFails, RestOK, Kind
<1>9. ASSUME NEW w \in Worker, SavePeers(w) PROVE RestOK'
  BY <1>0, <1>9 DEF SavePeers, RestOK
<1> QED
  BY <1>1, <1>2, <1>3, <1>4, <1>5, <1>6, <1>7, <1>8, <1>9 DEF InventoryNext

LEMMA InventoryStays ==
    ASSUME InventoryOK, InventoryNext
    PROVE  InventoryOK' /\ Respects
BY RequestsRespect, PassesStayOK, RestStaysOK DEF InventoryOK, Respects

-----------------------------------------------------------------------------
(* The dump and the file *)

\* Inside one transaction the tables read so far are those of one moment.
DumpOK ==
    /\ dump = [next |-> dump.next, snap |-> dump.snap, rows |-> dump.rows]
    /\ dump.next \in 0 .. 4
    /\ Typed(dump.snap) /\ Consistent(dump.snap)
    /\ Tables(dump.rows) /\ Typed(dump.rows)
    /\ RepeatableRead =>
         \A i \in 1 .. 4 :
            i < dump.next => dump.rows[SortedTables[i]] = dump.snap[SortedTables[i]]

\* A file holds rows for its own tables only, and together they obey the keys.
FileOK(f) ==
    /\ Typed(f.rows)
    /\ f.tables \subseteq Table
    /\ \A t \in Table : t \notin f.tables => f.rows[t] = {}
    /\ RepeatableRead => Consistent(f.rows)

LEMMA SameTables ==
    ASSUME NEW d, NEW e, \A t \in Table : d[t] = e[t]
    PROVE  (Consistent(d) => Consistent(e)) /\ (Typed(d) => Typed(e))
BY Parents DEF Consistent, Typed

LEMMA TableAt ==
    /\ \A i \in 1 .. 4 : SortedTables[i] \in Table
    /\ \A i, j \in 1 .. 4 : SortedTables[i] = SortedTables[j] => i = j
    /\ \A t \in Table : \E i \in 1 .. 4 : SortedTables[i] = t
    /\ \A i, j \in 1 .. 4 : SortedTables[i] \in ForeignKeys[SortedTables[j]] => i < j
<1>1. \A i \in 1 .. 4 : i = 1 \/ i = 2 \/ i = 3 \/ i = 4
  OBVIOUS
<1>2. \A i \in 1 .. 4 : SortedTables[i] \in Table
  BY <1>1, Order, TableIs
<1>3. \A i, j \in 1 .. 4 : SortedTables[i] = SortedTables[j] => i = j
  BY <1>1, Order
<1>4. \A t \in Table : \E i \in 1 .. 4 : SortedTables[i] = t
  BY Order, TableIs
<1>5. \A i, j \in 1 .. 4 : SortedTables[i] \in ForeignKeys[SortedTables[j]] => i < j
  BY <1>1, Order, Parents
<1> QED
  BY <1>2, <1>3, <1>4, <1>5

LEMMA NewFileOK ==
    ASSUME NEW d, Typed(d), RepeatableRead => Consistent(d), NEW e, NEW b
    PROVE  FileOK(NewFile(d, e, b))
BY DEF FileOK, NewFile

LEMMA InitFiles == FileOK(OldFile) /\ FileOK(NoFile)
<1>1. FileOK(OldFile)
  BY OldFileAssumption, TableIs DEF FileOK, Typed
<1>2. FileOK(NoFile)
  BY Empty DEF FileOK, NoFile
<1> QED
  BY <1>1, <1>2

LEMMA InitDump == dump = NoDump => DumpOK
<1> SUFFICES ASSUME dump = NoDump PROVE DumpOK
  OBVIOUS
<1>1. dump.next = 0 /\ dump.snap = NoTables /\ dump.rows = NoTables
  BY DEF NoDump
<1>2. dump = [next |-> dump.next, snap |-> dump.snap, rows |-> dump.rows]
  BY <1>1 DEF NoDump
<1>3. \A i \in 1 .. 4 : ~(i < dump.next)
  BY <1>1
<1> QED
  BY <1>1, <1>2, <1>3, Empty DEF DumpOK

LEMMA BeginDumpOK ==
    ASSUME TablesOK, BeginDump
    PROVE  DumpOK'
<1>1. dump' = [next |-> First, snap |-> db, rows |-> NoTables]
  BY DEF BeginDump
<1>2. dump'.next = 1 /\ dump'.snap = db /\ dump'.rows = NoTables
      /\ dump' = [next |-> dump'.next, snap |-> dump'.snap, rows |-> dump'.rows]
  BY <1>1, Order
<1>3. \A i \in 1 .. 4 : ~(i < dump'.next)
  BY <1>2
<1>4. Typed(dump'.snap) /\ Consistent(dump'.snap) /\ Tables(dump'.rows) /\ Typed(dump'.rows)
  BY <1>2, Empty DEF TablesOK
<1> QED
  BY <1>2, <1>3, <1>4 DEF DumpOK, Typed, Consistent, Tables

\* The rows read once one more table has been selected.
RowsRead == [dump.rows EXCEPT ![SortedTables[dump.next]] = Selected(SortedTables[dump.next])]

LEMMA RowsReadOK ==
    ASSUME TablesOK, DumpOK, dump.next >= 1
    PROVE  /\ Tables(RowsRead) /\ Typed(RowsRead)
           /\ RepeatableRead =>
                \A i \in 1 .. 4 :
                   i < dump.next + 1 => RowsRead[SortedTables[i]] = dump.snap[SortedTables[i]]
<1>1. dump.next \in 1 .. 4
  BY DEF DumpOK
<1> DEFINE t == SortedTables[dump.next]
<1>2. t \in Table
  BY <1>1, TableAt
<1>3. Selected(t) \subseteq Rows[t] /\ (RepeatableRead => Selected(t) = dump.snap[t])
  BY <1>2 DEF Selected, DumpOK, TablesOK, Typed
<1>4. /\ Tables(RowsRead) /\ RowsRead[t] = Selected(t)
      /\ \A u \in Table : u # t => RowsRead[u] = dump.rows[u]
  BY <1>2, Replace DEF DumpOK, RowsRead
<1>5. Typed(RowsRead)
  BY <1>3, <1>4 DEF DumpOK, Typed
<1>6. ASSUME RepeatableRead, NEW i \in 1 .. 4, i < dump.next + 1
      PROVE  RowsRead[SortedTables[i]] = dump.snap[SortedTables[i]]
  <2>1. CASE i = dump.next
    BY <2>1, <1>3, <1>4, <1>6
  <2>2. CASE i # dump.next
    <3>1. i < dump.next
      BY <2>2, <1>1, <1>6
    <3>2. SortedTables[i] \in Table /\ SortedTables[i] # t
      BY <2>2, <1>1, TableAt
    <3> QED
      BY <3>1, <3>2, <1>4, <1>6 DEF DumpOK
  <2> QED
    BY <2>1, <2>2
<1> QED
  BY <1>4, <1>5, <1>6

LEMMA SelectTableOK ==
    ASSUME TablesOK, DumpOK, FileOK(file), SelectTable
    PROVE  DumpOK' /\ FileOK(file)'
<1>1. dump.next \in 1 .. 4
  BY Order DEF DumpOK, SelectTable
<1>2. /\ Tables(RowsRead) /\ Typed(RowsRead)
      /\ RepeatableRead =>
           \A i \in 1 .. 4 :
              i < dump.next + 1 => RowsRead[SortedTables[i]] = dump.snap[SortedTables[i]]
  BY <1>1, RowsReadOK
<1>3. \/ /\ dump.next < 4 /\ dump' = [dump EXCEPT !.next = @ + 1, !.rows = RowsRead]
         /\ file' = file
      \/ /\ dump.next = 4 /\ dump' = NoDump
         /\ \E encrypted, whole \in BOOLEAN : file' = NewFile(RowsRead, encrypted, whole)
  BY Order DEF SelectTable, RowsRead
<1>4. CASE /\ dump.next < 4 /\ dump' = [dump EXCEPT !.next = @ + 1, !.rows = RowsRead]
           /\ file' = file
  <2>1. dump'.next = dump.next + 1 /\ dump'.snap = dump.snap /\ dump'.rows = RowsRead
        /\ dump' = [next |-> dump'.next, snap |-> dump'.snap, rows |-> dump'.rows]
    BY <1>4 DEF DumpOK
  <2>2. dump'.next \in 0 .. 4
    BY <2>1, <1>1, <1>4
  <2>3. DumpOK'
    BY <2>1, <2>2, <1>2 DEF DumpOK, Typed, Consistent, Tables
  <2> QED
    BY <2>3, <1>4 DEF FileOK, Typed, Consistent
<1>5. CASE /\ dump.next = 4 /\ dump' = NoDump
           /\ \E encrypted, whole \in BOOLEAN : file' = NewFile(RowsRead, encrypted, whole)
  <2>1. DumpOK'
    <3>1. dump'.next = 0 /\ dump'.snap = NoTables /\ dump'.rows = NoTables
          /\ dump' = [next |-> dump'.next, snap |-> dump'.snap, rows |-> dump'.rows]
      BY <1>5 DEF NoDump
    <3>2. \A i \in 1 .. 4 : ~(i < dump'.next)
      BY <3>1
    <3>3. /\ Typed(dump'.snap) /\ Consistent(dump'.snap)
          /\ Tables(dump'.rows) /\ Typed(dump'.rows)
      BY <3>1, Empty
    <3> QED
      BY <3>1, <3>2, <3>3 DEF DumpOK, Typed, Consistent, Tables
  <2>2. RepeatableRead => Consistent(RowsRead)
    <3>1. SUFFICES ASSUME RepeatableRead PROVE Consistent(RowsRead)
      OBVIOUS
    <3>2. \A i \in 1 .. 4 : RowsRead[SortedTables[i]] = dump.snap[SortedTables[i]]
      BY <3>1, <1>2, <1>5
    <3>3. \A t \in Table : dump.snap[t] = RowsRead[t]
      BY <3>2, TableAt
    <3> QED
      BY <3>3, SameTables DEF DumpOK
  <2>3. FileOK(file')
    BY <1>5, <1>2, <2>2, NewFileOK
  <2> QED
    BY <2>1, <2>3 DEF FileOK, Typed, Consistent
<1> QED
  BY <1>3, <1>4, <1>5

-----------------------------------------------------------------------------
(* The restore *)

RestoreShape ==
    /\ restore = [at |-> restore.at, table |-> restore.table, drop |-> restore.drop,
                  source |-> restore.source, work |-> restore.work]
    /\ restore.at \in {"idle", "count", "delete", "insert"}
    /\ restore.drop \in BOOLEAN
    /\ restore.table \in 0 .. 5
    /\ restore.at = "delete" => restore.table <= 4 /\ restore.drop
    /\ restore.at = "insert" => restore.table >= 1
    /\ locked \subseteq Table
    /\ restore.at \in {"idle", "count"} => locked = {}
    /\ FileOK(restore.source)
    /\ Tables(restore.work) /\ Typed(restore.work)

\* The table is the transaction's, and holds exactly X.
Holds(t, X) == t \in locked /\ restore.work[t] = X

\* What the statements so far have done to the table at position i.
DoneAt(i) ==
    LET t    == SortedTables[i]
        rows == restore.source.rows[t]
    IN  /\ restore.at = "delete" /\ i > restore.table /\ t \in restore.source.tables =>
             Holds(t, {})
        /\ restore.at = "insert" /\ restore.drop /\ t \in restore.source.tables =>
             Holds(t, IF i < restore.table THEN rows ELSE {})
        /\ restore.at = "insert" /\ i < restore.table /\ rows # {} =>
             t \in locked /\ rows \subseteq restore.work[t]

RestoreOK == RestoreShape /\ Consistent(Seen) /\ \A i \in 1 .. 4 : DoneAt(i)

LEMMA SeenAt ==
    /\ Tables(Seen)
    /\ \A t \in Table : Seen[t] = IF t \in locked THEN restore.work[t] ELSE db[t]
BY DEF Seen, Tables

\* A request that commits beside an open restore leaves what the restore sees
\* consistent: it cannot touch a table next to one the restore has written.
LEMMA RequestsKeepSeen ==
    ASSUME RestoreOK, TablesOK, Respects, restore' = restore
    PROVE  RestoreOK'
<1> DEFINE S == Seen  N == Seen'
<1>1. \A t \in Table : /\ S[t] = IF t \in locked THEN restore.work[t] ELSE db[t]
                       /\ N[t] = IF t \in locked THEN restore.work[t] ELSE db'[t]
  BY DEF Seen, Respects
<1>2. Consistent(S) /\ Consistent(db')
  BY DEF RestoreOK, Respects, TablesOK, Consistent
<1>3. \A t, u \in Table : u \in ForeignKeys[t] /\ (t \in locked \/ u \in locked) =>
         db'[t] = db[t] /\ db'[u] = db[u]
  <2>1. \A t, u \in Table : u \in ForeignKeys[t] => /\ t \in Reach(t) /\ u \in Reach(t)
                                                   /\ t \in Reach(u) /\ u \in Reach(u)
    BY DEF Reach
  <2> QED
    BY <2>1 DEF Respects
<1> HIDE DEF S, N
<1>4. ASSUME NEW t \in Table, NEW r \in N[t], NEW q \in N[t], SameKey(t, r, q) PROVE r = q
  <2>1. N[t] = S[t] \/ N[t] = db'[t]
    BY <1>1
  <2> QED
    BY <2>1, <1>2, <1>4 DEF Consistent
<1>5. ASSUME NEW t \in Table, NEW r \in N[t], NEW u \in ForeignKeys[t]
      PROVE  \E q \in N[u] : RefersTo(t, r, u, q)
  <2>0. u \in Table
    BY Parents
  <2>1. CASE t \in locked \/ u \in locked
    <3>1. N[t] = S[t] /\ N[u] = S[u]
      BY <2>0, <2>1, <1>1, <1>3
    <3> QED
      BY <3>1, <1>2, <1>5 DEF Consistent
  <2>2. CASE t \notin locked /\ u \notin locked
    <3>1. N[t] = db'[t] /\ N[u] = db'[u]
      BY <2>0, <2>2, <1>1
    <3> QED
      BY <3>1, <1>2, <1>5 DEF Consistent
  <2> QED
    BY <2>1, <2>2
<1>6. Consistent(N)
  BY <1>4, <1>5 DEF Consistent
<1>7. Consistent(Seen)'
  BY <1>6 DEF N, Consistent
<1>8. RestoreShape'
  BY DEF RestoreOK, RestoreShape, Respects, FileOK, Tables, Typed, Consistent
<1>9. \A i \in 1 .. 4 : DoneAt(i)'
  BY DEF RestoreOK, DoneAt, Holds, Respects
<1> QED
  BY <1>7, <1>8, <1>9 DEF RestoreOK

LEMMA EndedOK ==
    ASSUME TablesOK', restore' = NoRestore, locked' = {}
    PROVE  RestoreOK'
<1>1. /\ restore'.at = "idle" /\ restore'.table = 0 /\ restore'.drop = FALSE
      /\ restore'.source = NoFile /\ restore'.work = NoTables
      /\ restore' = [at |-> restore'.at, table |-> restore'.table, drop |-> restore'.drop,
                     source |-> restore'.source, work |-> restore'.work]
  BY DEF NoRestore
<1>2. FileOK(restore'.source) /\ Tables(restore'.work) /\ Typed(restore'.work)
  BY <1>1, InitFiles, Empty
<1>3. FileOK(restore.source)' /\ Tables(restore.work)' /\ Typed(restore.work)'
  BY <1>2 DEF FileOK, Tables, Typed, Consistent
<1>4. RestoreShape'
  <2>1. restore'.drop \in BOOLEAN
    BY <1>1, Zenon
  <2>2. /\ restore'.at \in {"idle", "count", "delete", "insert"} /\ restore'.table \in 0 .. 5
        /\ restore'.at # "delete" /\ restore'.at # "insert" /\ locked' \subseteq Table
    BY <1>1
  <2> QED
    BY <1>1, <1>3, <2>1, <2>2, Zenon DEF RestoreShape
<1>5. \A i \in 1 .. 4 : DoneAt(i)'
  BY <1>1 DEF DoneAt
<1>6. Consistent(Seen)'
  <2>1. \A t \in Table : db'[t] = Seen'[t]
    BY DEF Seen
  <2>2. Consistent(db')
    BY DEF TablesOK, Consistent
  <2>3. Consistent(Seen')
    BY <2>1, <2>2, SameTables
  <2> QED
    BY <2>3 DEF Consistent
<1> QED
  BY <1>4, <1>5, <1>6 DEF RestoreOK

LEMMA SeenIsDb ==
    ASSUME TablesOK, db' = db, locked' = {}
    PROVE  Consistent(Seen)'
<1>1. \A t \in Table : db[t] = Seen'[t]
  BY DEF Seen
<1>2. Consistent(Seen')
  BY <1>1, SameTables DEF TablesOK
<1> QED
  BY <1>2 DEF Consistent

LEMMA BeginRestoreOK ==
    ASSUME RestoreOK, TablesOK, FileOK(file), NEW drop \in BOOLEAN, NEW decrypt \in BOOLEAN,
           BeginRestore(drop, decrypt)
    PROVE  RestoreOK'
<1>1. /\ restore = NoRestore /\ db' = db /\ locked' = locked
      /\ restore' = [NoRestore EXCEPT !.at = "count", !.drop = drop, !.source = file]
  BY DEF BeginRestore
<1>2. locked = {}
  BY <1>1 DEF RestoreOK, RestoreShape, NoRestore
<1>3. /\ restore'.at = "count" /\ restore'.table = 0 /\ restore'.drop = drop
      /\ restore'.source = file /\ restore'.work = NoTables
      /\ restore' = [at |-> restore'.at, table |-> restore'.table, drop |-> restore'.drop,
                     source |-> restore'.source, work |-> restore'.work]
  BY <1>1 DEF NoRestore
<1>4. FileOK(restore'.source) /\ Tables(restore'.work) /\ Typed(restore'.work)
  BY <1>3, Empty
<1>5. FileOK(restore.source)' /\ Tables(restore.work)' /\ Typed(restore.work)'
  BY <1>4 DEF FileOK, Tables, Typed, Consistent
<1>6. RestoreShape'
  BY <1>1, <1>2, <1>3, <1>5 DEF RestoreShape
<1>7. \A i \in 1 .. 4 : DoneAt(i)'
  BY <1>3 DEF DoneAt
<1> QED
  BY <1>1, <1>2, <1>6, <1>7, SeenIsDb DEF RestoreOK

\* A step that moves on to the next phase.
LEMMA NextPhase ==
    ASSUME RestoreOK, UNCHANGED <<db, locked>>,
           NEW at \in {"delete", "insert"}, NEW table \in 1 .. 4,
           restore' = [restore EXCEPT !.at = at, !.table = table],
           at = "delete" => restore.drop
    PROVE  /\ RestoreShape' /\ Consistent(Seen)'
           /\ restore'.at = at /\ restore'.table = table /\ restore'.drop = restore.drop
           /\ restore'.source = restore.source /\ restore'.work = restore.work
<1>1. /\ restore'.at = at /\ restore'.table = table /\ restore'.drop = restore.drop
      /\ restore'.source = restore.source /\ restore'.work = restore.work
      /\ restore' = [at |-> restore'.at, table |-> restore'.table, drop |-> restore'.drop,
                     source |-> restore'.source, work |-> restore'.work]
  BY DEF RestoreOK, RestoreShape
<1>2. FileOK(restore.source)' /\ Tables(restore.work)' /\ Typed(restore.work)'
  BY <1>1 DEF RestoreOK, RestoreShape, FileOK, Tables, Typed, Consistent
<1>3. RestoreShape'
  BY <1>1, <1>2 DEF RestoreOK, RestoreShape
<1>4. Consistent(Seen)'
  <2>1. \A t \in Table : Seen[t] = Seen'[t]
    BY <1>1 DEF Seen
  <2>2. Consistent(Seen')
    BY <2>1, SameTables DEF RestoreOK
  <2> QED
    BY <2>2 DEF Consistent
<1> QED
  BY <1>1, <1>3, <1>4

LEMMA CountRowsOK ==
    ASSUME RestoreOK, TablesOK, CountRows
    PROVE  RestoreOK'
<1>1. \/ restore.drop /\ restore' = [restore EXCEPT !.at = "delete", !.table = 4]
         /\ UNCHANGED <<db, locked>>
      \/ ~restore.drop /\ restore' = [restore EXCEPT !.at = "insert", !.table = 1]
         /\ UNCHANGED <<db, locked>>
      \/ Rollback
  BY Order DEF CountRows, inventoryvars
<1>2. CASE restore.drop /\ restore' = [restore EXCEPT !.at = "delete", !.table = 4]
           /\ UNCHANGED <<db, locked>>
  <2>1. /\ RestoreShape' /\ Consistent(Seen)'
        /\ restore'.at = "delete" /\ restore'.table = 4
    BY <1>2, NextPhase
  <2>2. \A i \in 1 .. 4 : DoneAt(i)'
    BY <2>1 DEF DoneAt
  <2> QED
    BY <2>1, <2>2 DEF RestoreOK
<1>3. CASE ~restore.drop /\ restore' = [restore EXCEPT !.at = "insert", !.table = 1]
           /\ UNCHANGED <<db, locked>>
  <2>1. /\ RestoreShape' /\ Consistent(Seen)'
        /\ restore'.at = "insert" /\ restore'.table = 1 /\ ~restore'.drop
    BY <1>3, NextPhase
  <2>2. \A i \in 1 .. 4 : DoneAt(i)'
    BY <2>1 DEF DoneAt
  <2> QED
    BY <2>1, <2>2 DEF RestoreOK
<1>4. CASE Rollback
  <2>1. restore' = NoRestore /\ locked' = {} /\ db' = db
    BY <1>4 DEF Rollback
  <2>2. TablesOK'
    BY <2>1, NoTable DEF TablesOK, Tables, Typed, Consistent
  <2> QED
    BY <2>1, <2>2, EndedOK
<1> QED
  BY <1>1, <1>2, <1>3, <1>4

LEMMA DeletesDoneOK ==
    ASSUME RestoreOK, TablesOK, DeletesDone
    PROVE  RestoreOK'
<1>1. /\ restore.at = "delete" /\ restore.table < 1 /\ UNCHANGED <<db, locked>>
      /\ restore' = [restore EXCEPT !.at = "insert", !.table = 1]
  BY Order DEF DeletesDone, inventoryvars
<1>2. /\ RestoreShape' /\ Consistent(Seen)'
      /\ restore'.at = "insert" /\ restore'.table = 1 /\ restore'.drop = restore.drop
      /\ restore'.source = restore.source /\ restore'.work = restore.work
  BY <1>1, NextPhase
<1>3. restore.table = 0
  BY <1>1 DEF RestoreOK, RestoreShape
<1>4. \A i \in 1 .. 4 : i > restore.table /\ ~(i < 1)
  BY <1>3
<1>5. \A i \in 1 .. 4 : DoneAt(i)'
  BY <1>1, <1>2, <1>4 DEF RestoreOK, DoneAt, Holds
<1> QED
  BY <1>2, <1>5 DEF RestoreOK

\* Where the cursor is after a statement.
Moved == IF restore.at = "delete" THEN restore.table - 1 ELSE restore.table + 1

LEMMA MovedOK ==
    ASSUME RestoreShape, restore.at \in {"delete", "insert"}, restore.table \in 1 .. 4
    PROVE  /\ Moved \in 0 .. 5
           /\ restore.at = "delete" => Moved <= 4
           /\ restore.at = "insert" => Moved >= 1
BY DEF RestoreShape, Moved

\* A table with nothing to do: only the cursor moves.
LEMMA PassOverIs ==
    ASSUME RestoreOK, restore.at \in {"delete", "insert"}, restore.table \in 1 .. 4, PassOver
    PROVE  /\ RestoreShape' /\ Consistent(Seen)'
           /\ restore'.at = restore.at /\ restore'.table = Moved /\ restore'.drop = restore.drop
           /\ restore'.source = restore.source /\ restore'.work = restore.work
           /\ db' = db /\ locked' = locked
<1>1. /\ restore'.at = restore.at /\ restore'.table = Moved /\ restore'.drop = restore.drop
      /\ restore'.source = restore.source /\ restore'.work = restore.work
      /\ restore' = [at |-> restore'.at, table |-> restore'.table, drop |-> restore'.drop,
                     source |-> restore'.source, work |-> restore'.work]
      /\ db' = db /\ locked' = locked
  BY DEF RestoreOK, RestoreShape, PassOver, Advance, Moved
<1>2. FileOK(restore.source)' /\ Tables(restore.work)' /\ Typed(restore.work)'
  BY <1>1 DEF RestoreOK, RestoreShape, FileOK, Tables, Typed, Consistent
<1>3. RestoreShape'
  BY <1>1, <1>2, MovedOK DEF RestoreOK, RestoreShape
<1>4. Consistent(Seen)'
  <2>1. \A t \in Table : Seen[t] = Seen'[t]
    BY <1>1 DEF Seen
  <2>2. Consistent(Seen')
    BY <2>1, SameTables DEF RestoreOK
  <2> QED
    BY <2>2 DEF Consistent
<1> QED
  BY <1>1, <1>3, <1>4

\* A statement the database accepts.
LEMMA WriteIs ==
    ASSUME RestoreOK, restore.at \in {"delete", "insert"}, restore.table \in 1 .. 4,
           NEW t \in Table, NEW rows, rows \subseteq Rows[t],
           Consistent([Seen EXCEPT ![t] = rows]), Write(t, rows)
    PROVE  /\ RestoreShape' /\ Consistent(Seen)'
           /\ restore'.at = restore.at /\ restore'.table = Moved /\ restore'.drop = restore.drop
           /\ restore'.source = restore.source
           /\ restore'.work[t] = rows
           /\ \A u \in Table : u # t => restore'.work[u] = restore.work[u]
           /\ db' = db /\ locked' = locked \cup {t}
<1> DEFINE W == [restore.work EXCEPT ![t] = rows]
<1>1. /\ restore'.at = restore.at /\ restore'.table = Moved /\ restore'.drop = restore.drop
      /\ restore'.source = restore.source /\ restore'.work = W
      /\ restore' = [at |-> restore'.at, table |-> restore'.table, drop |-> restore'.drop,
                     source |-> restore'.source, work |-> restore'.work]
      /\ db' = db /\ locked' = locked \cup {t}
  BY DEF RestoreOK, RestoreShape, Write, Advance, Moved
<1>2. Tables(W) /\ W[t] = rows /\ \A u \in Table : u # t => W[u] = restore.work[u]
  BY Replace DEF RestoreOK, RestoreShape
<1>3. Typed(W)
  BY <1>2 DEF RestoreOK, RestoreShape, Typed
<1> HIDE DEF W
<1>4. FileOK(restore.source)' /\ Tables(restore.work)' /\ Typed(restore.work)'
  BY <1>1, <1>2, <1>3 DEF RestoreOK, RestoreShape, FileOK, Tables, Typed, Consistent
<1>5. RestoreShape'
  BY <1>1, <1>4, MovedOK DEF RestoreOK, RestoreShape
<1>6. Consistent(Seen)'
  <2>1. \A u \in Table : [Seen EXCEPT ![t] = rows][u] = IF u = t THEN rows ELSE Seen[u]
    BY SeenAt, Replace
  <2>2. \A u \in Table : [Seen EXCEPT ![t] = rows][u] = Seen'[u]
    BY <1>1, <1>2, <2>1 DEF Seen
  <2>3. Consistent(Seen')
    BY <2>2, SameTables
  <2> QED
    BY <2>3 DEF Consistent
<1> QED
  BY <1>1, <1>2, <1>5, <1>6

LEMMA SeenTyped ==
    ASSUME TablesOK, RestoreShape
    PROVE  Typed(Seen)
BY SeenAt DEF TablesOK, RestoreShape, Typed

LEMMA DeleteTableOK ==
    ASSUME RestoreOK, TablesOK, DeleteTable
    PROVE  RestoreOK'
<1> DEFINE n == restore.table  t == SortedTables[n]
<1>1. restore.at = "delete" /\ n \in 1 .. 4 /\ t \in Table /\ Moved = n - 1
  BY Order, TableAt DEF DeleteTable, RestoreOK, RestoreShape, Moved
<1>2. \/ t \notin restore.source.tables /\ PassOver
      \/ t \in restore.source.tables /\ Deletable(t) /\ Write(t, {})
  BY DEF DeleteTable
<1>3. \A i \in 1 .. 4 : i > n - 1 <=> i > n \/ i = n
  BY <1>1
<1>4. CASE t \notin restore.source.tables /\ PassOver
  <2>1. /\ RestoreShape' /\ Consistent(Seen)'
        /\ restore'.at = restore.at /\ restore'.table = n - 1 /\ restore'.drop = restore.drop
        /\ restore'.source = restore.source /\ restore'.work = restore.work
        /\ db' = db /\ locked' = locked
    BY <1>1, <1>4, PassOverIs
  <2>2. \A i \in 1 .. 4 : DoneAt(i)'
    BY <1>1, <1>3, <1>4, <2>1 DEF RestoreOK, DoneAt, Holds
  <2> QED
    BY <2>1, <2>2 DEF RestoreOK
<1>5. CASE t \in restore.source.tables /\ Deletable(t) /\ Write(t, {})
  <2>1. /\ RestoreShape' /\ Consistent(Seen)'
        /\ restore'.at = restore.at /\ restore'.table = n - 1 /\ restore'.drop = restore.drop
        /\ restore'.source = restore.source
        /\ restore'.work[t] = {}
        /\ \A u \in Table : u # t => restore'.work[u] = restore.work[u]
        /\ db' = db /\ locked' = locked \cup {t}
    BY <1>1, <1>5, WriteIs DEF Deletable
  <2>2. ASSUME NEW i \in 1 .. 4 PROVE DoneAt(i)'
    <3>1. SortedTables[i] \in Table /\ (i # n => SortedTables[i] # t)
      BY <1>1, TableAt
    <3>2. CASE i = n
      BY <1>1, <2>1, <3>2 DEF DoneAt, Holds
    <3>3. CASE i # n
      BY <1>1, <1>3, <2>1, <3>1, <3>3 DEF RestoreOK, DoneAt, Holds
    <3> QED
      BY <3>2, <3>3
  <2> QED
    BY <2>1, <2>2 DEF RestoreOK
<1> QED
  BY <1>2, <1>4, <1>5

LEMMA InsertTableOK ==
    ASSUME RestoreOK, TablesOK, InsertTable
    PROVE  RestoreOK'
<1> DEFINE n == restore.table  t == SortedTables[n]  rows == restore.source.rows[t]
<1>1. restore.at = "insert" /\ n \in 1 .. 4 /\ t \in Table /\ Moved = n + 1
  BY Order, TableAt DEF InsertTable, RestoreOK, RestoreShape, Moved
<1>2. \/ rows = {} /\ PassOver
      \/ rows # {} /\ Insertable(t) /\ Write(t, Seen[t] \cup rows)
  BY DEF InsertTable
<1>3. \A i \in 1 .. 4 : (i < n + 1 <=> i < n \/ i = n) /\ ~(i < i)
  BY <1>1
<1>4. CASE rows = {} /\ PassOver
  <2>1. /\ RestoreShape' /\ Consistent(Seen)'
        /\ restore'.at = restore.at /\ restore'.table = n + 1 /\ restore'.drop = restore.drop
        /\ restore'.source = restore.source /\ restore'.work = restore.work
        /\ db' = db /\ locked' = locked
    BY <1>1, <1>4, PassOverIs
  <2>2. ASSUME NEW i \in 1 .. 4 PROVE DoneAt(i)'
    <3>1. CASE i = n
      <4>1. DoneAt(n)
        BY <1>1 DEF RestoreOK
      <4>2. restore.source.rows[SortedTables[n]] = {} /\ ~(n < n) /\ n < n + 1
        BY <1>1, <1>3, <1>4
      <4> QED
        BY <1>1, <2>1, <3>1, <4>1, <4>2 DEF DoneAt, Holds
    <3>2. CASE i # n
      BY <1>1, <1>3, <2>1, <3>2 DEF RestoreOK, DoneAt, Holds
    <3> QED
      BY <3>1, <3>2
  <2> QED
    BY <2>1, <2>2 DEF RestoreOK
<1>5. CASE rows # {} /\ Insertable(t) /\ Write(t, Seen[t] \cup rows)
  <2>1. Seen[t] \cup rows \subseteq Rows[t]
    BY <1>1, SeenTyped DEF RestoreOK, RestoreShape, FileOK, Typed
  <2>2. Consistent([Seen EXCEPT ![t] = Seen[t] \cup rows])
    BY <1>1, <1>5, SeenAt DEF Insertable, Tables
  <2>3. /\ RestoreShape' /\ Consistent(Seen)'
        /\ restore'.at = restore.at /\ restore'.table = n + 1 /\ restore'.drop = restore.drop
        /\ restore'.source = restore.source
        /\ restore'.work[t] = Seen[t] \cup rows
        /\ \A u \in Table : u # t => restore'.work[u] = restore.work[u]
        /\ db' = db /\ locked' = locked \cup {t}
    BY <1>1, <1>5, <2>1, <2>2, WriteIs
  <2>4. restore.drop /\ t \in restore.source.tables => Seen[t] = {}
    BY <1>1, <1>3, SeenAt DEF RestoreOK, DoneAt, Holds
  <2>5. ASSUME NEW i \in 1 .. 4 PROVE DoneAt(i)'
    <3>1. SortedTables[i] \in Table /\ (i # n => SortedTables[i] # t)
      BY <1>1, TableAt
    <3>2. CASE i = n
      BY <1>1, <1>3, <2>3, <2>4, <3>2 DEF DoneAt, Holds
    <3>3. CASE i # n
      BY <1>1, <1>3, <2>3, <3>1, <3>3 DEF RestoreOK, DoneAt, Holds
    <3> QED
      BY <3>2, <3>3
  <2> QED
    BY <2>3, <2>5 DEF RestoreOK
<1> QED
  BY <1>2, <1>4, <1>5

LEMMA SeenReplacesDb ==
    ASSUME RestoreOK, TablesOK, db' = Seen
    PROVE  TablesOK'
<1>1. Tables(Seen) /\ Typed(Seen) /\ Consistent(Seen)
  BY SeenAt, SeenTyped DEF RestoreOK
<1>2. Tables(db') /\ Typed(db') /\ Consistent(db')
  BY <1>1
<1> QED
  BY <1>2 DEF TablesOK, Tables, Typed, Consistent

-----------------------------------------------------------------------------
(* The invariant *)

BackupInv == InventoryOK /\ DumpOK /\ FileOK(file) /\ RestoreOK

LEMMA InitInventory == InventoryInit => InventoryOK /\ locked = {}
<1> SUFFICES ASSUME InventoryInit PROVE InventoryOK /\ locked = {}
  OBVIOUS
<1>1. PICK k \in Role :
        db = [roles |-> {[role |-> k]}, hubs |-> {[hub |-> h, role |-> k] : h \in Hub},
              spokes |-> {}, peers |-> {}]
  BY DEF InventoryInit
<1>2. Tables(db)
  BY <1>1, TableIs DEF Tables
<1>0. /\ db["roles"] = {[role |-> k]} /\ db["hubs"] = {[hub |-> h, role |-> k] : h \in Hub}
      /\ db["spokes"] = {} /\ db["peers"] = {}
  BY <1>1
<1>3. Typed(db)
  <2>1. db["roles"] \subseteq Rows["roles"] /\ db["hubs"] \subseteq Rows["hubs"]
    BY <1>0, RowKinds
  <2> QED
    BY <1>0, <2>1, TableIs DEF Typed
<1>4. Consistent(db)
  <2>1. ASSUME NEW t \in Table, NEW r \in db[t], NEW q \in db[t], SameKey(t, r, q) PROVE r = q
    <3>1. CASE t = "roles"
      BY <1>0, <3>1
    <3>2. CASE t = "hubs"
      <4>1. r.hub = q.hub
        BY <2>1, <3>2 DEF SameKey
      <4> QED
        BY <1>0, <3>2, <4>1
    <3>3. CASE t = "spokes" \/ t = "peers"
      BY <1>0, <3>3
    <3> QED
      BY <3>1, <3>2, <3>3, TableIs
  <2>2. ASSUME NEW t \in Table, NEW r \in db[t], NEW u \in ForeignKeys[t]
        PROVE  \E q \in db[u] : RefersTo(t, r, u, q)
    <3>1. CASE t = "hubs"
      <4>1. u = "roles"
        BY <3>1, Parents
      <4>2. r.role = [role |-> k].role /\ [role |-> k] \in db["roles"]
        BY <1>0, <3>1
      <4> QED
        BY <4>1, <4>2 DEF RefersTo
    <3>2. CASE t # "hubs"
      BY <1>0, <3>2, TableIs, Parents
    <3> QED
      BY <3>1, <3>2
  <2> QED
    BY <2>1, <2>2 DEF Consistent
<1>5. PassesOK
  <2>1. pass = [w \in Worker |-> IdlePass]
    BY DEF InventoryInit
  <2>2. pass = [w \in Worker |-> pass[w]] /\ \A w \in Worker : pass[w] = IdlePass
    BY <2>1
  <2> QED
    BY <2>2, IdleOK DEF PassesOK
<1>6. RestOK /\ locked = {}
  BY DEF InventoryInit, RestOK
<1> QED
  BY <1>2, <1>3, <1>4, <1>5, <1>6 DEF InventoryOK, TablesOK

LEMMA InitBackup == BackupInit => BackupInv
<1> SUFFICES ASSUME BackupInit PROVE BackupInv
  OBVIOUS
<1>1. InventoryOK /\ locked = {}
  BY InitInventory DEF BackupInit
<1>2. DumpOK /\ FileOK(file)
  BY InitDump, InitFiles DEF BackupInit
<1>3. /\ restore.at = "idle" /\ restore.table = 0 /\ restore.drop = FALSE
      /\ restore.source = NoFile /\ restore.work = NoTables
      /\ restore = [at |-> restore.at, table |-> restore.table, drop |-> restore.drop,
                    source |-> restore.source, work |-> restore.work]
  BY DEF BackupInit, NoRestore
<1>4. RestoreShape
  <2>1. restore.drop \in BOOLEAN
    BY <1>3, Zenon
  <2>2. /\ restore.at \in {"idle", "count", "delete", "insert"} /\ restore.table \in 0 .. 5
        /\ restore.at # "delete" /\ restore.at # "insert" /\ locked \subseteq Table
    BY <1>1, <1>3
  <2>3. FileOK(restore.source) /\ Tables(restore.work) /\ Typed(restore.work)
    BY <1>3, InitFiles, Empty
  <2> QED
    BY <1>1, <1>3, <2>1, <2>2, <2>3, Zenon DEF RestoreShape
<1>5. \A i \in 1 .. 4 : DoneAt(i)
  BY <1>3 DEF DoneAt
<1>6. Consistent(Seen)
  <2>1. \A t \in Table : db[t] = Seen[t]
    BY <1>1 DEF Seen
  <2> QED
    BY <1>1, <2>1, SameTables DEF InventoryOK, TablesOK
<1> QED
  BY <1>1, <1>2, <1>4, <1>5, <1>6 DEF BackupInv, RestoreOK

\* What dump, file and restore leave alone.
LEMMA SameDump == DumpOK /\ dump' = dump => DumpOK'
BY DEF DumpOK, Typed, Consistent, Tables

LEMMA SameFile == FileOK(file) /\ file' = file => FileOK(file)'
BY DEF FileOK, Typed, Consistent

LEMMA SameInventory ==
    ASSUME InventoryOK, UNCHANGED <<db, live, pass, calm>>,
           used' = used \/ \E kind \in Kind : Spend(kind)
    PROVE  InventoryOK'
<1>1. used' \in [Kind -> Nat]
  BY SpendOK DEF InventoryOK, RestOK
<1> QED
  BY <1>1 DEF InventoryOK, TablesOK, Tables, Typed, Consistent, PassesOK, PassOK, Pass, RestOK

LEMMA SameRestore ==
    ASSUME RestoreOK, UNCHANGED <<db, locked, restore>>
    PROVE  RestoreOK'
<1>1. RestoreShape' /\ \A i \in 1 .. 4 : DoneAt(i)'
  BY DEF RestoreOK, RestoreShape, FileOK, Typed, Tables, Consistent, DoneAt, Holds
<1>2. \A t \in Table : Seen[t] = Seen'[t]
  BY DEF Seen
<1>3. Consistent(Seen')
  BY <1>2, SameTables DEF RestoreOK
<1>4. Consistent(Seen)'
  BY <1>3 DEF Consistent
<1> QED
  BY <1>1, <1>4 DEF RestoreOK

LEMMA CommitRestoreOK ==
    ASSUME InventoryOK, RestoreOK, CommitRestore
    PROVE  InventoryOK' /\ RestoreOK'
<1>1. TablesOK'
  BY SeenReplacesDb DEF InventoryOK, CommitRestore
<1>2. RestoreOK'
  BY <1>1, EndedOK DEF CommitRestore
<1>3. PassesOK'
  <2>1. pass' = [w \in Worker |->
                  [pass[w] EXCEPT !.kept = {r \in @ : \E q \in Seen.peers : SameKey("peers", r, q)}]]
    BY DEF CommitRestore
  <2>2. pass' = [v \in Worker |-> pass'[v]] /\ \A v \in Worker : Fewer(v)
    BY <2>1 DEF Fewer
  <2>3. \A v \in Worker : PassOK(pass'[v])
    <3>1. TAKE v \in Worker
    <3>2. PICK K \in SUBSET pass[v].kept : pass'[v] = [pass[v] EXCEPT !.kept = K]
      BY <2>2 DEF Fewer
    <3>3. PassOK(pass[v])
      BY DEF InventoryOK, PassesOK
    <3> QED
      BY <3>2, <3>3, FewerKept
  <2> QED
    BY <2>2, <2>3 DEF PassesOK, PassOK, Pass
<1>4. RestOK'
  BY DEF CommitRestore, InventoryOK, RestOK
<1> QED
  BY <1>1, <1>2, <1>3, <1>4 DEF InventoryOK

LEMMA NextBackup == BackupInv /\ [BackupNext]_backupvars => BackupInv'
<1> SUFFICES ASSUME BackupInv, [BackupNext]_backupvars PROVE BackupInv'
  OBVIOUS
<1>0. InventoryOK /\ TablesOK /\ DumpOK /\ FileOK(file) /\ RestoreOK
  BY DEF BackupInv, InventoryOK
<1>1. CASE InventoryNext /\ UNCHANGED <<dump, file, restore>>
  <2>1. InventoryOK' /\ Respects
    BY <1>0, <1>1, InventoryStays
  <2>2. RestoreOK'
    BY <1>0, <1>1, <2>1, RequestsKeepSeen
  <2> QED
    BY <1>0, <1>1, <2>1, <2>2, SameDump, SameFile DEF BackupInv
<1>2. CASE BeginDump
  <2>1. /\ UNCHANGED <<db, locked, live, pass, calm, file, restore>> /\ Spend("dump")
        /\ "dump" \in Kind
    BY <1>2 DEF BeginDump, Kind
  <2> QED
    BY <1>0, <1>2, <2>1, BeginDumpOK, SameFile, SameInventory, SameRestore DEF BackupInv
<1>3. CASE SelectTable
  <2>1. /\ UNCHANGED <<db, locked, live, pass, calm, restore>>
        /\ used' = used \/ Spend("fault")
        /\ "fault" \in Kind
    BY <1>3 DEF SelectTable, Kind
  <2> QED
    BY <1>0, <1>3, <2>1, SelectTableOK, SameInventory, SameRestore DEF BackupInv
<1>4. CASE \E drop, decrypt \in BOOLEAN : BeginRestore(drop, decrypt)
  <2>1. PICK drop, decrypt \in BOOLEAN : BeginRestore(drop, decrypt)
    BY <1>4
  <2>2. /\ UNCHANGED <<db, live, pass, calm, dump, file>> /\ Spend("restore")
        /\ "restore" \in Kind
    BY <2>1 DEF BeginRestore, Kind
  <2> QED
    BY <1>0, <2>1, <2>2, BeginRestoreOK, SameDump, SameFile, SameInventory DEF BackupInv
<1>5. CASE CountRows \/ DeleteTable \/ DeletesDone \/ InsertTable
  <2>1. UNCHANGED <<db, live, pass, calm, used, dump, file>>
    BY <1>5 DEF CountRows, DeleteTable, DeletesDone, InsertTable, Rollback, Write, PassOver,
                inventoryvars
  <2>2. RestoreOK'
    BY <1>0, <1>5, CountRowsOK, DeleteTableOK, DeletesDoneOK, InsertTableOK
  <2> QED
    BY <1>0, <2>1, <2>2, SameDump, SameFile, SameInventory DEF BackupInv
<1>6. CASE StatementRefused \/ RestoreCut
  <2>1. /\ UNCHANGED <<db, live, pass, calm, dump, file>> /\ restore' = NoRestore /\ locked' = {}
        /\ used' = used \/ Spend("fault")
        /\ "fault" \in Kind
    BY <1>6 DEF StatementRefused, RestoreCut, Rollback, Kind
  <2>2. InventoryOK'
    BY <1>0, <2>1, SameInventory
  <2>3. RestoreOK'
    BY <2>1, <2>2, EndedOK DEF InventoryOK
  <2> QED
    BY <1>0, <2>1, <2>2, <2>3, SameDump, SameFile DEF BackupInv
<1>7. CASE CommitRestore
  <2>1. UNCHANGED <<dump, file>>
    BY <1>7 DEF CommitRestore
  <2> QED
    BY <1>0, <1>7, <2>1, CommitRestoreOK, SameDump, SameFile DEF BackupInv
<1>8. CASE UNCHANGED backupvars
  <2>1. UNCHANGED <<db, locked, live, pass, calm, used, dump, file, restore>>
    BY <1>8 DEF backupvars, inventoryvars
  <2> QED
    BY <1>0, <2>1, SameDump, SameFile, SameInventory, SameRestore DEF BackupInv
<1> QED
  BY <1>1, <1>2, <1>3, <1>4, <1>5, <1>6, <1>7, <1>8 DEF BackupNext

LEMMA BackupInvariant == BackupSpec => []BackupInv
BY InitBackup, NextBackup, PTL DEF BackupSpec

\* The tables, the passes, the dump and the restore keep their types, whatever is
\* committed beside them and wherever either command is cut off.
THEOREM BackupTypeCorrect == BackupSpec => []BackupTypeOK
<1>1. BackupInv => BackupTypeOK
  <2> SUFFICES ASSUME BackupInv PROVE BackupTypeOK
    OBVIOUS
  <2>1. \A w \in Worker : PassOK(pass[w])
    BY DEF BackupInv, InventoryOK, PassesOK
  <2>2. InventoryTypeOK
    BY <2>1 DEF BackupInv, InventoryOK, TablesOK, RestOK, Typed, RestoreOK, RestoreShape,
                PassOK, Pass, InventoryTypeOK
  <2> QED
    BY <2>2, Order DEF BackupInv, DumpOK, RestoreOK, RestoreShape, Typed, BackupTypeOK
<1> QED
  BY <1>1, BackupInvariant, PTL

-----------------------------------------------------------------------------
(* What a restore can do, and what it leaves *)

LEMMA SeenReplaced ==
    ASSUME NEW t \in Table, NEW X
    PROVE  /\ [Seen EXCEPT ![t] = X][t] = X
           /\ \A u \in Table : u # t => [Seen EXCEPT ![t] = X][u] = Seen[u]
BY DEF Seen

\* Children are deleted first: nothing refers to the table that is deleted next.
LEMMA DeleteIsLegal ==
    ASSUME BackupInv, restore.at = "delete", restore.source.tables = Table,
           NEW n \in 1 .. 4, restore.table = n
    PROVE  Deletable(SortedTables[n])
<1> DEFINE t == SortedTables[n]  E == [Seen EXCEPT ![t] = {}]
<1>1. t \in Table
  BY TableAt
<1>2. E[t] = {} /\ \A u \in Table : u # t => E[u] = Seen[u]
  BY <1>1, SeenReplaced
<1>3. \A i \in 1 .. 4 : i > n => Seen[SortedTables[i]] = {}
  BY TableAt, SeenAt DEF BackupInv, RestoreOK, DoneAt, Holds
<1>4. Consistent(Seen)
  BY DEF BackupInv, RestoreOK
<1> HIDE DEF E
<1>5. ASSUME NEW u \in Table, NEW r \in E[u], NEW q \in E[u], SameKey(u, r, q) PROVE r = q
  BY <1>2, <1>4, <1>5 DEF Consistent
<1>6. ASSUME NEW u \in Table, NEW r \in E[u], NEW p \in ForeignKeys[u]
      PROVE  \E q \in E[p] : RefersTo(u, r, p, q)
  <2>1. u # t /\ r \in Seen[u] /\ p \in Table
    BY <1>2, Parents
  <2>2. PICK j \in 1 .. 4 : SortedTables[j] = u
    BY TableAt
  <2>3. p # t
    <3>1. p = t => n < j
      BY <2>2, TableAt
    <3> QED
      BY <3>1, <2>1, <2>2, <1>3
  <2> QED
    BY <2>1, <2>3, <1>2, <1>4 DEF Consistent
<1> QED
  BY <1>5, <1>6 DEF Deletable, Consistent, E

\* Parents are inserted first, and the file is one moment of the database.
LEMMA InsertIsLegal ==
    ASSUME RepeatableRead, BackupInv, restore.at = "insert", restore.drop,
           restore.source.tables = Table, NEW n \in 1 .. 4, restore.table = n
    PROVE  Insertable(SortedTables[n])
<1> DEFINE t == SortedTables[n]  src == restore.source.rows
           E == [Seen EXCEPT ![t] = Seen[t] \cup src[t]]
<1>1. t \in Table
  BY TableAt
<1>2. \A i \in 1 .. 4 : Seen[SortedTables[i]] = IF i < n THEN src[SortedTables[i]] ELSE {}
  BY TableAt, SeenAt DEF BackupInv, RestoreOK, DoneAt, Holds
<1>3. Seen[t] = {} /\ ~(n < n)
  BY <1>2
<1>4. E[t] = src[t] /\ \A u \in Table : u # t => E[u] = Seen[u]
  <2>1. Seen[t] \cup src[t] = src[t]
    BY <1>3
  <2>2. E[t] = Seen[t] \cup src[t] /\ \A u \in Table : u # t => E[u] = Seen[u]
    BY <1>1, SeenReplaced
  <2> QED
    BY <2>1, <2>2, Zenon
<1>5. Consistent(src)
  BY DEF BackupInv, RestoreOK, RestoreShape, FileOK
<1>6. E = [Seen EXCEPT ![t] = @ \cup restore.source.rows[t]]
  BY <1>1, SeenAt DEF Tables
<1> HIDE DEF E, src
<1>7. \A i \in 1 .. 4 : E[SortedTables[i]] = IF i <= n THEN src[SortedTables[i]] ELSE {}
  <2>1. TAKE i \in 1 .. 4
  <2>2. CASE i = n
    BY <2>2, <1>4
  <2>3. CASE i # n
    <3>1. SortedTables[i] \in Table /\ SortedTables[i] # t
      BY <2>3, TableAt
    <3> QED
      BY <2>3, <3>1, <1>2, <1>4
  <2> QED
    BY <2>2, <2>3
<1>8. ASSUME NEW u \in Table, NEW r \in E[u], NEW q \in E[u], SameKey(u, r, q) PROVE r = q
  <2>1. PICK j \in 1 .. 4 : SortedTables[j] = u
    BY TableAt
  <2>2. E[u] = src[u] \/ E[u] = {}
    BY <2>1, <1>7
  <2> QED
    BY <2>2, <1>5, <1>8 DEF Consistent
<1>9. ASSUME NEW u \in Table, NEW r \in E[u], NEW p \in ForeignKeys[u]
      PROVE  \E q \in E[p] : RefersTo(u, r, p, q)
  <2>0. p \in Table
    BY Parents
  <2>1. PICK j \in 1 .. 4 : SortedTables[j] = u
    BY TableAt
  <2>2. PICK i \in 1 .. 4 : SortedTables[i] = p
    BY <2>0, TableAt
  <2>3. i < j
    BY <2>1, <2>2, TableAt
  <2>4. j <= n /\ E[u] = src[u]
    BY <2>1, <1>7, <1>9
  <2>5. E[p] = src[p]
    BY <2>2, <2>3, <2>4, <1>7
  <2> QED
    BY <2>4, <2>5, <1>5, <1>9 DEF Consistent
<1>10. Consistent(E)
  BY <1>8, <1>9 DEF Consistent
<1>11. Consistent([Seen EXCEPT ![t] = @ \cup restore.source.rows[t]])
  BY <1>6, <1>10
<1> QED
  BY <1>3, <1>11 DEF Insertable

\* Whatever is committed while a backup is taken, and whatever the tables hold
\* when it is restored, every statement of db restore --drop-existing is legal:
\* the backup is one consistent moment, and what a transaction sees beside the
\* restore's locks stays consistent.
THEOREM BackupsCanBeRestored == RepeatableRead => (BackupSpec => []DumpCanBeRestored)
<1>1. ASSUME RepeatableRead PROVE BackupSpec => []DumpCanBeRestored
  <2>1. BackupInv => DumpCanBeRestored
    BY <1>1, Order, DeleteIsLegal, InsertIsLegal DEF DumpCanBeRestored
  <2> QED
    BY <2>1, BackupInvariant, PTL
<1> QED
  BY <1>1

\* The restore's only step that changes the database puts the whole file there.
LEMMA CommitPutsAll ==
    ASSUME BackupInv, CommitRestore, NEW t \in restore.source.tables
    PROVE  /\ restore.source.rows[t] \subseteq db'[t]
           /\ restore.drop => db'[t] = restore.source.rows[t]
<1>1. restore.at = "insert" /\ restore.table = 5 /\ db' = Seen
  BY Order DEF CommitRestore, BackupInv, RestoreOK, RestoreShape
<1>2. t \in Table
  BY DEF BackupInv, RestoreOK, RestoreShape, FileOK
<1>3. PICK i \in 1 .. 4 : SortedTables[i] = t
  BY <1>2, TableAt
<1>4. i < 5 /\ DoneAt(i)
  BY DEF BackupInv, RestoreOK
<1>5. CASE restore.source.rows[t] = {}
  BY <1>1, <1>2, <1>3, <1>4, <1>5, SeenAt DEF DoneAt, Holds
<1>6. CASE restore.source.rows[t] # {}
  BY <1>1, <1>2, <1>3, <1>4, <1>6, SeenAt DEF DoneAt, Holds
<1> QED
  BY <1>5, <1>6

LEMMA AllOrNothingStep ==
    ASSUME BackupInv, BackupNext, restore' # restore, db' # db
    PROVE  CommitRestore
<1>1. ~(InventoryNext /\ UNCHANGED <<dump, file, restore>>)
  OBVIOUS
<1>2. ~BeginDump /\ ~SelectTable
  BY DEF BeginDump, SelectTable
<1>3. ~\E drop, decrypt \in BOOLEAN : BeginRestore(drop, decrypt)
  BY DEF BeginRestore
<1>4. ~CountRows /\ ~DeleteTable /\ ~DeletesDone /\ ~InsertTable
  BY DEF CountRows, DeleteTable, DeletesDone, InsertTable, Rollback, Write, PassOver, inventoryvars
<1>5. ~StatementRefused /\ ~RestoreCut
  BY DEF StatementRefused, RestoreCut, Rollback
<1> QED
  BY <1>1, <1>2, <1>3, <1>4, <1>5 DEF BackupNext

\* A restore puts the whole file into the database, and with --drop-existing
\* nothing else into its tables, or leaves the database as it was.
THEOREM RestoreIsAtomic == BackupSpec => AllOrNothing
<1>1. BackupInv /\ [BackupNext]_backupvars =>
        [restore' # restore /\ db' # db =>
           \A t \in restore.source.tables :
               /\ restore.source.rows[t] \subseteq db'[t]
               /\ restore.drop => db'[t] = restore.source.rows[t]]_backupvars
  BY AllOrNothingStep, CommitPutsAll
<1> QED
  BY <1>1, BackupInvariant, PTL DEF BackupSpec, AllOrNothing

-----------------------------------------------------------------------------
(* Pruning *)

\* What a step does to one pass, unless the hub changes.
Fate(v) ==
    \/ Fewer(v)
    \/ pass'[v] = IdlePass
    \/ \E h \in Hub : LoadHub(v, h) /\ pass'[v] = Loaded(h)
    \/ pass[v].at = "dump" /\ pass'[v] = Answered(pass[v])

LEMMA Fates ==
    ASSUME BackupInv, BackupNext
    PROVE  \/ live' = live /\ \A v \in Worker : Fate(v)
           \/ \E h \in Hub, keys \in SUBSET PublicKey : HubChanges(h, keys)
<1> DEFINE G == live' = live /\ \A v \in Worker : Fate(v)
<1>0. InventoryOK /\ \A v \in Worker : PassOK(pass[v])
  BY DEF BackupInv, InventoryOK, PassesOK
<1>1. ASSUME UNCHANGED <<live, pass>> PROVE G
  BY <1>0, <1>1, SameIsFewer DEF Fate
<1>2. ASSUME NEW w \in Worker,
             \/ \E h \in Hub : LoadHub(w, h)
             \/ ShowDump(w) \/ SSHFailed(w) \/ SavePeers(w) \/ SaveFails(w)
      PROVE  G
  <2>1. live' = live
    BY <1>2 DEF LoadHub, ShowDump, SSHFailed, SavePeers, SaveFails
  <2>2. Fate(w) /\ \A v \in Worker : v # w => Fate(v)
    BY <1>0, <1>2, PassSteps DEF Fate
  <2> QED
    BY <2>1, <2>2
<1>3. ASSUME NEW h \in Hub, NEW force \in BOOLEAN, DeleteHub(h, force) PROVE G
  <2>1. live' = live /\ pass' = [w \in Worker |-> Gone(pass[w], PeersOf(h))]
    BY <1>3 DEF DeleteHub
  <2>2. \A v \in Worker : Fewer(v)
    BY <2>1, GoneIsFewer DEF Fewer
  <2> QED
    BY <2>1, <2>2 DEF Fate
<1>4. ASSUME CommitRestore PROVE G
  <2>1. live' = live /\ pass' = [w \in Worker |->
          [pass[w] EXCEPT !.kept = {r \in @ : \E q \in Seen.peers : SameKey("peers", r, q)}]]
    BY <1>4 DEF CommitRestore
  <2>2. \A v \in Worker : Fewer(v)
    BY <2>1 DEF Fewer
  <2> QED
    BY <2>1, <2>2 DEF Fate
<1>5. ASSUME NEW k \in Role, CreateRole(k) \/ DeleteRole(k) PROVE G
  BY <1>1, <1>5 DEF CreateRole, DeleteRole
<1>6. ASSUME NEW h \in Hub, NEW k \in Role, RegisterHub(h, k) \/ UpdateHub(h, k) PROVE G
  BY <1>1, <1>6 DEF RegisterHub, UpdateHub
<1>7. ASSUME NEW h \in Hub, NEW k \in Role, NEW c \in Spoke, RegisterSpoke(c, h, k) PROVE G
  BY <1>1, <1>7 DEF RegisterSpoke
<1>8. ASSUME NEW r \in db.spokes, DeleteSpoke(r) \/ \E k \in Role : UpdateSpoke(r, k) PROVE G
  BY <1>1, <1>8 DEF DeleteSpoke, UpdateSpoke
<1>9. ASSUME BeginDump \/ SelectTable \/ CountRows \/ DeleteTable \/ DeletesDone \/ InsertTable
             \/ StatementRefused \/ RestoreCut \/ \E drop, decrypt \in BOOLEAN : BeginRestore(drop, decrypt)
      PROVE  G
  <2>1. UNCHANGED <<live, pass>>
    BY <1>9 DEF BeginDump, SelectTable, CountRows, DeleteTable, DeletesDone, InsertTable,
                StatementRefused, RestoreCut, BeginRestore, Rollback, inventoryvars
  <2> QED
    BY <1>1, <2>1
<1> HIDE DEF G
<1>10. G \/ \E h \in Hub, keys \in SUBSET PublicKey : HubChanges(h, keys)
  BY <1>2, <1>3, <1>4, <1>5, <1>6, <1>7, <1>8, <1>9 DEF BackupNext, InventoryNext
<1> QED
  BY <1>10 DEF G

\* A key that is off the hub, or that the answer does not have, was off the hub
\* since the load.
KnowsOff(p) ==
    p.at # "idle" =>
        /\ PublicKey \ live[p.hub] \subseteq p.off
        /\ p.at = "save" => PublicKey \ p.seen \subseteq p.off

OffInv == \A w \in Worker : KnowsOff(pass[w])

LEMMA NextOff == BackupInv /\ OffInv /\ [BackupNext]_backupvars => OffInv'
<1> SUFFICES ASSUME BackupInv, OffInv, [BackupNext]_backupvars PROVE OffInv'
  OBVIOUS
<1>0. InventoryOK /\ (\A v \in Worker : PassOK(pass[v])) /\ live \in [Hub -> SUBSET PublicKey]
  BY DEF BackupInv, InventoryOK, PassesOK, RestOK
<1>1. CASE UNCHANGED backupvars
  BY <1>1 DEF OffInv, KnowsOff, backupvars, inventoryvars
<1>2. CASE live' = live /\ \A v \in Worker : Fate(v)
  <2>1. ASSUME NEW v \in Worker PROVE KnowsOff(pass[v])'
    <3>1. CASE Fewer(v)
      <4>1. PICK K \in SUBSET pass[v].kept : pass'[v] = [pass[v] EXCEPT !.kept = K]
        BY <3>1 DEF Fewer
      <4>2. /\ pass'[v].at = pass[v].at /\ pass'[v].hub = pass[v].hub
            /\ pass'[v].seen = pass[v].seen /\ pass'[v].off = pass[v].off
        BY <4>1, <1>0, FewerKept
      <4> QED
        BY <4>2, <1>2 DEF OffInv, KnowsOff
    <3>2. CASE pass'[v] = IdlePass
      BY <3>2, IdleOK DEF KnowsOff
    <3>3. CASE \E h \in Hub : LoadHub(v, h) /\ pass'[v] = Loaded(h)
      <4>1. PICK h \in Hub : pass'[v] = Loaded(h)
        BY <3>3
      <4>2. pass'[v].at = "dump" /\ pass'[v].hub = h /\ pass'[v].off = PublicKey \ live[h]
        BY <4>1 DEF Loaded
      <4> QED
        BY <4>2, <1>2 DEF KnowsOff
    <3>4. CASE pass[v].at = "dump" /\ pass'[v] = Answered(pass[v])
      <4>1. /\ pass'[v].at = "save" /\ pass'[v].hub = pass[v].hub
            /\ pass'[v].seen = live[pass[v].hub] /\ pass'[v].off = pass[v].off
        BY <3>4, <1>0, AnsweredOK
      <4> QED
        BY <3>4, <4>1, <1>2 DEF OffInv, KnowsOff
    <3> QED
      BY <1>2, <3>1, <3>2, <3>3, <3>4 DEF Fate
  <2> QED
    BY <2>1 DEF OffInv
<1>3. CASE \E h \in Hub, keys \in SUBSET PublicKey : HubChanges(h, keys)
  <2>1. PICK h \in Hub, keys \in SUBSET PublicKey : HubChanges(h, keys)
    BY <1>3
  <2>2. /\ live' = [live EXCEPT ![h] = keys]
        /\ pass' = [w \in Worker |->
              IF pass[w].hub = h THEN [pass[w] EXCEPT !.off = @ \cup (PublicKey \ keys)]
              ELSE pass[w]]
    BY <2>1 DEF HubChanges
  <2>3. ASSUME NEW v \in Worker PROVE KnowsOff(pass[v])'
    <3>1. CASE pass[v].hub = h
      <4>1. /\ pass'[v].at = pass[v].at /\ pass'[v].hub = h
            /\ pass'[v].seen = pass[v].seen
            /\ pass'[v].off = pass[v].off \cup (PublicKey \ keys)
        BY <2>2, <3>1, <1>0, MoreOff
      <4>2. live'[h] = keys
        BY <2>2, <1>0
      <4> QED
        BY <4>1, <4>2 DEF OffInv, KnowsOff
    <3>2. CASE pass[v].hub # h
      <4>1. pass'[v] = pass[v]
        BY <2>2, <3>2
      <4>2. pass[v].at # "idle" => live'[pass[v].hub] = live[pass[v].hub]
        BY <2>2, <3>2, <1>0 DEF PassOK
      <4> QED
        BY <4>1, <4>2 DEF OffInv, KnowsOff
    <3> QED
      BY <3>1, <3>2
  <2> QED
    BY <2>3 DEF OffInv
<1> QED
  BY <1>1, <1>2, <1>3, Fates

LEMMA PeerKey == \A r, q : SameKey("peers", r, q) <=> r.hub = q.hub /\ r.key = q.key
BY DEF SameKey

\* A pass that saves prunes only what it did not see.
LEMMA SavedOrSeen ==
    ASSUME BackupInv, OffInv, NEW w \in Worker, SavePeers(w), NEW r \in PeersOf(pass[w].hub),
           r.key \notin {q.key : q \in {x \in db'.peers : x.hub = r.hub}}
    PROVE  r.key \in pass[w].off
<1> DEFINE p == pass[w]  v == View(p)
<1>0. InventoryOK /\ TablesOK /\ PassOK(p) /\ p.at = "save"
  BY DEF BackupInv, InventoryOK, PassesOK, SavePeers
<1>1. db'["peers"] = Upsert(p, v)
  <2>1. Commit([db EXCEPT !.peers = Upsert(p, v)]) /\ locked' = locked
    BY DEF SavePeers
  <2>2. Upsert(p, v) \subseteq Rows.peers
    BY <1>0, UpsertOK
  <2> QED
    BY <2>1, <2>2, <1>0, OneTable, TableIs
<1>2. r \in db.peers /\ r.hub = p.hub /\ r.key \in PublicKey
  <2>1. db["peers"] \subseteq [hub : Hub, key : PublicKey, managed : BOOLEAN]
    BY <1>0, TableIs, RowKinds DEF TablesOK, Typed
  <2> QED
    BY <2>1 DEF PeersOf
<1>3. r.key \notin p.seen
  <2>1. ASSUME r.key \in p.seen PROVE FALSE
    <3> DEFINE q == [hub |-> p.hub, key |-> r.key, managed |-> r.key \in v.clients]
    <3>1. q \in Upsert(p, v)
      BY <2>1 DEF Upsert
    <3>2. q.hub = r.hub /\ q.key = r.key
      BY <1>2
    <3> HIDE DEF q, p, v
    <3> QED
      BY <3>1, <3>2, <1>1
  <2> QED
    BY <2>1
<1>4. KnowsOff(p)
  BY DEF OffInv
<1> QED
  BY <1>0, <1>2, <1>3, <1>4 DEF KnowsOff

LEMMA PruneStep ==
    ASSUME BackupInv, BackupNext, NEW w \in Worker,
           pass[w].at = "save", pass'[w].at = "idle"
    PROVE  SavePeers(w) \/ db' = db
<1>0. InventoryOK /\ \A v \in Worker : PassOK(pass[v])
  BY DEF BackupInv, InventoryOK, PassesOK
<1>1. \A v \in Worker : Fewer(v) => pass'[v].at = pass[v].at
  BY <1>0, FewerKept DEF Fewer
<1>2. ~Fewer(w)
  BY <1>1
<1>3. pass'[w] # pass[w]
  BY <1>0, <1>2, SameIsFewer
<1>4. ASSUME NEW u \in Worker, SavePeers(u) PROVE u = w
  BY <1>0, <1>2, <1>4, PassSteps
<1>5. ASSUME NEW h \in Hub, NEW force \in BOOLEAN, DeleteHub(h, force) PROVE FALSE
  <2>1. pass' = [u \in Worker |-> Gone(pass[u], PeersOf(h))]
    BY <1>5 DEF DeleteHub
  <2>2. pass'[w] = Gone(pass[w], PeersOf(h))
    BY <2>1
  <2>3. \E K \in SUBSET pass[w].kept : Gone(pass[w], PeersOf(h)) = [pass[w] EXCEPT !.kept = K]
    BY GoneIsFewer
  <2> QED
    BY <2>2, <2>3, <1>2 DEF Fewer
<1>6. ASSUME CommitRestore PROVE FALSE
  <2>1. pass' = [u \in Worker |->
          [pass[u] EXCEPT !.kept = {r \in @ : \E q \in Seen.peers : SameKey("peers", r, q)}]]
    BY <1>6 DEF CommitRestore
  <2> QED
    BY <2>1, <1>2 DEF Fewer
<1>7. ASSUME NEW k \in Role, CreateRole(k) \/ DeleteRole(k) PROVE FALSE
  BY <1>3, <1>7 DEF CreateRole, DeleteRole
<1>8. ASSUME NEW h \in Hub, NEW k \in Role, RegisterHub(h, k) \/ UpdateHub(h, k) PROVE FALSE
  BY <1>3, <1>8 DEF RegisterHub, UpdateHub
<1>9. ASSUME NEW h \in Hub, NEW k \in Role, NEW c \in Spoke, RegisterSpoke(c, h, k) PROVE FALSE
  BY <1>3, <1>9 DEF RegisterSpoke
<1>10. ASSUME NEW r \in db.spokes, DeleteSpoke(r) \/ \E k \in Role : UpdateSpoke(r, k) PROVE FALSE
  BY <1>3, <1>10 DEF DeleteSpoke, UpdateSpoke
<1>11. ASSUME BeginDump \/ SelectTable \/ CountRows \/ DeleteTable \/ DeletesDone \/ InsertTable
              \/ StatementRefused \/ RestoreCut
              \/ \E drop, decrypt \in BOOLEAN : BeginRestore(drop, decrypt)
       PROVE  FALSE
  BY <1>3, <1>11 DEF BeginDump, SelectTable, CountRows, DeleteTable, DeletesDone, InsertTable,
               StatementRefused, RestoreCut, BeginRestore, Rollback, inventoryvars
<1>12. ASSUME NEW u \in Worker, ShowDump(u) \/ SSHFailed(u) \/ SaveFails(u) PROVE db' = db
  BY <1>12 DEF ShowDump, SSHFailed, SaveFails
<1>13. ASSUME NEW h \in Hub, NEW u \in Worker, LoadHub(u, h) PROVE db' = db
  BY <1>13 DEF LoadHub
<1>14. ASSUME NEW h \in Hub, NEW keys \in SUBSET PublicKey, HubChanges(h, keys) PROVE db' = db
  BY <1>14 DEF HubChanges
<1> QED
  BY <1>4, <1>5, <1>6, <1>7, <1>8, <1>9, <1>10, <1>11, <1>12, <1>13, <1>14
  DEF BackupNext, InventoryNext

\* A pass prunes a discovered peer only when the peer was off its hub at some time
\* since the pass began: an SSH failure, a late answer, another pass or a request
\* in between never makes it wipe a peer that stayed.
THEOREM PeersThatStayAreKept == BackupSpec => PruneOnlyTheGone
<1>1. BackupInit => OffInv
  <2> SUFFICES ASSUME BackupInit PROVE OffInv
    OBVIOUS
  <2>1. pass = [w \in Worker |-> IdlePass]
    BY DEF BackupInit, InventoryInit
  <2> QED
    BY <2>1, IdleOK DEF OffInv, KnowsOff
<1> DEFINE A == \A w \in Worker :
         pass[w].at = "save" /\ pass'[w].at = "idle" =>
             \A r \in PeersOf(pass[w].hub) :
                 r.key \notin {q.key : q \in {x \in db'.peers : x.hub = r.hub}} =>
                     r.key \in pass[w].off
<1>2. BackupInv /\ OffInv /\ [BackupNext]_backupvars => [A]_inventoryvars
  <2> SUFFICES ASSUME BackupInv, OffInv, [BackupNext]_backupvars, inventoryvars' # inventoryvars
               PROVE  A
    OBVIOUS
  <2>1. BackupNext
    BY DEF backupvars
  <2>2. SUFFICES ASSUME NEW w \in Worker, pass[w].at = "save", pass'[w].at = "idle",
                        NEW r \in PeersOf(pass[w].hub),
                        r.key \notin {q.key : q \in {x \in db'.peers : x.hub = r.hub}}
                 PROVE  r.key \in pass[w].off
    OBVIOUS
  <2>3. db' # db
    BY <2>2 DEF PeersOf
  <2> QED
    BY <2>1, <2>2, <2>3, PruneStep, SavedOrSeen
<1> QED
  BY <1>1, <1>2, NextOff, BackupInvariant, PTL DEF BackupSpec, PruneOnlyTheGone

-----------------------------------------------------------------------------
(* Convergence *)

\* The rows discovery should end with.
Exact(h) == {[hub |-> h, key |-> k, managed |-> k \in ClientKeys(h)] : k \in live[h]}

\* What a pass on a hub that has not changed since it was loaded knows of it.
UpToDate(p, h) ==
    p.at # "idle" /\ p.hub = h =>
        /\ p.clients = ClientKeys(h)
        /\ p.at = "save" => p.seen = live[h]
        /\ calm[h] = "quiet" => p.rows = PeersOf(h)

Settled(h) ==
    calm[h] # "changed" =>
        /\ \A w \in Worker : UpToDate(pass[w], h)
        /\ calm[h] = "passed" => PeersOf(h) = Exact(h)

SettledInv == \A h \in Hub : Settled(h)

\* A hub's clients and peers are those of two tables.
LEMMA SameSpokes ==
    ASSUME NEW h, db'["spokes"] = db["spokes"]
    PROVE  ClientKeys(h)' = ClientKeys(h)
BY DEF ClientKeys, SpokesOf

LEMMA SamePeers ==
    ASSUME NEW h, db'["peers"] = db["peers"]
    PROVE  PeersOf(h)' = PeersOf(h)
BY DEF PeersOf

\* A request that leaves a hub undisturbed does not change its clients.
LEMMA SpokesApart ==
    ASSUME NEW h, {r \in db'["spokes"] : r.hub = h} = {r \in db["spokes"] : r.hub = h}
    PROVE  ClientKeys(h)' = ClientKeys(h)
BY DEF ClientKeys, SpokesOf

\* A pass on one hub leaves the rows of the others alone.
LEMMA PeersApart ==
    ASSUME InventoryOK, NEW w \in Worker, NEW h, h # pass[w].hub,
           NEW v, \A r \in v.rows : r.hub = pass[w].hub
    PROVE  {r \in Upsert(pass[w], v) : r.hub = h} = PeersOf(h)
<1> DEFINE p == pass[w]
           saved == {[hub |-> p.hub, key |-> k, managed |-> k \in v.clients] : k \in p.seen}
<1>1. \A q \in saved : q.hub = p.hub
  OBVIOUS
<1>2. \A q \in Stale(v.rows, p.seen) : q.hub = p.hub
  BY DEF Stale
<1>3. Upsert(p, v) = {r \in db.peers : /\ \A q \in Stale(v.rows, p.seen) : ~SameKey("peers", r, q)
                                       /\ \A q \in saved : ~SameKey("peers", r, q)} \cup saved
  BY DEF Upsert
<1> HIDE DEF saved
<1>4. \A r : r.hub = h => /\ \A q \in Stale(v.rows, p.seen) : ~SameKey("peers", r, q)
                          /\ \A q \in saved : ~SameKey("peers", r, q)
                          /\ r \notin saved
  BY <1>1, <1>2, PeerKey
<1> QED
  BY <1>3, <1>4 DEF PeersOf

\* A pass that is up to date leaves exactly the peers of its hub.
LEMMA PeersExact ==
    ASSUME InventoryOK, NEW w \in Worker, NEW h, pass[w].hub = h,
           NEW v, v.clients = ClientKeys(h), pass[w].seen = live[h],
           v.rows = PeersOf(h) \/ PeersOf(h) = Exact(h)
    PROVE  {r \in Upsert(pass[w], v) : r.hub = h} = Exact(h)
<1> DEFINE p == pass[w]
           saved == {[hub |-> p.hub, key |-> k, managed |-> k \in v.clients] : k \in p.seen}
<1>1. saved = Exact(h)
  BY DEF Exact
<1>2. /\ \A q \in Exact(h) : q.hub = h /\ q.key \in live[h]
      /\ \A k \in live[h] : \E q \in Exact(h) : q.hub = h /\ q.key = k
  <2>1. \A q \in Exact(h) : q.hub = h /\ q.key \in live[h]
    BY DEF Exact
  <2>2. ASSUME NEW k \in live[h] PROVE \E q \in Exact(h) : q.hub = h /\ q.key = k
    <3> DEFINE q == [hub |-> h, key |-> k, managed |-> k \in ClientKeys(h)]
    <3>1. q \in Exact(h) /\ q.hub = h /\ q.key = k
      BY DEF Exact
    <3> HIDE DEF q
    <3> QED
      BY <3>1
  <2> QED
    BY <2>1, <2>2
<1>3. Upsert(p, v) = {r \in db.peers : /\ \A q \in Stale(v.rows, p.seen) : ~SameKey("peers", r, q)
                                       /\ \A q \in saved : ~SameKey("peers", r, q)} \cup saved
  BY DEF Upsert
<1> HIDE DEF saved
<1>4. ASSUME NEW r \in PeersOf(h)
      PROVE  \/ \E q \in Stale(v.rows, p.seen) : SameKey("peers", r, q)
             \/ \E q \in saved : SameKey("peers", r, q)
  <2>1. CASE r.key \in live[h]
    BY <2>1, <1>1, <1>2, PeerKey DEF PeersOf
  <2>2. CASE r.key \notin live[h]
    <3>1. v.rows = PeersOf(h)
      BY <2>2, <1>2
    <3>2. r \in Stale(v.rows, p.seen)
      BY <3>1, <2>2 DEF Stale
    <3> QED
      BY <3>2, PeerKey
  <2> QED
    BY <2>1, <2>2
<1> QED
  BY <1>1, <1>2, <1>3, <1>4 DEF PeersOf

\* The hubs a step leaves alone.
Still(h) ==
    /\ live'[h] = live[h] /\ ClientKeys(h)' = ClientKeys(h)
    /\ calm'[h] = calm[h] /\ PeersOf(h)' = PeersOf(h)

\* A step changes a hub's mark, or leaves the hub alone, or is the beginning or
\* the end of a pass on it.
LEMMA HubFates ==
    ASSUME BackupInv, InventoryNext, NEW h \in Hub, calm'[h] # "changed"
    PROVE  \/ Still(h)
           \/ \E w \in Worker : LoadHub(w, h)
           \/ \E w \in Worker : SavePeers(w) /\ pass[w].hub = h
<1>0. /\ InventoryOK /\ TablesOK /\ RestOK
      /\ live \in [Hub -> SUBSET PublicKey] /\ calm \in [Hub -> {"changed", "quiet", "passed"}]
      /\ Table = {"roles", "hubs", "spokes", "peers"}
      /\ db.roles \subseteq Rows.roles /\ db.hubs \subseteq Rows.hubs
      /\ db.spokes \subseteq Rows.spokes /\ db.peers \subseteq Rows.peers
  BY TableIs DEF BackupInv, InventoryOK, TablesOK, RestOK, Typed
<1>1. ASSUME db'["spokes"] = db["spokes"], db'["peers"] = db["peers"], UNCHANGED <<live, calm>>
      PROVE  Still(h)
  BY <1>1, SameSpokes, SamePeers DEF Still
<1>2. ASSUME NEW k \in Role, CreateRole(k) PROVE Still(h)
  <2>1. db.roles \cup {[role |-> k]} \subseteq Rows.roles
    BY <1>0, RowKinds
  <2>2. db'["spokes"] = db["spokes"] /\ db'["peers"] = db["peers"]
    BY <1>0, <1>2, <2>1, OneTable DEF CreateRole
  <2> QED
    BY <1>1, <1>2, <2>2 DEF CreateRole
<1>3. ASSUME NEW k \in Role, DeleteRole(k) PROVE Still(h)
  <2>1. db.roles \ {[role |-> k]} \subseteq Rows.roles
    BY <1>0, RowKinds
  <2>2. db'["spokes"] = db["spokes"] /\ db'["peers"] = db["peers"]
    BY <1>0, <1>3, <2>1, OneTable DEF DeleteRole
  <2> QED
    BY <1>1, <1>3, <2>2 DEF DeleteRole
<1>4. ASSUME NEW g \in Hub, NEW k \in Role, UpdateHub(g, k) PROVE Still(h)
  <2>1. {r \in db.hubs : r.hub # g} \cup {[hub |-> g, role |-> k]} \subseteq Rows.hubs
    BY <1>0, RowKinds
  <2>2. db'["spokes"] = db["spokes"] /\ db'["peers"] = db["peers"]
    BY <1>0, <1>4, <2>1, OneTable DEF UpdateHub
  <2> QED
    BY <1>1, <1>4, <2>2 DEF UpdateHub
<1>5. ASSUME NEW g \in Hub, Changed(g) PROVE g # h /\ calm'[h] = calm[h]
  BY <1>0, <1>5 DEF Changed
<1>6. ASSUME NEW g \in Hub, NEW k \in Role, RegisterHub(g, k) PROVE Still(h)
  <2>1. db.hubs \cup {[hub |-> g, role |-> k]} \subseteq Rows.hubs
    BY <1>0, RowKinds
  <2>2. db'["spokes"] = db["spokes"] /\ db'["peers"] = db["peers"]
    BY <1>0, <1>6, <2>1, OneTable DEF RegisterHub
  <2> QED
    BY <1>5, <1>6, <2>2, SameSpokes, SamePeers DEF RegisterHub, Still
<1>7. ASSUME NEW g \in Hub, NEW k \in Role, NEW c \in Spoke, RegisterSpoke(c, g, k) PROVE Still(h)
  <2> DEFINE r == [spoke |-> c, hub |-> g, role |-> k]
  <2>1. db.spokes \cup {r} \subseteq Rows.spokes /\ r.hub = g
    BY <1>0, RowKinds
  <2>2. db'["spokes"] = db["spokes"] \cup {r} /\ db'["peers"] = db["peers"]
    BY <1>0, <1>7, <2>1, OneTable DEF RegisterSpoke
  <2>3. g # h /\ calm'[h] = calm[h]
    BY <1>5, <1>7 DEF RegisterSpoke
  <2> HIDE DEF r
  <2>4. ClientKeys(h)' = ClientKeys(h)
    BY <2>1, <2>2, <2>3, SpokesApart
  <2> QED
    BY <1>7, <2>2, <2>3, <2>4, SamePeers DEF RegisterSpoke, Still
<1>8. ASSUME NEW r \in db.spokes, NEW k \in Role, UpdateSpoke(r, k) PROVE Still(h)
  <2> DEFINE q == [r EXCEPT !.role = k]
  <2>1. r \in [spoke : Spoke, hub : Hub, role : Role]
    BY <1>0, RowKinds
  <2>2. q \in [spoke : Spoke, hub : Hub, role : Role] /\ q.spoke = r.spoke /\ q.hub = r.hub
    BY <2>1
  <2> HIDE DEF q
  <2>3. (db.spokes \ {r}) \cup {q} \subseteq Rows.spokes
    BY <1>0, <2>2, RowKinds
  <2>4. db'["spokes"] = (db["spokes"] \ {r}) \cup {q} /\ db'["peers"] = db["peers"]
    BY <1>0, <1>8, <2>3, OneTable DEF UpdateSpoke, q
  <2>5. ClientKeys(h)' = ClientKeys(h)
    BY <2>2, <2>4 DEF ClientKeys, SpokesOf
  <2> QED
    BY <1>8, <2>4, <2>5, SamePeers DEF UpdateSpoke, Still
<1>9. ASSUME NEW r \in db.spokes, DeleteSpoke(r) PROVE Still(h)
  <2>1. db.spokes \ {r} \subseteq Rows.spokes /\ r.hub \in Hub
    <3>1. r \in [spoke : Spoke, hub : Hub, role : Role]
      BY <1>0, RowKinds
    <3> QED
      BY <1>0, <3>1
  <2>2. db'["spokes"] = db["spokes"] \ {r} /\ db'["peers"] = db["peers"]
    BY <1>0, <1>9, <2>1, OneTable DEF DeleteSpoke
  <2>3. r.hub # h /\ calm'[h] = calm[h]
    BY <1>5, <1>9, <2>1 DEF DeleteSpoke
  <2>4. ClientKeys(h)' = ClientKeys(h)
    BY <2>2, <2>3, SpokesApart
  <2> QED
    BY <1>9, <2>2, <2>3, <2>4, SamePeers DEF DeleteSpoke, Still
<1>10. ASSUME NEW g \in Hub, NEW force \in BOOLEAN, DeleteHub(g, force) PROVE Still(h)
  <2>1. g # h /\ calm'[h] = calm[h] /\ live' = live
    BY <1>5, <1>10 DEF DeleteHub
  <2>2. db' = [db EXCEPT !.hubs   = {r \in @ : r.hub # g},
                         !.spokes = @ \ SpokesOf(g),
                         !.peers  = IF force THEN @ \ PeersOf(g) ELSE @]
    BY <1>10 DEF DeleteHub, Commit
  <2>3. /\ db'["spokes"] = db["spokes"] \ SpokesOf(g)
        /\ db'["peers"] = db["peers"] \ PeersOf(g) \/ db'["peers"] = db["peers"]
    BY <2>2, <1>0 DEF TablesOK, Tables
  <2>4. {r \in db'["spokes"] : r.hub = h} = {r \in db["spokes"] : r.hub = h}
    BY <2>1, <2>3 DEF SpokesOf
  <2>5. PeersOf(h)' = PeersOf(h)
    BY <2>1, <2>3 DEF PeersOf
  <2> QED
    BY <2>1, <2>4, <2>5, SpokesApart DEF Still
<1>11. ASSUME NEW g \in Hub, NEW keys \in SUBSET PublicKey, HubChanges(g, keys) PROVE Still(h)
  <2>1. g # h /\ calm'[h] = calm[h] /\ live' = [live EXCEPT ![g] = keys] /\ db' = db
    BY <1>5, <1>11 DEF HubChanges
  <2>2. live'[h] = live[h]
    BY <1>0, <2>1
  <2> QED
    BY <2>1, <2>2, SameSpokes, SamePeers DEF Still
<1>12. ASSUME NEW g \in Hub, NEW w \in Worker, LoadHub(w, g) PROVE Still(h) \/ LoadHub(w, h)
  <2>1. CASE g = h
    BY <1>12, <2>1
  <2>2. CASE g # h
    <3>1. calm'[h] = calm[h] /\ UNCHANGED <<db, live>>
      BY <1>0, <1>12, <2>2 DEF LoadHub
    <3> QED
      BY <3>1, SameSpokes, SamePeers DEF Still
  <2> QED
    BY <2>1, <2>2
<1>13. ASSUME NEW w \in Worker, ShowDump(w) \/ SSHFailed(w) \/ SaveFails(w) PROVE Still(h)
  BY <1>1, <1>13 DEF ShowDump, SSHFailed, SaveFails
<1>14. ASSUME NEW w \in Worker, SavePeers(w), pass[w].hub # h PROVE Still(h)
  <2> DEFINE v == View(pass[w])
  <2>1. /\ pass[w].at = "save" /\ live' = live /\ locked' = locked
        /\ Commit([db EXCEPT !.peers = Upsert(pass[w], v)])
        /\ calm' = [calm EXCEPT ![pass[w].hub] = IF @ = "quiet" THEN "passed" ELSE @]
    BY <1>14 DEF SavePeers
  <2>2. \A r \in v.rows : r.hub = pass[w].hub
    BY <1>0, ViewOK
  <2> HIDE DEF v
  <2>3. Upsert(pass[w], v) \subseteq Rows.peers
    BY <1>0, <2>1, UpsertOK
  <2>4. db'["spokes"] = db["spokes"] /\ db'["peers"] = Upsert(pass[w], v)
    BY <1>0, <2>1, <2>3, OneTable
  <2>5. PeersOf(h)' = {r \in Upsert(pass[w], v) : r.hub = h}
    BY <2>4 DEF PeersOf
  <2>6. PeersOf(h)' = PeersOf(h)
    BY <1>0, <1>14, <2>2, <2>5, PeersApart
  <2>7. calm'[h] = calm[h]
    BY <1>0, <1>14, <2>1
  <2> QED
    BY <2>1, <2>4, <2>6, <2>7, SameSpokes DEF Still
<1> QED
  BY <1>2, <1>3, <1>4, <1>6, <1>7, <1>8, <1>9, <1>10, <1>11, <1>12, <1>13, <1>14
  DEF InventoryNext

\* Passes on a hub that a step leaves alone stay up to date.
LEMMA StillUpToDate ==
    ASSUME BackupInv, NEW h \in Hub, NEW w \in Worker, UpToDate(pass[w], h),
           Fate(w), live'[h] = live[h], ClientKeys(h)' = ClientKeys(h),
           \A g \in Hub : LoadHub(w, g) => g # h,
           calm'[h] = "quiet" => calm[h] = "quiet" /\ PeersOf(h)' = PeersOf(h)
    PROVE  UpToDate(pass[w], h)'
<1>0. InventoryOK /\ PassOK(pass[w])
  BY DEF BackupInv, InventoryOK, PassesOK
<1>1. CASE Fewer(w)
  <2>1. PICK K \in SUBSET pass[w].kept : pass'[w] = [pass[w] EXCEPT !.kept = K]
    BY <1>1 DEF Fewer
  <2>2. /\ pass'[w].at = pass[w].at /\ pass'[w].hub = pass[w].hub /\ pass'[w].rows = pass[w].rows
        /\ pass'[w].clients = pass[w].clients /\ pass'[w].seen = pass[w].seen
    BY <2>1, <1>0, FewerKept
  <2> QED
    BY <2>2 DEF UpToDate
<1>2. CASE pass'[w] = IdlePass
  BY <1>2, IdleOK DEF UpToDate
<1>3. CASE \E g \in Hub : LoadHub(w, g) /\ pass'[w] = Loaded(g)
  <2>1. PICK g \in Hub : g # h /\ pass'[w] = Loaded(g)
    BY <1>3
  <2>2. pass'[w].hub = g
    BY <2>1 DEF Loaded
  <2> QED
    BY <2>1, <2>2 DEF UpToDate
<1>4. CASE pass[w].at = "dump" /\ pass'[w] = Answered(pass[w])
  <2>1. /\ pass'[w].at = "save" /\ pass'[w].hub = pass[w].hub /\ pass'[w].rows = pass[w].rows
        /\ pass'[w].clients = pass[w].clients /\ pass'[w].seen = live[pass[w].hub]
    BY <1>4, <1>0, AnsweredOK
  <2> QED
    BY <1>4, <2>1 DEF UpToDate
<1> QED
  BY <1>1, <1>2, <1>3, <1>4 DEF Fate

\* A pass that begins on a hub is up to date, and so are the others that count.
LEMMA LoadSettles ==
    ASSUME BackupInv, NEW h \in Hub, Settled(h), NEW w \in Worker, LoadHub(w, h),
           calm'[h] # "changed"
    PROVE  Settled(h)'
<1>0. /\ InventoryOK /\ PassesOK /\ (\A v \in Worker : PassOK(pass[v]))
      /\ calm \in [Hub -> {"changed", "quiet", "passed"}]
  BY DEF BackupInv, InventoryOK, PassesOK, RestOK
<1>1. /\ pass' = [pass EXCEPT ![w] = Loaded(h)] /\ UNCHANGED <<db, live>>
      /\ calm' = [calm EXCEPT ![h] = IF @ = "changed" /\ \A v \in Worker : pass[v].hub # h
                                     THEN "quiet" ELSE @]
  BY DEF LoadHub, Loaded
<1>2. PeersOf(h)' = PeersOf(h) /\ ClientKeys(h)' = ClientKeys(h)
  BY <1>1, SamePeers, SameSpokes
<1>3. \/ calm[h] = "changed" /\ calm'[h] = "quiet" /\ \A v \in Worker : pass[v].hub # h
      \/ calm[h] # "changed" /\ calm'[h] = calm[h]
  BY <1>0, <1>1
<1>4. pass'[w] = Loaded(h) /\ \A v \in Worker : v # w => pass'[v] = pass[v]
  BY <1>0, <1>1, OnePass
<1>5. UpToDate(pass[w], h)'
  <2>1. /\ pass'[w].clients = ClientKeys(h) /\ pass'[w].rows = PeersOf(h) /\ pass'[w].at = "dump"
    BY <1>4 DEF Loaded
  <2> QED
    BY <1>2, <2>1 DEF UpToDate
<1>6. ASSUME NEW v \in Worker, v # w PROVE UpToDate(pass[v], h)'
  BY <1>1, <1>2, <1>3, <1>4, <1>6 DEF UpToDate, Settled
<1>7. calm'[h] = "passed" => PeersOf(h)' = Exact(h)'
  <2>1. Exact(h)' = Exact(h)
    BY <1>1, <1>2 DEF Exact
  <2> QED
    BY <1>2, <1>3, <2>1 DEF Settled
<1> QED
  BY <1>5, <1>6, <1>7 DEF Settled

\* The first pass to succeed on a hub that has stopped changing leaves exactly its
\* peers, and so does every later one.
LEMMA SaveSettles ==
    ASSUME BackupInv, NEW h \in Hub, Settled(h), NEW w \in Worker, SavePeers(w),
           pass[w].hub = h, calm'[h] # "changed", \A v \in Worker : Fate(v)
    PROVE  Settled(h)'
<1>0. /\ InventoryOK /\ TablesOK /\ PassOK(pass[w]) /\ Table = {"roles", "hubs", "spokes", "peers"}
      /\ calm \in [Hub -> {"changed", "quiet", "passed"}]
  BY TableIs DEF BackupInv, InventoryOK, PassesOK, RestOK
<1> DEFINE v == View(pass[w])
<1>1. /\ pass[w].at = "save" /\ live' = live /\ locked' = locked
      /\ Commit([db EXCEPT !.peers = Upsert(pass[w], v)])
      /\ calm' = [calm EXCEPT ![h] = IF @ = "quiet" THEN "passed" ELSE @]
      /\ \A u \in Worker, g \in Hub : ~LoadHub(u, g)
  <2>1. used' = used
    BY DEF SavePeers
  <2>2. \A u \in Worker, g \in Hub : LoadHub(u, g) => used' # used
    <3>1. "pass" \in Kind /\ used \in [Kind -> Nat]
      BY DEF BackupInv, InventoryOK, RestOK, Kind
    <3>2. Spend("pass") => used'["pass"] = used["pass"] + 1 /\ used["pass"] \in Nat
      BY <3>1 DEF Spend
    <3>3. Spend("pass") => used'["pass"] # used["pass"]
      BY <3>2
    <3> QED
      BY <3>3 DEF LoadHub
  <2> QED
    BY <2>1, <2>2 DEF SavePeers
<1>2. calm[h] # "changed" /\ calm'[h] = "passed" /\ (calm[h] = "quiet" \/ calm[h] = "passed")
  BY <1>0, <1>1
<1>3. /\ pass[w].clients = ClientKeys(h) /\ pass[w].seen = live[h]
      /\ calm[h] = "quiet" => pass[w].rows = PeersOf(h)
      /\ calm[h] = "passed" => PeersOf(h) = Exact(h)
  BY <1>1, <1>2 DEF Settled, UpToDate
<1>4. v.clients = ClientKeys(h) /\ (v.rows = PeersOf(h) \/ PeersOf(h) = Exact(h))
  <2>1. CASE RepeatableRead
    <3>1. v.clients = pass[w].clients /\ v.rows = pass[w].rows
      BY <2>1 DEF View
    <3> QED
      BY <3>1, <1>2, <1>3
  <2>2. CASE ~RepeatableRead
    BY <2>2 DEF View
  <2> QED
    BY <2>1, <2>2
<1> HIDE DEF v
<1>5. {r \in Upsert(pass[w], v) : r.hub = h} = Exact(h)
  BY <1>0, <1>3, <1>4, PeersExact
<1>6. db'["spokes"] = db["spokes"] /\ db'["peers"] = Upsert(pass[w], v)
  <2>1. Upsert(pass[w], v) \subseteq Rows.peers
    BY <1>0, <1>1, UpsertOK
  <2> QED
    BY <1>0, <1>1, <2>1, OneTable
<1>7. ClientKeys(h)' = ClientKeys(h)
  BY <1>6, SameSpokes
<1>8. Exact(h)' = Exact(h)
  BY <1>1, <1>7 DEF Exact
<1>9. PeersOf(h)' = Exact(h)'
  <2>1. PeersOf(h)' = {r \in Upsert(pass[w], v) : r.hub = h}
    BY <1>6 DEF PeersOf
  <2> QED
    BY <2>1, <1>5, <1>8
<1>10. ASSUME NEW u \in Worker PROVE UpToDate(pass[u], h)'
  <2>1. UpToDate(pass[u], h)
    BY <1>2 DEF Settled
  <2> QED
    BY <2>1, <1>1, <1>2, <1>7, StillUpToDate
<1> QED
  BY <1>9, <1>10 DEF Settled

LEMMA NextSettled == BackupInv /\ SettledInv /\ [BackupNext]_backupvars => SettledInv'
<1> SUFFICES ASSUME BackupInv, SettledInv, [BackupNext]_backupvars, NEW h \in Hub,
                    calm'[h] # "changed"
             PROVE  Settled(h)'
  BY DEF SettledInv, Settled
<1>0. Settled(h)
  BY DEF SettledInv
<1>1. ASSUME UNCHANGED <<db, live, pass, calm>> PROVE Settled(h)'
  <2>1. ClientKeys(h)' = ClientKeys(h) /\ PeersOf(h)' = PeersOf(h)
    BY <1>1, SameSpokes, SamePeers
  <2>2. Exact(h)' = Exact(h)
    BY <1>1, <2>1 DEF Exact
  <2> QED
    BY <1>0, <1>1, <2>1, <2>2 DEF Settled, UpToDate
<1>2. CASE BeginDump \/ SelectTable \/ CountRows \/ DeleteTable \/ DeletesDone \/ InsertTable
           \/ StatementRefused \/ RestoreCut
           \/ \E drop, decrypt \in BOOLEAN : BeginRestore(drop, decrypt)
  <2>1. UNCHANGED <<db, live, pass, calm>>
    BY <1>2 DEF BeginDump, SelectTable, CountRows, DeleteTable, DeletesDone, InsertTable,
                StatementRefused, RestoreCut, BeginRestore, Rollback, Write, PassOver, inventoryvars
  <2> QED
    BY <1>1, <2>1
<1>3. CASE CommitRestore
  BY <1>3 DEF CommitRestore
<1>4. CASE UNCHANGED backupvars
  BY <1>1, <1>4 DEF backupvars, inventoryvars
<1>5. CASE InventoryNext /\ UNCHANGED <<dump, file, restore>>
  <2>1. CASE \E w \in Worker : LoadHub(w, h)
    BY <1>0, <2>1, LoadSettles
  <2>2. CASE \E w \in Worker : SavePeers(w) /\ pass[w].hub = h
    <3>1. PICK w \in Worker : SavePeers(w) /\ pass[w].hub = h
      BY <2>2
    <3>2. \A v \in Worker : Fate(v)
      BY <3>1, PassSteps DEF Fate, BackupInv
    <3> QED
      BY <1>0, <3>1, <3>2, SaveSettles
  <2>3. CASE Still(h) /\ ~\E w \in Worker : LoadHub(w, h)
    <3>1. Exact(h)' = Exact(h)
      BY <2>3 DEF Still, Exact
    <3>2. ASSUME NEW w \in Worker PROVE UpToDate(pass[w], h)'
      <4>1. UpToDate(pass[w], h)
        BY <1>0, <2>3 DEF Settled, Still
      <4>2. CASE Fate(w)
        BY <4>1, <4>2, <2>3, StillUpToDate DEF Still
      <4>3. CASE \E g \in Hub, keys \in SUBSET PublicKey : HubChanges(g, keys)
        <5>1. PICK g \in Hub, keys \in SUBSET PublicKey : HubChanges(g, keys)
          BY <4>3
        <5>2. PassOK(pass[w]) /\ calm \in [Hub -> {"changed", "quiet", "passed"}]
          BY DEF BackupInv, InventoryOK, PassesOK, RestOK
        <5>3. g # h
          BY <5>1, <5>2 DEF HubChanges, Changed
        <5>4. /\ pass'[w].at = pass[w].at /\ pass'[w].hub = pass[w].hub
              /\ pass'[w].rows = pass[w].rows /\ pass'[w].clients = pass[w].clients
              /\ pass'[w].seen = pass[w].seen
          BY <5>1, <5>2, MoreOff DEF HubChanges
        <5> QED
          BY <4>1, <5>4, <2>3 DEF UpToDate, Still
      <4> QED
        BY <1>5, <4>2, <4>3, Fates DEF BackupNext
    <3> QED
      BY <1>0, <2>3, <3>1, <3>2 DEF Settled, Still
  <2> QED
    BY <1>5, <2>1, <2>2, <2>3, HubFates
<1> QED
  BY <1>2, <1>3, <1>4, <1>5 DEF BackupNext

\* "Two workers racing the same server_id converge to the same row set": once a hub
\* and its clients have stopped changing, any number of passes, in any overlap and
\* under either isolation level, leave exactly one row per peer with the right flag.
THEOREM RacingPassesConverge == BackupSpec => []PassesConverge
<1>1. BackupInit => SettledInv
  BY DEF BackupInit, InventoryInit, SettledInv, Settled
<1>2. SettledInv => PassesConverge
  BY DEF SettledInv, Settled, PassesConverge, Exact
<1> QED
  BY <1>1, <1>2, NextSettled, BackupInvariant, PTL DEF BackupSpec
=============================================================================
