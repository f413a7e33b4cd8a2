---------------------------- MODULE CertsProofs -----------------------------
(***************************************************************************)
(* Theorems about Certs, for any paths, jobs, lifetimes, intervals and     *)
(* bounds: its types, the revocations (flag, answer and audit row), and    *)
(* the renewals: no churn, broken files are due, and the headroom.         *)
(*                                                                         *)
(* Base holds the types and what each job holds; every other invariant is  *)
(* inductive relative to it.  Kept says what no step takes back, and the   *)
(* lemmas on kinds of steps (Kinds, RevocationKinds, Walkers, FilesKinds)  *)
(* reduce each proof to the few steps that matter to it.                   *)
(***************************************************************************)
EXTENDS Certs, SequenceTheorems, FiniteSetTheorems, WellFoundedInduction, TLAPS

-----------------------------------------------------------------------------
(* Types *)

\* The records of the jobs.
Progressing == [pc : Progress, source : Nat, path : Path \cup {NoPath},
                serial : Serial \cup {NoLeaf}, todo : SUBSET (1 .. Len(rows))]

\* What the variables hold; TypeOK without Len(rows) <= Len(leaves), which
\* needs the distinct serials of the next section.
Shape ==
    /\ now \in 0 .. MaxTime /\ lastWalk \in 0 .. now
    /\ leaves \in Seq(Leaf) /\ Len(leaves) <= MaxLeaf
    /\ crl \subseteq 1 .. Len(leaves)
    /\ rows \in Seq(Row)
    /\ disk \in [Path -> [leaf : Serial \cup {NoLeaf}, key : Serial \cup {NoLeaf}]]
    /\ job \in [Job -> Progressing]
    /\ told \subseteq 1 .. Len(rows)
    /\ used \in [Rare -> Nat]

\* Every leaf was signed for Ttl, also the renewals, which copy their source's window.
Windows ==
    \A s \in DOMAIN leaves :
        /\ leaves[s].not_before <= now
        /\ leaves[s].not_after = leaves[s].not_before + Ttl

\* Every row is of a leaf that the CA has signed.
RowsSigned == \A i \in DOMAIN rows : rows[i].serial \in DOMAIN leaves

Minting == {"mint", "leaf", "key", "row"}

\* What job j holds at each point, if r is its record.
Fits(j, r) ==
    /\ r.pc \in Minting => r.source \in DOMAIN rows \cup {NoRow}
    /\ r.pc \in Minting /\ j \notin Api => r.path \in Path
    /\ r.pc \in {"leaf", "key"} => j \notin Api
    /\ r.pc \in {"leaf", "key", "row"} =>
          /\ r.serial \in DOMAIN leaves
          /\ leaves[r.serial].not_before = now
    /\ r.pc \in {"revoke", "flip"} => r.source \in DOMAIN rows /\ j # Timer
    /\ r.pc = "flip" => rows[r.source].serial \in crl
    /\ r.pc = "walk" => j = Timer
    /\ \A i \in r.todo : rows[i].path # NoPath

Holding == \A j \in Job : Fits(j, job[j])

Base == Shape /\ Windows /\ RowsSigned /\ Holding

LEMMA JobSets ==
    /\ Timer \in Job /\ Api \subseteq Job /\ Cli \subseteq Job
    /\ \A j \in Job : j \in Api \/ j \in Cli \/ j = Timer
    /\ \A j \in Cli : j \notin Api
    /\ Timer \notin Api
BY CertsAssumption DEF Job

\* The tables as functions of their ids.
Tables ==
    /\ DOMAIN rows = 1 .. Len(rows) /\ Len(rows) \in Nat
    /\ \A i \in DOMAIN rows : /\ rows[i] \in Row
                              /\ rows[i].serial \in Serial /\ rows[i].path \in Path \cup {NoPath}
                              /\ rows[i].revoked \in BOOLEAN /\ rows[i].trail \in Nat
                              /\ rows[i].by \in Job
    /\ DOMAIN leaves = 1 .. Len(leaves) /\ Len(leaves) \in Nat
    /\ \A s \in DOMAIN leaves : /\ leaves[s] \in Leaf
                                /\ leaves[s].not_before \in Nat /\ leaves[s].not_after \in Nat

LEMMA TablesType == Shape => Tables
<1>. SUFFICES ASSUME Shape PROVE Tables
  OBVIOUS
<1>1. DOMAIN rows = 1 .. Len(rows) /\ Len(rows) \in Nat /\ \A i \in DOMAIN rows : rows[i] \in Row
  BY ElementOfSeq, LenProperties DEF Shape
<1>2. /\ DOMAIN leaves = 1 .. Len(leaves) /\ Len(leaves) \in Nat
      /\ \A s \in DOMAIN leaves : leaves[s] \in Leaf
  BY ElementOfSeq, LenProperties DEF Shape
<1>. QED
  BY <1>1, <1>2 DEF Tables, Row, Leaf, Trail

\* Free as a record of its type.
LEMMA FreeType ==
    ASSUME Shape
    PROVE  Free \in Progressing
BY DEF Free, Progressing, Progress, NoRow, NoLeaf

LEMMA SpendType ==
    ASSUME Shape, NEW m \in Rare, Spend(m)
    PROVE  used' \in [Rare -> Nat]
BY DEF Shape, Spend

\* The next step of a job, point by point.
LEMMA AdvanceIs ==
    ASSUME NEW j
    PROVE  /\ job[j].pc = "mint" =>
                  Advance(j) = [job[j] EXCEPT !.pc = IF j \in Api THEN "row" ELSE "leaf"]
           /\ job[j].pc = "leaf" => Advance(j) = [job[j] EXCEPT !.pc = "key"]
           /\ job[j].pc = "key" => Advance(j) = [job[j] EXCEPT !.pc = "row"]
           /\ job[j].pc = "row" => Advance(j) = Resume(j)
BY DEF Advance

LEMMA InitBase == Init => Base
<1>. SUFFICES ASSUME Init PROVE Base
  OBVIOUS
<1>1. Len(rows) = 0 /\ Len(leaves) = 0 /\ rows \in Seq(Row) /\ leaves \in Seq(Leaf)
      /\ DOMAIN rows = {} /\ DOMAIN leaves = {}
  BY DEF Init
<1>2. job \in [Job -> Progressing]
  BY DEF Init, Progressing, Free, Progress, NoRow, NoLeaf
<1>3. Shape
  BY <1>1, <1>2, CertsAssumption DEF Init, Shape, NoLeaf
<1>4. Holding
  BY DEF Init, Holding, Fits, Free, Minting
<1>. QED
  BY <1>1, <1>3, <1>4 DEF Base, Windows, RowsSigned

-----------------------------------------------------------------------------
(* What a step does to the tables *)

LEMMA Appending ==
    ASSUME NEW S, NEW s \in Seq(S), NEW e \in S
    PROVE  /\ Append(s, e) \in Seq(S)
           /\ Len(Append(s, e)) = Len(s) + 1
           /\ DOMAIN Append(s, e) = 1 .. Len(s) + 1
           /\ DOMAIN s = 1 .. Len(s) /\ Len(s) \in Nat
           /\ \A i \in DOMAIN s : Append(s, e)[i] = s[i]
           /\ Append(s, e)[Len(s) + 1] = e
BY AppendProperties, LenProperties

\* Steps that leave the clock, the CA and the table alone and move one job.
LEMMA OneJobMoves ==
    ASSUME Base, NEW j \in Job, NEW r \in Progressing, Fits(j, r),
           job' = [job EXCEPT ![j] = r], UNCHANGED <<now, leaves, crl, rows>>
    PROVE  Holding' /\ job' \in [Job -> Progressing'] /\ Windows' /\ RowsSigned'
<1>1. job' \in [Job -> Progressing']
  BY DEF Base, Shape, Progressing
<1>2. Holding'
  <2>. SUFFICES ASSUME NEW k \in Job PROVE Fits(k, job[k])'
    BY DEF Holding
  <2>1. CASE k = j
    BY <2>1 DEF Base, Shape, Fits
  <2>2. CASE k # j
    <3>1. job'[k] = job[k] /\ Fits(k, job[k])
      BY <2>2 DEF Base, Shape, Holding
    <3>. QED
      BY <3>1 DEF Fits
  <2>. QED
    BY <2>1, <2>2
<1>. QED
  BY <1>1, <1>2 DEF Base, Windows, RowsSigned

LEMMA FreeFits == ASSUME Shape, NEW j PROVE Fits(j, Free)
BY DEF Fits, Free, Minting

LEMMA ResumeFits ==
    ASSUME Base, NEW j \in Job
    PROVE  Resume(j) \in Progressing /\ Fits(j, Resume(j))
<1>1. CASE j = Timer
  BY <1>1, JobSets DEF Base, Shape, Holding, Fits, Resume, Free, Progressing, Progress, Minting, NoRow, NoLeaf
<1>2. CASE j # Timer
  BY <1>2, FreeType, FreeFits DEF Base, Resume
<1>. QED
  BY <1>1, <1>2

\* A job that begins to ask the CA for a leaf.
LEMMA BeginBase ==
    ASSUME Base, NEW j \in Job \ {Timer}, NEW source \in DOMAIN rows \cup {NoRow},
           NEW p \in Path \cup {NoPath}, j \in Api \/ p \in Path,
           NEW m \in Rare, Spend(m), Begin(j, source, p)
    PROVE  Base'
<1>. DEFINE r == [Free EXCEPT !.pc = "mint", !.source = source, !.path = p]
<1>1. source \in Nat
  BY DEF Base, Shape, NoRow
<1>2. r \in Progressing /\ Fits(j, r)
  BY <1>1 DEF Fits, Free, Minting, Progressing, Progress, NoRow, NoLeaf
<1>3. Holding' /\ job' \in [Job -> Progressing'] /\ Windows' /\ RowsSigned'
  BY <1>2, OneJobMoves DEF Begin
<1>. QED
  BY <1>3, SpendType DEF Base, Shape, Begin

LEMMA StartBase ==
    ASSUME Base,
           \/ \E j \in Api : IssueByAPI(j)
           \/ \E j \in Cli, p \in Path : IssueByCLI(j, p)
           \/ \E j \in Api, i \in DOMAIN rows : RenewByAPI(j, i)
           \/ \E j \in Cli, i \in DOMAIN rows, p \in Path : RenewByCLI(j, i, p)
    PROVE  Base'
<1>. USE JobSets
<1>1. CASE \E j \in Api : IssueByAPI(j)
  BY <1>1, BeginBase DEF IssueByAPI, Rare
<1>2. CASE \E j \in Cli, p \in Path : IssueByCLI(j, p)
  BY <1>2, CertsAssumption, BeginBase DEF IssueByCLI, Rare
<1>3. CASE \E j \in Api, i \in DOMAIN rows : RenewByAPI(j, i)
  <2>. PICK j \in Api, i \in DOMAIN rows : RenewByAPI(j, i)
    BY <1>3
  <2>1. rows[i].path \in Path \cup {NoPath}
    BY TablesType DEF Base, Tables
  <2>. QED
    BY <2>1, BeginBase DEF RenewByAPI, Rare
<1>4. CASE \E j \in Cli, i \in DOMAIN rows, p \in Path : RenewByCLI(j, i, p)
  BY <1>4, CertsAssumption, BeginBase DEF RenewByCLI, Rare
<1>. QED
  BY <1>1, <1>2, <1>3, <1>4

LEMMA StartRevokeBase ==
    ASSUME Base,
           \/ \E j \in Api, i \in DOMAIN rows : StartRevokeByAPI(j, i)
           \/ \E j \in Cli, i \in DOMAIN rows : StartRevokeByCLI(j, i)
    PROVE  Base'
<1>. USE JobSets
<1>1. ASSUME NEW j \in Job \ {Timer}, NEW i \in DOMAIN rows,
             job' = [job EXCEPT ![j] = [Free EXCEPT !.pc = "revoke", !.source = i]],
             Spend("revoke"), UNCHANGED <<now, lastWalk, leaves, crl, rows, disk, told>>
      PROVE  Base'
  <2>. DEFINE r == [Free EXCEPT !.pc = "revoke", !.source = i]
  <2>1. i \in Nat
    BY DEF Base, Shape
  <2>2. r \in Progressing /\ Fits(j, r)
    BY <2>1 DEF Fits, Free, Minting, Progressing, Progress, NoRow, NoLeaf
  <2>3. Holding' /\ job' \in [Job -> Progressing'] /\ Windows' /\ RowsSigned'
    BY <1>1, <2>2, OneJobMoves
  <2>. QED
    BY <1>1, <2>3, SpendType DEF Base, Shape, Rare
<1>2. ASSUME NEW j \in Api, NEW i \in DOMAIN rows, StartRevokeByAPI(j, i) PROVE Base'
  <2>1. CASE AlreadyRevoked(i)
    <3>1. told' \subseteq 1 .. Len(rows)
      BY <1>2, <2>1, TablesType DEF StartRevokeByAPI, Base, Shape, Tables
    <3>. QED
      BY <1>2, <2>1, <3>1, SpendType
         DEF StartRevokeByAPI, Base, Shape, Progressing, Windows, RowsSigned, Holding, Fits, Rare
  <2>2. CASE ~AlreadyRevoked(i)
    BY <1>1, <1>2, <2>2 DEF StartRevokeByAPI
  <2>. QED
    BY <2>1, <2>2
<1>3. ASSUME NEW j \in Cli, NEW i \in DOMAIN rows, StartRevokeByCLI(j, i) PROVE Base'
  BY <1>1, <1>3, CertsAssumption DEF StartRevokeByCLI
<1>. QED
  BY <1>2, <1>3

LEMMA WalkBase == Base /\ (StartWalk \/ NextDue \/ EndWalk) => Base'
<1>. SUFFICES ASSUME Base, StartWalk \/ NextDue \/ EndWalk PROVE Base'
  OBVIOUS
<1>. USE JobSets
<1>1. CASE StartWalk
  <2>. DEFINE due == {i \in DropSuperseded({k \in DOMAIN rows : ~rows[k].revoked}) :
                          rows[i].path # NoPath /\ RowIsDue(i)}
              r == [job[Timer] EXCEPT !.pc = "walk", !.todo = due]
  <2>1. due \subseteq DOMAIN rows /\ DOMAIN rows = 1 .. Len(rows)
    BY DEF DropSuperseded, Base, Shape
  <2>2. job' = [job EXCEPT ![Timer] = r]
    BY <1>1 DEF StartWalk, Base, Shape, Progressing
  <2>3. job[Timer] \in Progressing
    BY DEF Base, Shape
  <2>4. r \in Progressing
    <3>. HIDE DEF due
    <3>. QED
      BY <2>1, <2>3 DEF Progressing, Progress
  <2>5. Fits(Timer, r)
    BY <2>1, <2>3 DEF Progressing, Fits, Minting
  <2>6. Holding' /\ job' \in [Job -> Progressing'] /\ Windows' /\ RowsSigned'
    <3>. HIDE DEF r
    <3>. QED
      BY <1>1, <2>2, <2>4, <2>5, OneJobMoves DEF StartWalk
  <2>. QED
    BY <1>1, <2>6 DEF StartWalk, Base, Shape
<1>2. CASE NextDue
  <2>. PICK i \in job[Timer].todo :
          job' = [job EXCEPT ![Timer] = [Free EXCEPT !.pc = "mint", !.source = i,
                     !.path = rows[i].path, !.todo = job[Timer].todo \ {i}]]
    BY <1>2 DEF NextDue
  <2>. DEFINE r == [Free EXCEPT !.pc = "mint", !.source = i,
                     !.path = rows[i].path, !.todo = job[Timer].todo \ {i}]
  <2>1. job[Timer].todo \subseteq 1 .. Len(rows) /\ DOMAIN rows = 1 .. Len(rows)
    BY DEF Base, Shape, Progressing
  <2>2. i \in Nat /\ i \in DOMAIN rows /\ rows[i].path \in Path
    BY <2>1, TablesType DEF Base, Tables, Holding, Fits
  <2>3. r \in Progressing
    BY <2>1, <2>2 DEF Free, Progressing, Progress, NoRow, NoLeaf
  <2>4. Fits(Timer, r)
    BY <2>1, <2>2 DEF Fits, Free, Minting, Base, Holding
  <2>5. Holding' /\ job' \in [Job -> Progressing'] /\ Windows' /\ RowsSigned'
    <3>. HIDE DEF r
    <3>. QED
      BY <1>2, <2>3, <2>4, OneJobMoves DEF NextDue, r
  <2>. QED
    BY <1>2, <2>5 DEF NextDue, Base, Shape
<1>3. CASE EndWalk
  BY <1>3, FreeType, FreeFits, OneJobMoves DEF EndWalk, Base, Shape
<1>. QED
  BY <1>1, <1>2, <1>3

\* What no step takes back: the CA's leaves and its revocations, and of a row
\* everything but its flag and its audit rows.
Kept ==
    /\ now <= now'
    /\ crl \subseteq crl'
    /\ \A s \in DOMAIN leaves : s \in DOMAIN leaves' /\ leaves'[s] = leaves[s]
    /\ \A i \in DOMAIN rows :
          /\ i \in DOMAIN rows'
          /\ rows'[i].serial = rows[i].serial /\ rows'[i].path = rows[i].path
          /\ rows'[i].by = rows[i].by
          /\ rows[i].revoked => rows'[i].revoked

\* A leaf more, and the job holds it.
MintDoes(j) ==
    /\ leaves' \in Seq(Leaf) /\ Len(leaves') = Len(leaves) + 1 /\ Len(leaves') <= MaxLeaf
    /\ DOMAIN leaves' = 1 .. Len(leaves) + 1
    /\ \A s \in DOMAIN leaves : leaves'[s] = leaves[s]
    /\ leaves'[Len(leaves) + 1] = [not_before |-> now, not_after |-> now + Ttl]
    /\ job'[j] = [job[j] EXCEPT !.pc = IF j \in Api THEN "row" ELSE "leaf",
                                !.serial = Len(leaves) + 1]
    /\ \A k \in Job \ {j} : job'[k] = job[k]
    /\ Kept

LEMMA MintEffect == ASSUME Base, NEW j \in Job, Mint(j) PROVE MintDoes(j)
<1>1. job[j] \in Progressing /\ Tables /\ job[j].source \in DOMAIN rows \cup {NoRow}
  BY TablesType DEF Base, Shape, Holding, Fits, Minting, Mint
<1>2. TtlOf(j) = Ttl
  <2>1. CASE job[j].source = NoRow
    BY <2>1 DEF TtlOf
  <2>2. CASE job[j].source # NoRow
    <3>1. rows[job[j].source].serial \in DOMAIN leaves
      BY <1>1, <2>2 DEF Base, RowsSigned
    <3>2. /\ leaves[rows[job[j].source].serial].not_before \in Nat
          /\ leaves[rows[job[j].source].serial].not_after
               = leaves[rows[job[j].source].serial].not_before + Ttl
      BY <1>1, <3>1 DEF Tables, Base, Windows
    <3>. QED
      BY <2>2, <3>2, CertsAssumption DEF TtlOf
  <2>. QED
    BY <2>1, <2>2
<1>3. [not_before |-> now, not_after |-> now + Ttl] \in Leaf
  BY CertsAssumption DEF Base, Shape, Leaf
<1>4. /\ leaves' = Append(leaves, [not_before |-> now, not_after |-> now + Ttl])
      /\ Len(leaves) < MaxLeaf /\ leaves \in Seq(Leaf)
  BY <1>2 DEF Mint, Base, Shape
<1>5. /\ leaves' \in Seq(Leaf) /\ Len(leaves') = Len(leaves) + 1
      /\ DOMAIN leaves' = 1 .. Len(leaves) + 1
      /\ DOMAIN leaves = 1 .. Len(leaves) /\ Len(leaves) \in Nat
      /\ \A s \in DOMAIN leaves : leaves'[s] = leaves[s]
      /\ leaves'[Len(leaves) + 1] = [not_before |-> now, not_after |-> now + Ttl]
  BY <1>3, <1>4, Appending
<1>6. /\ job'[j] = [job[j] EXCEPT !.pc = IF j \in Api THEN "row" ELSE "leaf",
                                  !.serial = Len(leaves) + 1]
      /\ \A k \in Job \ {j} : job'[k] = job[k]
  BY <1>1, AdvanceIs DEF Mint, Base, Shape, Progressing
<1>7. Kept
  BY <1>5 DEF Kept, Mint, Base, Shape
<1>. QED
  BY <1>4, <1>5, <1>6, <1>7, CertsAssumption DEF MintDoes

\* A row more, and the job is done with its leaf.
InsertDoes(j) ==
    /\ rows' \in Seq(Row) /\ Len(rows') = Len(rows) + 1
    /\ DOMAIN rows' = 1 .. Len(rows) + 1
    /\ \A i \in DOMAIN rows : rows'[i] = rows[i]
    /\ rows'[Len(rows) + 1] = NewRow(j)
    /\ job'[j] = Resume(j)
    /\ \A k \in Job \ {j} : job'[k] = job[k]
    /\ Kept

LEMMA InsertEffect == ASSUME Base, NEW j \in Job, Insert(j) PROVE InsertDoes(j)
<1>1. job[j] \in Progressing /\ Tables /\ job[j].serial \in DOMAIN leaves /\ rows \in Seq(Row)
  BY TablesType DEF Base, Shape, Holding, Fits, Insert
<1>2. NewRow(j) \in Row
  BY <1>1, CertsAssumption DEF NewRow, Row, Trail, Progressing, Tables, Serial, Base, Shape
<1>3. /\ rows' \in Seq(Row) /\ Len(rows') = Len(rows) + 1
      /\ DOMAIN rows' = 1 .. Len(rows) + 1
      /\ DOMAIN rows = 1 .. Len(rows) /\ Len(rows) \in Nat
      /\ \A i \in DOMAIN rows : rows'[i] = rows[i]
      /\ rows'[Len(rows) + 1] = NewRow(j)
  BY <1>1, <1>2, Appending DEF Insert
<1>4. job'[j] = Resume(j) /\ \A k \in Job \ {j} : job'[k] = job[k]
  BY <1>1, AdvanceIs DEF Insert, Base, Shape
<1>5. Kept
  BY <1>3 DEF Kept, Insert, Base, Shape
<1>. QED
  BY <1>3, <1>4, <1>5 DEF InsertDoes

\* One row is flagged.
FlipDoes(j) ==
    /\ job[j].source \in DOMAIN rows /\ j # Timer
    /\ rows' \in Seq(Row) /\ Len(rows') = Len(rows) /\ DOMAIN rows' = DOMAIN rows
    /\ \A i \in DOMAIN rows \ {job[j].source} : rows'[i] = rows[i]
    /\ rows'[job[j].source] = [rows[job[j].source] EXCEPT !.revoked = TRUE,
                                  !.trail = Persist(j, rows[job[j].source].trail)]
    /\ job'[j] = Free
    /\ \A k \in Job \ {j} : job'[k] = job[k]
    /\ Kept

LEMMA FlipEffect == ASSUME Base, NEW j \in Job, Flip(j) PROVE FlipDoes(j)
<1>. DEFINE i == job[j].source
            e == [rows[i] EXCEPT !.revoked = TRUE, !.trail = Persist(j, rows[i].trail)]
<1>1. i \in DOMAIN rows /\ j # Timer /\ Tables /\ rows \in Seq(Row)
  BY TablesType DEF Base, Shape, Holding, Fits, Flip
<1>2. e \in Row
  <2>1. Persist(j, rows[i].trail) \in Trail
    BY <1>1 DEF Tables, Trail, Persist
  <2>2. rows[i] \in Row
    BY <1>1 DEF Tables
  <2>. QED
    BY <2>1, <2>2 DEF Row
<1>3. rows' = [rows EXCEPT ![i] = e]
  BY <1>1 DEF Flip, Tables, Row
<1>4. /\ rows' \in Seq(Row) /\ Len(rows') = Len(rows) /\ DOMAIN rows' = DOMAIN rows
      /\ \A k \in DOMAIN rows \ {i} : rows'[k] = rows[k]
      /\ rows'[i] = e
  <2>. HIDE DEF e, i
  <2>. QED
    BY <1>1, <1>2, <1>3, ExceptSeq, LenProperties DEF Tables
<1>5. job'[j] = Free /\ \A k \in Job \ {j} : job'[k] = job[k]
  BY DEF Flip, Base, Shape
<1>6. Kept
  <2>1. ASSUME NEW k \in DOMAIN rows
        PROVE  /\ k \in DOMAIN rows'
               /\ rows'[k].serial = rows[k].serial /\ rows'[k].path = rows[k].path
               /\ rows'[k].by = rows[k].by
               /\ rows[k].revoked => rows'[k].revoked
    <3>1. CASE k # i
      BY <1>4, <3>1
    <3>2. CASE k = i
      <4>1. rows[i] \in Row
        BY <1>1 DEF Tables
      <4>2. /\ e.serial = rows[i].serial /\ e.path = rows[i].path
            /\ e.by = rows[i].by /\ e.revoked
        BY <4>1 DEF Row
      <4>. HIDE DEF e, i
      <4>. QED
        BY <1>4, <3>2, <4>2
    <3>. QED
      BY <3>1, <3>2
  <2>. QED
    BY <2>1 DEF Kept, Flip, Base, Shape
<1>. QED
  BY <1>1, <1>4, <1>5, <1>6 DEF FlipDoes

\* Steps that move one job and otherwise only add to the tables.
LEMMA HoldingGrows ==
    ASSUME Base, Kept, now' = now, NEW j \in Job, \A k \in Job \ {j} : job'[k] = job[k],
           Fits(j, job[j])'
    PROVE  Holding'
<1>. SUFFICES ASSUME NEW k \in Job, k # j PROVE Fits(k, job[k])'
  BY DEF Holding
<1>1. job'[k] = job[k] /\ Fits(k, job[k]) /\ Tables /\ job[k].todo \subseteq DOMAIN rows
      /\ job[k].source \in Nat
  BY TablesType DEF Base, Shape, Holding, Progressing, Tables
<1>. QED
  BY <1>1 DEF Fits, Kept, Tables

LEMMA MintingBase == ASSUME Base, NEW j \in Job, Mint(j) \/ MintRefused(j) PROVE Base'
<1>. Tables
  BY TablesType DEF Base
<1>1. CASE Mint(j)
  <2>. USE <1>1 DEF MintDoes
  <2>. MintDoes(j)
    BY MintEffect
  <2>1. job[j] \in Progressing /\ Fits(j, job[j]) /\ job[j].pc = "mint" /\ rows' = rows /\ now' = now
    BY DEF Mint, Base, Shape, Holding
  <2>2. job'[j] \in Progressing
    <3>1. Len(leaves) + 1 \in Serial
      BY CertsAssumption DEF Serial, Tables
    <3>2. (IF j \in Api THEN "row" ELSE "leaf") \in Progress
      BY DEF Progress
    <3>. QED
      BY <2>1, <3>1, <3>2 DEF Progressing
  <2>3. job' \in [Job -> Progressing']
    <3>1. Progressing' = Progressing
      BY <2>1 DEF Progressing
    <3>2. \A k \in Job : job'[k] \in Progressing
      BY <2>2 DEF Base, Shape
    <3>. QED
      BY <3>1, <3>2 DEF Mint, Base, Shape
  <2>4. Fits(j, job[j])'
    <3>1. DOMAIN rows' = DOMAIN rows /\ Len(leaves) + 1 \in DOMAIN leaves'
      BY <2>1 DEF Tables
    <3>2. job'[j].serial = Len(leaves) + 1 /\ job'[j].source = job[j].source
          /\ job'[j].path = job[j].path /\ job'[j].todo = job[j].todo
          /\ job'[j].pc = IF j \in Api THEN "row" ELSE "leaf"
      BY <2>1 DEF Progressing
    <3>3. leaves'[job'[j].serial].not_before = now
      BY <3>2
    <3>. QED
      BY <2>1, <3>1, <3>2, <3>3 DEF Fits, Minting
  <2>5. Holding'
    BY <2>1, <2>4, HoldingGrows
  <2>6. Windows'
    <3>1. Ttl \in Nat /\ now \in Nat /\ Windows
      BY CertsAssumption DEF Base, Shape
    <3>2. ASSUME NEW s \in DOMAIN leaves'
          PROVE  leaves'[s].not_before <= now /\ leaves'[s].not_after = leaves'[s].not_before + Ttl
      <4>1. CASE s \in DOMAIN leaves
        BY <3>1, <4>1 DEF Windows
      <4>2. CASE s = Len(leaves) + 1
        BY <3>1, <4>2
      <4>. QED
        BY <4>1, <4>2 DEF Tables
    <3>. QED
      BY <2>1, <3>2 DEF Windows
  <2>7. RowsSigned'
    BY <2>1 DEF RowsSigned, Base, Tables
  <2>8. crl' \subseteq 1 .. Len(leaves')
    BY <2>1 DEF Mint, Base, Shape, Tables
  <2>. QED
    BY <2>3, <2>5, <2>6, <2>7, <2>8 DEF Mint, Base, Shape
<1>2. CASE MintRefused(j)
  <2>1. Holding' /\ job' \in [Job -> Progressing'] /\ Windows' /\ RowsSigned'
    BY <1>2, ResumeFits, OneJobMoves DEF MintRefused
  <2>. QED
    BY <1>2, <2>1, SpendType DEF MintRefused, Base, Shape, Rare
<1>. QED
  BY <1>1, <1>2

LEMMA WritingBase == ASSUME Base, NEW j \in Job, WriteLeaf(j) \/ WriteKey(j) PROVE Base'
<1>. DEFINE next == IF job[j].pc = "leaf" THEN "key" ELSE "row"
            r == [job[j] EXCEPT !.pc = next]
<1>1. job[j] \in Progressing /\ Fits(j, job[j]) /\ job[j].pc \in {"leaf", "key"}
  BY DEF WriteLeaf, WriteKey, Base, Shape, Holding
<1>2. r \in Progressing /\ Fits(j, r)
  BY <1>1 DEF Fits, Minting, Progressing, Progress
<1>3. job' = [job EXCEPT ![j] = r]
  BY <1>1, AdvanceIs DEF WriteLeaf, WriteKey
<1>4. Holding' /\ job' \in [Job -> Progressing'] /\ Windows' /\ RowsSigned'
  <2>. HIDE DEF r
  <2>. QED
    BY <1>2, <1>3, OneJobMoves DEF WriteLeaf, WriteKey
<1>5. used' \in [Rare -> Nat]
  BY SpendType DEF WriteLeaf, WriteKey, Base, Shape, Rare
<1>6. disk' \in [Path -> [leaf : Serial \cup {NoLeaf}, key : Serial \cup {NoLeaf}]]
  <2>1. /\ job[j].path \in Path /\ job[j].serial \in Serial \cup {NoLeaf}
        /\ disk \in [Path -> [leaf : Serial \cup {NoLeaf}, key : Serial \cup {NoLeaf}]]
    BY <1>1 DEF Fits, Minting, Progressing, Base, Shape
  <2>2. CASE WriteLeaf(j)
    BY <2>1, <2>2 DEF WriteLeaf
  <2>3. CASE WriteKey(j)
    BY <2>1, <2>3 DEF WriteKey
  <2>. QED
    BY <2>2, <2>3
<1>. QED
  BY <1>4, <1>5, <1>6 DEF WriteLeaf, WriteKey, Base, Shape

LEMMA InsertBase == ASSUME Base, NEW j \in Job, Insert(j) PROVE Base'
<1>. USE DEF InsertDoes
<1>. InsertDoes(j)
  BY InsertEffect
<1>1. Tables /\ Resume(j) \in Progressing /\ Fits(j, Resume(j)) /\ job[j].pc = "row" /\ Fits(j, job[j])
      /\ now' = now /\ leaves' = leaves /\ crl' = crl
  BY TablesType, ResumeFits DEF Base, Insert, Holding
<1>2. Progressing \subseteq Progressing'
  BY <1>1 DEF Progressing, Tables
<1>3. job' \in [Job -> Progressing']
  <2>1. \A k \in Job : job'[k] \in Progressing
    BY <1>1 DEF Base, Shape
  <2>. QED
    BY <1>2, <2>1 DEF Insert, Base, Shape
<1>4. Fits(j, job[j])'
  <2>1. Resume(j).todo \subseteq DOMAIN rows
    BY <1>1 DEF Progressing, Tables
  <2>. QED
    BY <1>1, <2>1 DEF Fits, Kept
<1>5. Holding'
  BY <1>1, <1>4, HoldingGrows
<1>6. RowsSigned'
  <2>1. rows'[Len(rows) + 1].serial \in DOMAIN leaves
    BY <1>1 DEF NewRow, Fits
  <2>. QED
    BY <1>1, <2>1 DEF RowsSigned, Base, Tables
<1>7. told' \subseteq 1 .. Len(rows')
  BY <1>1 DEF Insert, Base, Shape, Tables
<1>. QED
  BY <1>1, <1>3, <1>5, <1>6, <1>7 DEF Insert, Base, Shape, Windows

LEMMA RevokingBase ==
    ASSUME Base, NEW j \in Job, RevokeAtCA(j) \/ RevokeRefused(j) \/ Flip(j)
    PROVE  Base'
<1>. Tables /\ Free \in Progressing /\ Fits(j, Free)
  BY TablesType, FreeType, FreeFits DEF Base
<1>1. CASE RevokeAtCA(j)
  <2>1. job[j] \in Progressing /\ Fits(j, job[j]) /\ job[j].pc = "revoke" /\ now' = now
        /\ rows' = rows /\ leaves' = leaves
        /\ job' = [job EXCEPT ![j] = [job[j] EXCEPT !.pc = "flip"]]
        /\ crl' = crl \cup {rows[job[j].source].serial}
    BY <1>1 DEF RevokeAtCA, Base, Shape, Holding
  <2>2. rows[job[j].source].serial \in DOMAIN leaves /\ job[j].source \in DOMAIN rows
    BY <2>1 DEF Base, RowsSigned, Fits
  <2>3. job' \in [Job -> Progressing']
    BY <2>1 DEF Base, Shape, Progressing, Progress
  <2>4. Kept
    BY <2>1 DEF Kept, Base, Shape
  <2>5. Fits(j, job[j])'
    BY <2>1, <2>2 DEF Fits, Minting, Progressing, Base, Shape
  <2>6. Holding'
    BY <2>1, <2>4, <2>5, HoldingGrows DEF Base, Shape
  <2>. QED
    BY <1>1, <2>1, <2>2, <2>3, <2>6 DEF RevokeAtCA, Base, Shape, Windows, RowsSigned, Tables
<1>2. CASE RevokeRefused(j)
  <2>1. Holding' /\ job' \in [Job -> Progressing'] /\ Windows' /\ RowsSigned'
    BY <1>2, OneJobMoves DEF RevokeRefused
  <2>. QED
    BY <1>2, <2>1, SpendType DEF RevokeRefused, Base, Shape, Rare
<1>3. CASE Flip(j)
  <2>. USE <1>3 DEF FlipDoes
  <2>. FlipDoes(j)
    BY FlipEffect
  <2>1. now' = now /\ leaves' = leaves /\ crl' = crl
    BY DEF Flip
  <2>2. job' \in [Job -> Progressing']
    BY DEF Flip, Base, Shape, Progressing
  <2>3. Fits(j, job[j])'
    BY DEF Fits, Free, Minting
  <2>4. Holding'
    BY <2>1, <2>3, HoldingGrows
  <2>5. RowsSigned'
    BY <2>1 DEF RowsSigned, Base, Kept
  <2>6. told' \subseteq 1 .. Len(rows')
    BY DEF Flip, Base, Shape, Tables
  <2>. QED
    BY <2>1, <2>2, <2>4, <2>5, <2>6 DEF Flip, Base, Shape, Windows
<1>. QED
  BY <1>1, <1>2, <1>3

LEMMA CrashBase == ASSUME Base, NEW j \in Job, Crash(j) PROVE Base'
<1>1. Holding' /\ job' \in [Job -> Progressing'] /\ Windows' /\ RowsSigned'
  BY FreeType, FreeFits, OneJobMoves DEF Crash, Base
<1>2. used' \in [Rare -> Nat]
  BY SpendType DEF Crash, Base, Rare
<1>. QED
  BY <1>1, <1>2 DEF Crash, Base, Shape

LEMMA TickBase == Base /\ Tick => Base'
<1>. SUFFICES ASSUME Base, Tick PROVE Base'
  OBVIOUS
<1>1. Tables
  BY TablesType DEF Base
<1>2. Shape'
  BY CertsAssumption DEF Tick, Base, Shape, Progressing
<1>3. Windows'
  BY <1>1 DEF Tick, Base, Shape, Windows, Tables
<1>4. Holding'
  BY DEF Tick, Base, Holding, Fits, Minting
<1>. QED
  BY <1>2, <1>3, <1>4 DEF Tick, Base, RowsSigned

LEMMA StutterBase == Base /\ UNCHANGED vars => Base'
BY DEF vars, Base, Shape, Progressing, Windows, RowsSigned, Holding, Fits

LEMMA NextBase == Base /\ [Next]_vars => Base'
<1>. SUFFICES ASSUME Base, [Next]_vars PROVE Base'
  OBVIOUS
<1>. QED
  BY StartBase, StartRevokeBase, WalkBase, MintingBase, WritingBase, InsertBase, RevokingBase,
     CrashBase, TickBase, StutterBase DEF Next

LEMMA CertsBase == Spec => []Base
BY InitBase, NextBase, PTL DEF Spec

-----------------------------------------------------------------------------
(* Steps that add nothing to the tables *)

\* A job that has a leaf and has not recorded it.
Holds(j) == job[j].pc \in {"leaf", "key", "row"}

\* Nobody comes by a leaf, and nobody's leaf is exchanged.
Still ==
    /\ UNCHANGED <<leaves, rows>>
    /\ \A k \in Job : Holds(k)' =>
          Holds(k) /\ job'[k].serial = job[k].serial /\ job'[k].path = job[k].path

LEMMA StillSteps ==
    ASSUME Base,
           \/ \E j \in Api : IssueByAPI(j)
           \/ \E j \in Cli, p \in Path : IssueByCLI(j, p)
           \/ \E j \in Api, i \in DOMAIN rows : RenewByAPI(j, i) \/ StartRevokeByAPI(j, i)
           \/ \E j \in Cli, i \in DOMAIN rows, p \in Path : RenewByCLI(j, i, p)
           \/ \E j \in Cli, i \in DOMAIN rows : StartRevokeByCLI(j, i)
           \/ StartWalk \/ NextDue \/ EndWalk
           \/ \E j \in Job : \/ MintRefused(j) \/ WriteLeaf(j) \/ WriteKey(j)
                             \/ RevokeAtCA(j) \/ RevokeRefused(j) \/ Crash(j)
           \/ Tick
           \/ UNCHANGED vars
    PROVE  Still
<1>. USE JobSets DEF Holds
<1>0. job \in [Job -> Progressing]
  BY DEF Base, Shape
<1>1. ASSUME NEW j \in Job, NEW source, NEW p, Begin(j, source, p) PROVE Still
  BY <1>0, <1>1 DEF Begin, Still, Free, Progressing
<1>2. ASSUME NEW j \in Job, NEW i, StartRevokeByAPI(j, i) \/ StartRevokeByCLI(j, i) PROVE Still
  BY <1>0, <1>2 DEF StartRevokeByAPI, StartRevokeByCLI, Still, Free, Progressing
<1>3. CASE StartWalk
  BY <1>0, <1>3 DEF StartWalk, Still, Progressing
<1>4. CASE NextDue \/ EndWalk
  <2>1. \A k \in Job \ {Timer} : job'[k] = job[k]
    BY <1>0, <1>4 DEF NextDue, EndWalk
  <2>2. job'[Timer].pc \in {"mint", "free"}
    <3>1. CASE NextDue
      <4>1. PICK i \in job[Timer].todo :
               job' = [job EXCEPT ![Timer] = [Free EXCEPT !.pc = "mint", !.source = i,
                          !.path = rows[i].path, !.todo = job[Timer].todo \ {i}]]
        BY <3>1 DEF NextDue
      <4>. QED
        BY <1>0, <4>1 DEF Free
    <3>2. CASE EndWalk
      BY <1>0, <3>2 DEF EndWalk, Free
    <3>. QED
      BY <1>4, <3>1, <3>2
  <2>. QED
    BY <1>4, <2>1, <2>2 DEF NextDue, EndWalk, Still
<1>5. ASSUME NEW j \in Job, MintRefused(j) \/ RevokeAtCA(j) \/ RevokeRefused(j) \/ Crash(j) PROVE Still
  <2>1. \A k \in Job \ {j} : job'[k] = job[k]
    BY <1>0, <1>5 DEF MintRefused, RevokeAtCA, RevokeRefused, Crash
  <2>2. job'[j].pc \in {"walk", "free", "flip"}
    <3>1. Resume(j).pc \in {"walk", "free"} /\ Free.pc = "free"
      BY DEF Resume, Free
    <3>2. CASE MintRefused(j) \/ RevokeRefused(j) \/ Crash(j)
      BY <1>0, <3>1, <3>2 DEF MintRefused, RevokeRefused, Crash
    <3>3. CASE RevokeAtCA(j)
      BY <1>0, <3>3 DEF RevokeAtCA, Progressing
    <3>. QED
      BY <1>5, <3>2, <3>3
  <2>. QED
    BY <1>5, <2>1, <2>2 DEF MintRefused, RevokeAtCA, RevokeRefused, Crash, Still
<1>6. ASSUME NEW j \in Job, WriteLeaf(j) \/ WriteKey(j) PROVE Still
  <2>1. /\ UNCHANGED <<leaves, crl, rows>>
        /\ \/ job[j].pc = "leaf" /\ job' = [job EXCEPT ![j] = [job[j] EXCEPT !.pc = "key"]]
           \/ job[j].pc = "key" /\ job' = [job EXCEPT ![j] = [job[j] EXCEPT !.pc = "row"]]
    BY <1>6, AdvanceIs DEF WriteLeaf, WriteKey
  <2>. QED
    BY <1>0, <2>1 DEF Still, Progressing
<1>7. CASE Tick \/ UNCHANGED vars
  BY <1>7 DEF Tick, vars, Still
<1>. QED
  BY <1>1, <1>2, <1>3, <1>4, <1>5, <1>6, <1>7
     DEF IssueByAPI, IssueByCLI, RenewByAPI, RenewByCLI

LEMMA Kinds ==
    ASSUME Base, [Next]_vars
    PROVE  Still \/ \E j \in Job : Mint(j) \/ Insert(j) \/ Flip(j)
BY StillSteps DEF Next

\* No step takes back a leaf, a revocation or a row.
LEMMA NextKept == ASSUME Base, [Next]_vars PROVE Kept
<1>1. CASE \E j \in Job : Mint(j) \/ Insert(j) \/ Flip(j)
  BY <1>1, MintEffect, InsertEffect, FlipEffect DEF MintDoes, InsertDoes, FlipDoes
<1>2. CASE Still
  <2>1. crl \subseteq crl' /\ now <= now'
    <3>1. now \in Nat
      BY DEF Base, Shape
    <3>2. now' = now \/ now' = now + 1
      BY DEF Next, Begin, IssueByAPI, IssueByCLI, RenewByAPI, RenewByCLI,
             StartRevokeByAPI, StartRevokeByCLI, StartWalk, NextDue, EndWalk, Mint, MintRefused,
             WriteLeaf, WriteKey, Insert, RevokeAtCA, RevokeRefused, Flip, Crash, Tick, vars
    <3>3. crl' = crl \/ \E s : crl' = crl \cup {s}
      BY DEF Next, Begin, IssueByAPI, IssueByCLI, RenewByAPI, RenewByCLI,
             StartRevokeByAPI, StartRevokeByCLI, StartWalk, NextDue, EndWalk, Mint, MintRefused,
             WriteLeaf, WriteKey, Insert, RevokeAtCA, RevokeRefused, Flip, Crash, Tick, vars
    <3>. QED
      BY <3>1, <3>2, <3>3
  <2>. QED
    BY <1>2, <2>1 DEF Kept, Still
<1>. QED
  BY <1>1, <1>2, Kinds

-----------------------------------------------------------------------------
(* One row for each leaf *)

Distinct ==
    /\ \A i, k \in DOMAIN rows : rows[i].serial = rows[k].serial => i = k
    /\ \A j \in Job : Holds(j) => \A i \in DOMAIN rows : rows[i].serial # job[j].serial
    /\ \A j, k \in Job : Holds(j) /\ Holds(k) /\ job[j].serial = job[k].serial => j = k

LEMMA InitDistinct == Init => Distinct
BY DEF Init, Distinct, Holds, Free

LEMMA NextDistinct == Base /\ Distinct /\ [Next]_vars => Distinct'
<1>. SUFFICES ASSUME Base, Distinct, [Next]_vars PROVE Distinct'
  OBVIOUS
<1>. Tables
  BY TablesType DEF Base
<1>1. CASE Still
  BY <1>1 DEF Still, Distinct
<1>2. ASSUME NEW j \in Job, Mint(j) PROVE Distinct'
  <2>1. MintDoes(j) /\ rows' = rows /\ job[j] \in Progressing
    BY <1>2, MintEffect DEF Mint, Base, Shape
  <2>2. job'[j].serial = Len(leaves) + 1
    BY <2>1 DEF MintDoes, Progressing
  <2>3. \A i \in DOMAIN rows : rows[i].serial # Len(leaves) + 1
    BY DEF Base, RowsSigned, Tables
  <2>4. \A k \in Job \ {j} : Holds(k)' => Holds(k) /\ job[k].serial # Len(leaves) + 1
    BY <2>1 DEF MintDoes, Holds, Base, Holding, Fits, Tables
  <2>5. \A k \in Job \ {j} : job'[k] = job[k]
    BY <2>1 DEF MintDoes
  <2>. QED
    BY <2>1, <2>2, <2>3, <2>4, <2>5 DEF Distinct
<1>3. ASSUME NEW j \in Job, Insert(j) PROVE Distinct'
  <2>1. InsertDoes(j) /\ job[j].pc = "row" /\ Holds(j)
    BY <1>3, InsertEffect DEF Insert, Holds
  <2>2. ~Holds(j)' /\ rows'[Len(rows) + 1].serial = job[j].serial
    BY <2>1 DEF InsertDoes, Holds, Resume, Free, NewRow
  <2>3. \A k \in Job \ {j} : job'[k] = job[k] /\ (Holds(k)' <=> Holds(k))
    BY <2>1 DEF InsertDoes, Holds
  <2>4. DOMAIN rows' = DOMAIN rows \cup {Len(rows) + 1} /\ \A i \in DOMAIN rows : rows'[i] = rows[i]
    BY <2>1 DEF InsertDoes, Tables
  <2>. QED
    BY <2>1, <2>2, <2>3, <2>4 DEF Distinct
<1>4. ASSUME NEW j \in Job, Flip(j) PROVE Distinct'
  <2>1. FlipDoes(j)
    BY <1>4, FlipEffect
  <2>2. \A k \in Job : Holds(k)' => Holds(k) /\ job'[k] = job[k]
    BY <2>1 DEF FlipDoes, Holds, Free
  <2>3. DOMAIN rows' = DOMAIN rows /\ \A i \in DOMAIN rows : rows'[i].serial = rows[i].serial
    BY <2>1 DEF FlipDoes, Kept
  <2>. QED
    BY <2>2, <2>3 DEF Distinct
<1>. QED
  BY <1>1, <1>2, <1>3, <1>4, Kinds

\* Distinct rows hold distinct leaves, so there are at most as many.
LEMMA RowsFit == Base /\ Distinct => TypeOK
<1>. SUFFICES ASSUME Base, Distinct PROVE TypeOK
  OBVIOUS
<1>. Tables
  BY TablesType DEF Base
<1>. DEFINE f == [i \in 1 .. Len(rows) |-> rows[i].serial]
<1>1. f \in Injection(1 .. Len(rows), 1 .. Len(leaves))
  BY DEF Base, RowsSigned, Distinct, Tables, Injection, IsInjective
<1>2. IsFiniteSet(1 .. Len(leaves)) /\ Cardinality(1 .. Len(leaves)) = Len(leaves)
      /\ IsFiniteSet(1 .. Len(rows)) /\ Cardinality(1 .. Len(rows)) = Len(rows)
  <2>1. Len(rows) \in Int /\ Len(leaves) \in Int /\ 1 \in Int /\ Len(rows) >= 0 /\ Len(leaves) >= 0
    BY DEF Tables
  <2>2. ASSUME NEW n \in Int, n >= 0 PROVE IsFiniteSet(1 .. n) /\ Cardinality(1 .. n) = n
    <3>1. IsFiniteSet(1 .. n) /\ Cardinality(1 .. n) = IF 1 > n THEN 0 ELSE n - 1 + 1
      BY FS_Interval
    <3>. QED
      BY <2>2, <3>1
  <2>. QED
    BY <2>1, <2>2
<1>3. Len(rows) <= Len(leaves)
  BY <1>1, <1>2, FS_Injection
<1>. QED
  BY <1>3 DEF TypeOK, Base, Shape, Progressing

\* Every variable keeps its type; in particular the table never holds more rows
\* than the CA has signed leaves, whoever issues, renews and dies at the same time.
THEOREM CertsTypeCorrect == Spec => []TypeOK
BY InitBase, NextBase, InitDistinct, NextDistinct, RowsFit, PTL DEF Spec

-----------------------------------------------------------------------------
(* Revocation *)

Revoking(j) == job[j].pc \in {"revoke", "flip"}

\* Nobody sets out to revoke, and told and the rows stay.
NoRevocation ==
    /\ told' = told
    /\ \A k \in Job : Revoking(k)' => Revoking(k) /\ job'[k].source = job[k].source

LEMMA OtherSteps ==
    ASSUME Base,
           \/ \E j \in Api : IssueByAPI(j)
           \/ \E j \in Cli, p \in Path : IssueByCLI(j, p)
           \/ \E j \in Api, i \in DOMAIN rows : RenewByAPI(j, i)
           \/ \E j \in Cli, i \in DOMAIN rows, p \in Path : RenewByCLI(j, i, p)
           \/ StartWalk \/ NextDue \/ EndWalk
           \/ \E j \in Job : \/ Mint(j) \/ MintRefused(j)
                             \/ WriteLeaf(j) \/ WriteKey(j) \/ Insert(j)
                             \/ RevokeAtCA(j) \/ RevokeRefused(j) \/ Crash(j)
           \/ Tick
           \/ UNCHANGED vars
    PROVE  NoRevocation
<1>. USE JobSets DEF Revoking
<1>0. job \in [Job -> Progressing]
  BY DEF Base, Shape
<1>1. ASSUME NEW j \in Job, \A k \in Job \ {j} : job'[k] = job[k], told' = told,
             ~(job'[j].pc \in {"revoke", "flip"})
      PROVE  NoRevocation
  BY <1>1 DEF NoRevocation
<1>2. ASSUME NEW j \in Job, NEW source, NEW p, Begin(j, source, p) PROVE NoRevocation
  BY <1>0, <1>1, <1>2 DEF Begin, Free
<1>3. CASE StartWalk
  BY <1>0, <1>1, <1>3 DEF StartWalk, Progressing
<1>4. CASE NextDue
  <2>1. (\A k \in Job \ {Timer} : job'[k] = job[k]) /\ told' = told /\ job'[Timer].pc = "mint"
    BY <1>0, <1>4 DEF NextDue, Free
  <2>. QED
    BY <1>1, <2>1
<1>5. CASE EndWalk
  BY <1>0, <1>1, <1>5 DEF EndWalk, Free
<1>6. ASSUME NEW j \in Job, Mint(j) PROVE NoRevocation
  <2>1. MintDoes(j) /\ told' = told /\ job[j] \in Progressing
    BY <1>0, <1>6, MintEffect DEF Mint
  <2>2. job'[j].pc = IF j \in Api THEN "row" ELSE "leaf"
    BY <2>1 DEF MintDoes, Progressing
  <2>. QED
    BY <1>1, <2>1, <2>2 DEF MintDoes
<1>7. ASSUME NEW j \in Job, Insert(j) PROVE NoRevocation
  <2>1. InsertDoes(j) /\ told' = told
    BY <1>7, InsertEffect DEF Insert
  <2>2. Resume(j).pc \in {"walk", "free"}
    BY DEF Resume, Free
  <2>. QED
    BY <1>1, <2>1, <2>2 DEF InsertDoes
<1>8. ASSUME NEW j \in Job, MintRefused(j) \/ RevokeRefused(j) \/ Crash(j) PROVE NoRevocation
  <2>1. Resume(j).pc \in {"walk", "free"} /\ Free.pc = "free"
    BY DEF Resume, Free
  <2>2. told' = told /\ (job' = [job EXCEPT ![j] = Resume(j)] \/ job' = [job EXCEPT ![j] = Free])
    BY <1>8 DEF MintRefused, RevokeRefused, Crash
  <2>. QED
    BY <1>0, <1>1, <2>1, <2>2
<1>9. ASSUME NEW j \in Job, WriteLeaf(j) \/ WriteKey(j) PROVE NoRevocation
  <2>1. job[j].pc \in {"leaf", "key"} /\ job[j] \in Progressing /\ told' = told
        /\ job' = [job EXCEPT ![j] = Advance(j)]
    BY <1>0, <1>9 DEF WriteLeaf, WriteKey
  <2>2. Advance(j).pc \in {"key", "row"}
    BY <2>1, AdvanceIs DEF Progressing
  <2>. QED
    BY <1>0, <1>1, <2>1, <2>2
<1>10. ASSUME NEW j \in Job, RevokeAtCA(j) PROVE NoRevocation
  BY <1>0, <1>10 DEF RevokeAtCA, NoRevocation, Progressing
<1>11. CASE Tick \/ UNCHANGED vars
  BY <1>11 DEF Tick, vars, NoRevocation
<1>. QED
  BY <1>2, <1>3, <1>4, <1>5, <1>6, <1>7, <1>8, <1>9, <1>10, <1>11
     DEF IssueByAPI, IssueByCLI, RenewByAPI, RenewByCLI

\* A step revokes nothing, is the end of a revocation, or the start of one.
LEMMA RevocationKinds ==
    ASSUME Base, [Next]_vars
    PROVE  \/ NoRevocation /\ \A j \in Job : ~Flip(j)
           \/ \E j \in Job : Flip(j)
           \/ \E j \in Api, i \in DOMAIN rows : StartRevokeByAPI(j, i)
           \/ \E j \in Cli, i \in DOMAIN rows : StartRevokeByCLI(j, i)
BY OtherSteps DEF Next

Revocation == RegistryFollowsCA /\ RevokedStaysRefused

LEMMA InitRevocation == Init => Revocation
BY DEF Init, Revocation, RegistryFollowsCA, RevokedStaysRefused

\* Steps that are no flip leave the rows as they are, or add a fresh one.
LEMMA RowsWithoutFlip ==
    ASSUME Base, [Next]_vars, \A j \in Job : ~Flip(j)
    PROVE  \/ rows' = rows
           \/ /\ DOMAIN rows' = DOMAIN rows \cup {Len(rows) + 1}
              /\ \A i \in DOMAIN rows : rows'[i] = rows[i]
              /\ ~rows'[Len(rows) + 1].revoked
<1>1. CASE Still
  BY <1>1 DEF Still
<1>2. CASE \E j \in Job : Mint(j)
  BY <1>2 DEF Mint
<1>3. ASSUME NEW j \in Job, Insert(j)
      PROVE  /\ DOMAIN rows' = DOMAIN rows \cup {Len(rows) + 1}
             /\ \A i \in DOMAIN rows : rows'[i] = rows[i]
             /\ ~rows'[Len(rows) + 1].revoked
  <2>1. InsertDoes(j) /\ Tables
    BY <1>3, InsertEffect, TablesType DEF Base
  <2>2. ~NewRow(j).revoked
    BY DEF NewRow
  <2>. QED
    BY <2>1, <2>2 DEF InsertDoes, Tables
<1>. QED
  BY <1>1, <1>2, <1>3, Kinds

\* Flags and answers, for a step that ends no revocation.
LEMMA FlagsWithoutFlip ==
    ASSUME Base, Revocation, [Next]_vars, \A j \in Job : ~Flip(j),
           \A i \in told' : i \in told \/ (i \in DOMAIN rows /\ rows[i].revoked)
    PROVE  RegistryFollowsCA' /\ RevokedStaysRefused'
<1>1. Kept /\ Tables /\ told \subseteq DOMAIN rows
  BY NextKept, TablesType DEF Base, Shape, Tables
<1>2. \A i \in told' : i \in DOMAIN rows /\ rows[i].revoked
  BY <1>1 DEF Revocation, RevokedStaysRefused
<1>3. RevokedStaysRefused'
  BY <1>1, <1>2 DEF RevokedStaysRefused, Kept
<1>4. RegistryFollowsCA'
  BY <1>1, RowsWithoutFlip DEF Revocation, RegistryFollowsCA, Kept
<1>. QED
  BY <1>3, <1>4

LEMMA FlipRevocation == ASSUME Base, Revocation, NEW j \in Job, Flip(j) PROVE Revocation'
<1>. DEFINE s == job[j].source
<1>1. Tables /\ FlipDoes(j) /\ s \in DOMAIN rows /\ told' = told \cup {s} /\ crl' = crl
      /\ rows[s].serial \in crl /\ job[j].pc = "flip" /\ told \subseteq DOMAIN rows
      /\ rows[s] \in Row
  BY TablesType, FlipEffect DEF Base, Shape, Flip, FlipDoes, Holding, Fits, Tables
<1>2. /\ rows'[s].revoked = TRUE /\ rows'[s].trail = Persist(j, rows[s].trail)
      /\ rows'[s].serial = rows[s].serial
  BY <1>1 DEF FlipDoes, Row
<1>3. RegistryFollowsCA' /\ RevokedStaysRefused'
  BY <1>1, <1>2 DEF FlipDoes, Revocation, RegistryFollowsCA, RevokedStaysRefused
<1>. QED
  BY <1>3 DEF Revocation

\* To set out is not to arrive.
LEMMA StartIsNoFlip ==
    ASSUME Base, NEW i \in DOMAIN rows,
           \/ \E j \in Api : StartRevokeByAPI(j, i)
           \/ \E j \in Cli : StartRevokeByCLI(j, i)
    PROVE  \A k \in Job : ~Flip(k)
<1>1. job \in [Job -> Progressing]
  BY DEF Base, Shape
<1>. QED
  BY <1>1, JobSets DEF StartRevokeByAPI, StartRevokeByCLI, Flip, Free

LEMMA NextRevocation == Base /\ Revocation /\ [Next]_vars => Revocation'
<1>. SUFFICES ASSUME Base, Revocation, [Next]_vars PROVE Revocation'
  OBVIOUS
<1>1. CASE NoRevocation /\ \A j \in Job : ~Flip(j)
  BY <1>1, FlagsWithoutFlip DEF NoRevocation, Revocation
<1>2. CASE \E j \in Job : Flip(j)
  BY <1>2, FlipRevocation
<1>3. ASSUME NEW j \in Api, NEW i \in DOMAIN rows, StartRevokeByAPI(j, i) PROVE Revocation'
  <2>1. \A k \in Job : ~Flip(k)
    BY <1>3, StartIsNoFlip
  <2>2. told' = told \/ (told' = told \cup {i} /\ rows[i].revoked)
    BY <1>3 DEF StartRevokeByAPI, AlreadyRevoked
  <2>. QED
    BY <2>1, <2>2, FlagsWithoutFlip DEF Revocation
<1>4. ASSUME NEW j \in Cli, NEW i \in DOMAIN rows, StartRevokeByCLI(j, i) PROVE Revocation'
  <2>1. (\A k \in Job : ~Flip(k)) /\ told' = told
    BY <1>4, StartIsNoFlip DEF StartRevokeByCLI
  <2>. QED
    BY <2>1, FlagsWithoutFlip DEF Revocation
<1>. QED
  BY <1>1, <1>2, <1>3, <1>4, RevocationKinds

LEMMA CertsRevocation == Spec => [](Base /\ Revocation)
<1>1. Init => Base /\ Revocation
  BY InitBase, InitRevocation
<1>2. Base /\ Revocation /\ [Next]_vars => Base' /\ Revocation'
  BY NextBase, NextRevocation
<1>. QED
  BY <1>1, <1>2, PTL DEF Spec

\* The registry never runs ahead of the CA: revoke_cert calls the backend first.
THEOREM RegistryIsBackendFirst == Spec => []RegistryFollowsCA
BY CertsRevocation, PTL DEF Revocation

\* A revocation that was answered with success is one the middleware enforces
\* from then on, whatever the attempts before it and beside it did.
THEOREM RevocationIsEnforced == Spec => []RevokedStaysRefused
BY CertsRevocation, PTL DEF Revocation

\* A flagged row that no request is about to flag again.
Settled(i) == rows[i].revoked /\ Revokers(i) = {}

\* It stays like that and its audit trail too.
SettledStays(i) == Settled(i) =>
    rows'[i].revoked /\ rows'[i].trail = rows[i].trail /\ Revokers(i)' = {}

LEMMA SettledWithoutFlip ==
    ASSUME Base, [Next]_vars, \A j \in Job : ~Flip(j), NEW i \in DOMAIN rows,
           Settled(i), Revokers(i)' \subseteq Revokers(i)
    PROVE  SettledStays(i)
<1>1. rows'[i] = rows[i]
  BY RowsWithoutFlip
<1>. QED
  BY <1>1 DEF Settled, SettledStays

LEMMA SettledNext ==
    ASSUME Base, [Next]_vars, NEW i \in DOMAIN rows PROVE SettledStays(i)
<1>. SUFFICES ASSUME Settled(i) PROVE SettledStays(i)
  BY DEF SettledStays
<1>0. job \in [Job -> Progressing] /\ Api \subseteq Job
  BY JobSets DEF Base, Shape
<1>1. CASE NoRevocation /\ \A j \in Job : ~Flip(j)
  <2>1. Revokers(i)' \subseteq Revokers(i)
    BY <1>0, <1>1 DEF NoRevocation, Revokers, Revoking
  <2>. QED
    BY <1>1, <2>1, SettledWithoutFlip
<1>2. ASSUME NEW j \in Job, Flip(j) PROVE SettledStays(i)
  <2>1. Tables /\ FlipDoes(j) /\ job[j].pc = "flip" /\ rows[job[j].source] \in Row
        /\ job[j].source \in DOMAIN rows
    BY <1>2, TablesType, FlipEffect DEF Base, Flip, FlipDoes, Holding, Fits, Tables
  <2>2. Revokers(i)' \subseteq Revokers(i)
    BY <1>0, <2>1 DEF FlipDoes, Revokers, Free
  <2>3. CASE i = job[j].source
    <3>1. j \notin Api
      BY <2>1, <2>3 DEF Settled, Revokers
    <3>2. rows'[i].revoked /\ rows'[i].trail = rows[i].trail
      BY <2>1, <2>3, <3>1 DEF FlipDoes, Row, Persist
    <3>. QED
      BY <2>2, <3>2 DEF Settled, SettledStays
  <2>4. CASE i # job[j].source
    BY <2>1, <2>2, <2>4 DEF FlipDoes, Settled, SettledStays
  <2>. QED
    BY <2>3, <2>4
<1>3. ASSUME NEW j \in Api, NEW k \in DOMAIN rows, StartRevokeByAPI(j, k) PROVE SettledStays(i)
  <2>1. \A g \in Job : ~Flip(g)
    BY <1>3, StartIsNoFlip
  <2>2. Revokers(i)' \subseteq Revokers(i)
    <3>1. CASE rows[k].revoked
      BY <1>3, <3>1 DEF StartRevokeByAPI, AlreadyRevoked, Revokers
    <3>2. CASE ~rows[k].revoked
      <4>1. k # i /\ job'[j].source = k /\ \A g \in Api \ {j} : job'[g] = job[g]
        BY <1>0, <1>3, <3>2 DEF StartRevokeByAPI, AlreadyRevoked, Free, Settled
      <4>. QED
        BY <4>1 DEF Revokers
    <3>. QED
      BY <3>1, <3>2
  <2>. QED
    BY <2>1, <2>2, SettledWithoutFlip
<1>4. ASSUME NEW j \in Cli, NEW k \in DOMAIN rows, StartRevokeByCLI(j, k) PROVE SettledStays(i)
  <2>1. \A g \in Job : ~Flip(g)
    BY <1>4, StartIsNoFlip
  <2>2. Revokers(i)' \subseteq Revokers(i)
    BY <1>0, <1>4, JobSets DEF StartRevokeByCLI, Revokers
  <2>. QED
    BY <2>1, <2>2, SettledWithoutFlip
<1>. QED
  BY <1>1, <1>2, <1>3, <1>4, RevocationKinds

\* For any number of requests, shells and retries: the audit trail of a revocation
\* is final as soon as the requests that overlapped it are over.
THEOREM RevocationTrailIsFinal == Spec => AuditTrailIsFinal
<1>1. Base /\ [Next]_vars =>
        [\A i \in DOMAIN rows :
            /\ rows[i].revoked
            /\ Revokers(i) = {}
            => /\ rows'[i].revoked
               /\ rows'[i].trail = rows[i].trail
               /\ Revokers(i)' = {}]_<<rows, job>>
  BY SettledNext DEF SettledStays, Settled
<1>. QED
  BY <1>1, CertsRevocation, PTL DEF Spec, AuditTrailIsFinal

-----------------------------------------------------------------------------
(* The walk *)

\* When the leaf of row i was signed.
Born(i) == leaves[rows[i].serial].not_before

Due(i) == 2 * (now - Born(i)) >= Ttl

LEMMA BornType == Base => \A i \in DOMAIN rows : Born(i) \in Nat /\ Born(i) <= now /\ now \in Nat
<1>. SUFFICES ASSUME Base, NEW i \in DOMAIN rows
              PROVE  Born(i) \in Nat /\ Born(i) <= now /\ now \in Nat
  OBVIOUS
<1>1. Tables /\ rows[i].serial \in DOMAIN leaves /\ now \in Nat
  BY TablesType DEF Base, RowsSigned, Shape
<1>. QED
  BY <1>1 DEF Born, Tables, Base, Windows

\* RowIsDue, with the window that every leaf has.
LEMMA DueIs == Base => \A i \in DOMAIN rows : RowIsDue(i) <=> Due(i)
<1>. SUFFICES ASSUME Base, NEW i \in DOMAIN rows PROVE RowIsDue(i) <=> Due(i)
  OBVIOUS
<1>1. /\ Born(i) \in Nat /\ now \in Nat /\ Ttl \in Nat
      /\ leaves[rows[i].serial].not_after = Born(i) + Ttl
  BY BornType, CertsAssumption DEF Base, RowsSigned, Windows, Born
<1>2. leaves[rows[i].serial].not_after - Born(i) = Ttl
  BY <1>1
<1>. QED
  BY <1>2 DEF RowIsDue, Due, Born

\* Later rows hold later leaves.
Ordered == \A i, k \in DOMAIN rows : i <= k => Born(i) <= Born(k)

\* Old rows stay as old as they were.
LEMMA BornKept ==
    ASSUME Base, Kept
    PROVE  \A i \in DOMAIN rows : i \in DOMAIN rows' /\ Born(i)' = Born(i)
BY DEF Base, RowsSigned, Kept, Born

\* A row that appears is the last, is as old as the step and of the job that
\* inserts it.
LEMMA RowsAppear ==
    ASSUME Base, [Next]_vars, NEW i \in DOMAIN rows', i \notin DOMAIN rows
    PROVE  \E j \in Job :
              /\ Insert(j) /\ job[j].pc = "row" /\ InsertDoes(j)
              /\ i = Len(rows) + 1 /\ rows'[i] = NewRow(j)
              /\ rows'[i].path = job[j].path /\ rows'[i].by = j /\ rows'[i].serial = job[j].serial
              /\ ~rows'[i].revoked
              /\ Born(i)' = now
<1>1. Tables
  BY TablesType DEF Base
<1>2. ~Still /\ \A j \in Job : ~Mint(j) /\ ~Flip(j)
  BY FlipEffect DEF Still, Mint, FlipDoes
<1>3. PICK j \in Job : Insert(j)
  BY <1>2, Kinds
<1>4. InsertDoes(j) /\ job[j].pc = "row" /\ leaves' = leaves
      /\ leaves[job[j].serial].not_before = now
  BY <1>3, InsertEffect DEF Insert, Base, Holding, Fits
<1>5. i = Len(rows) + 1 /\ rows'[i] = NewRow(j)
  BY <1>1, <1>4 DEF InsertDoes, Tables
<1>6. /\ rows'[i].path = job[j].path /\ rows'[i].by = j /\ rows'[i].serial = job[j].serial
      /\ ~rows'[i].revoked
  BY <1>5 DEF NewRow
<1>7. Born(i)' = now
  BY <1>4, <1>6 DEF Born
<1>. QED
  BY <1>3, <1>4, <1>5, <1>6, <1>7

LEMMA NextOrdered == Base /\ Ordered /\ [Next]_vars => Ordered'
<1>. SUFFICES ASSUME Base, Ordered, [Next]_vars, NEW i \in DOMAIN rows', NEW k \in DOMAIN rows', i <= k
              PROVE  Born(i)' <= Born(k)'
  BY DEF Ordered
<1>1. Kept /\ Tables
  BY NextKept, TablesType DEF Base
<1>2. CASE k \in DOMAIN rows
  <2>1. i \in DOMAIN rows
    BY <1>1, <1>2, RowsAppear DEF Tables
  <2>. QED
    BY <1>1, <1>2, <2>1, BornKept DEF Ordered
<1>3. CASE k \notin DOMAIN rows
  <2>1. Born(k)' = now /\ now \in Nat
    BY <1>3, RowsAppear DEF Base, Shape
  <2>2. CASE i \in DOMAIN rows
    BY <1>1, <2>1, <2>2, BornKept, BornType
  <2>3. CASE i \notin DOMAIN rows
    <3>1. Born(i)' = now
      BY <2>3, RowsAppear
    <3>. QED
      BY <2>1, <3>1
  <2>. QED
    BY <2>2, <2>3
<1>. QED
  BY <1>2, <1>3

\* The rows the walk has selected and not dealt with.
Selected ==
    job[Timer].todo \cup (IF job[Timer].pc \in Minting THEN {job[Timer].source} ELSE {})

\* They are due, the walk has put nothing newer at their paths, and it comes to
\* each path once.
ChosenRows ==
    /\ \A i \in Selected :
          /\ i \in DOMAIN rows /\ rows[i].path \in Path /\ Due(i)
          /\ \A k \in DOMAIN rows :
                k > i /\ rows[k].path = rows[i].path /\ rows[k].by = Timer => rows[k].revoked
    /\ \A i, k \in Selected : rows[i].path = rows[k].path => i = k

ChosenJob ==
    /\ job[Timer].pc \in Minting =>
          /\ job[Timer].source \notin job[Timer].todo
          /\ job[Timer].path = rows[job[Timer].source].path
    /\ job[Timer].pc = "free" => job[Timer].todo = {}
    /\ job[Timer].pc # "free" => lastWalk = now

Chosen == ChosenRows /\ ChosenJob

LEMMA InitChosen == Init => Ordered /\ Chosen /\ NoRenewalChurn
BY JobSets DEF Init, Ordered, Chosen, ChosenRows, ChosenJob, Selected, Free, Minting, NoRenewalChurn

\* Steps in the middle of a walk: whatever else is recorded, the selection holds.
LEMMA SelectedKept ==
    ASSUME Base, ChosenRows, [Next]_vars, now' = now, Selected' \subseteq Selected,
           Insert(Timer) => \A i \in Selected' : rows[i].path # job[Timer].path
    PROVE  ChosenRows'
<1>1. Kept /\ Tables
  BY NextKept, TablesType DEF Base
<1>2. ASSUME NEW i \in Selected'
      PROVE  /\ i \in DOMAIN rows /\ i \in Selected /\ i \in DOMAIN rows' /\ rows'[i].path = rows[i].path
             /\ rows'[i].path \in Path /\ Due(i)'
  BY <1>1, <1>2, BornKept DEF ChosenRows, Due, Kept
<1>3. ASSUME NEW i \in Selected', NEW k \in DOMAIN rows',
             k > i, rows'[k].path = rows'[i].path, rows'[k].by = Timer
      PROVE  rows'[k].revoked
  <2>1. CASE k \in DOMAIN rows
    BY <1>1, <1>2, <1>3, <2>1 DEF ChosenRows, Kept
  <2>2. CASE k \notin DOMAIN rows
    <3>1. Insert(Timer) /\ rows'[k].path = job[Timer].path
      BY <1>3, <2>2, RowsAppear
    <3>. QED
      BY <1>2, <1>3, <3>1
  <2>. QED
    BY <2>1, <2>2
<1>4. \A i, k \in Selected' : rows'[i].path = rows'[k].path => i = k
  BY <1>2 DEF ChosenRows
<1>. QED
  BY <1>2, <1>3, <1>4 DEF ChosenRows

\* Steps that are not the walk's.
LEMMA WalkUndisturbed ==
    ASSUME Base, Chosen, [Next]_vars, ~Insert(Timer),
           job'[Timer] = job[Timer], now' = now, lastWalk' = lastWalk
    PROVE  Chosen'
<1>1. Selected' = Selected
  BY DEF Selected
<1>2. ChosenRows'
  BY <1>1, SelectedKept DEF Chosen
<1>3. ChosenJob'
  <2>1. Kept
    BY NextKept
  <2>2. job[Timer].pc \in Minting => job[Timer].source \in DOMAIN rows
    BY DEF Chosen, ChosenRows, Selected
  <2>. QED
    BY <2>1, <2>2 DEF Chosen, ChosenJob, Kept
<1>. QED
  BY <1>2, <1>3 DEF Chosen

\* At the start of a walk: the newest live row of its path stands for the path.
LEMMA StartWalkChosen == ASSUME Base, Ordered, Chosen, StartWalk PROVE Chosen'
<1>. DEFINE live == {i \in DOMAIN rows : ~rows[i].revoked}
            due == {i \in DropSuperseded(live) : rows[i].path # NoPath /\ RowIsDue(i)}
<1>. USE JobSets
<1>1. Tables /\ job \in [Job -> Progressing] /\ now \in Nat
  BY TablesType DEF Base, Shape
<1>2. job'[Timer].pc = "walk" /\ job'[Timer].todo = due
  BY <1>1 DEF StartWalk, Progressing
<1>3. Selected' = due
  BY <1>2 DEF Selected, Minting
<1>4. rows' = rows /\ leaves' = leaves /\ now' = now /\ lastWalk' = now
  BY DEF StartWalk
<1>5. ASSUME NEW i \in due
      PROVE  /\ i \in DOMAIN rows /\ rows[i].path \in Path /\ Due(i) /\ ~rows[i].revoked
             /\ \A k \in live : rows[k].path = rows[i].path => k <= i
  <2>1. i \in DOMAIN rows /\ rows[i].path # NoPath /\ RowIsDue(i) /\ ~rows[i].revoked
        /\ \A k \in live : rows[k].path = rows[i].path => k <= i
    BY <1>5 DEF DropSuperseded
  <2>. QED
    BY <1>1, <2>1, DueIs DEF Tables
<1>6. \A i \in due : \A k \in DOMAIN rows :
         k > i /\ rows[k].path = rows[i].path /\ rows[k].by = Timer => rows[k].revoked
  BY <1>1, <1>5 DEF Tables
<1>7. \A i, k \in due : rows[i].path = rows[k].path => i = k
  BY <1>1, <1>5 DEF Tables
<1>8. ChosenRows'
  <2>. HIDE DEF due
  <2>1. \A i \in due : i \in DOMAIN rows /\ rows[i].path \in Path /\ Due(i)
    BY <1>5
  <2>2. \A i \in due : Due(i)'
    BY <1>4, <2>1 DEF Due, Born
  <2>. QED
    BY <1>3, <1>4, <1>6, <1>7, <2>1, <2>2 DEF ChosenRows
<1>9. ChosenJob'
  BY <1>2, <1>4 DEF ChosenJob, Minting
<1>. QED
  BY <1>8, <1>9 DEF Chosen

\* The walk's own steps on its selection.
LEMMA WalkChosen ==
    ASSUME Base, Chosen, [Next]_vars,
           \/ NextDue \/ EndWalk \/ Mint(Timer) \/ MintRefused(Timer)
           \/ WriteLeaf(Timer) \/ WriteKey(Timer) \/ Insert(Timer) \/ Crash(Timer)
    PROVE  Chosen' /\ Selected' \subseteq Selected
<1>. USE JobSets
<1>0. /\ job \in [Job -> Progressing] /\ job[Timer] \in Progressing /\ Timer \in Job
      /\ Fits(Timer, job[Timer]) /\ Kept
  BY NextKept DEF Base, Shape, Holding
<1>1. now' = now /\ lastWalk' = lastWalk
  BY DEF NextDue, EndWalk, Mint, MintRefused, WriteLeaf, WriteKey, Insert, Crash
<1>2. CASE NextDue
  <2>. PICK i \in job[Timer].todo :
          job' = [job EXCEPT ![Timer] = [Free EXCEPT !.pc = "mint", !.source = i,
                     !.path = rows[i].path, !.todo = job[Timer].todo \ {i}]]
    BY <1>2 DEF NextDue
  <2>1. /\ job'[Timer].pc = "mint" /\ job'[Timer].source = i /\ job'[Timer].path = rows[i].path
        /\ job'[Timer].todo = job[Timer].todo \ {i} /\ job[Timer].pc = "walk" /\ rows' = rows
    BY <1>0, <1>2 DEF NextDue, Free
  <2>2. Selected' \subseteq Selected
    BY <2>1 DEF Selected, Minting
  <2>3. ChosenRows'
    BY <1>1, <1>2, <2>2, SelectedKept DEF Chosen, NextDue, Insert
  <2>4. ChosenJob'
    BY <1>1, <2>1 DEF Chosen, ChosenJob, Minting
  <2>. QED
    BY <2>2, <2>3, <2>4 DEF Chosen
<1>3. CASE EndWalk \/ Crash(Timer)
  <2>1. job'[Timer] = Free
    BY <1>0, <1>3 DEF EndWalk, Crash
  <2>2. Selected' = {}
    BY <2>1 DEF Selected, Minting, Free
  <2>. QED
    BY <2>1, <2>2 DEF Chosen, ChosenRows, ChosenJob, Free, Minting
<1>4. CASE Mint(Timer) \/ WriteLeaf(Timer) \/ WriteKey(Timer)
  <2>1. /\ job'[Timer].pc \in Minting /\ job[Timer].pc \in Minting
        /\ job'[Timer].source = job[Timer].source /\ job'[Timer].path = job[Timer].path
        /\ job'[Timer].todo = job[Timer].todo /\ rows' = rows
    <3>1. CASE Mint(Timer)
      <4>1. MintDoes(Timer) /\ job[Timer].pc = "mint" /\ rows' = rows
        BY <3>1, MintEffect DEF Mint
      <4>2. job'[Timer] = [job[Timer] EXCEPT !.pc = "leaf", !.serial = Len(leaves) + 1]
        BY <4>1 DEF MintDoes
      <4>. QED
        BY <1>0, <4>1, <4>2 DEF Minting, Progressing
    <3>2. CASE WriteLeaf(Timer) \/ WriteKey(Timer)
      BY <1>0, <3>2, AdvanceIs DEF WriteLeaf, WriteKey, Minting, Progressing
    <3>. QED
      BY <1>4, <3>1, <3>2
  <2>2. Selected' = Selected
    BY <2>1 DEF Selected
  <2>3. ~Insert(Timer)
    BY <1>4 DEF Mint, WriteLeaf, WriteKey, Insert
  <2>4. ChosenRows'
    BY <1>1, <2>2, <2>3, SelectedKept DEF Chosen
  <2>5. ChosenJob'
    BY <1>1, <2>1 DEF Chosen, ChosenJob, Minting
  <2>. QED
    BY <2>2, <2>4, <2>5 DEF Chosen
<1>5. CASE MintRefused(Timer) \/ Insert(Timer)
  <2>1. job'[Timer] = Resume(Timer) /\ job[Timer].pc \in Minting
    BY <1>0, <1>5, InsertEffect DEF InsertDoes, MintRefused, Insert, Minting
  <2>2. job'[Timer].pc = "walk" /\ job'[Timer].todo = job[Timer].todo
    BY <2>1 DEF Resume, Free
  <2>3. Selected' = job[Timer].todo /\ Selected' \subseteq Selected
    BY <2>2 DEF Selected, Minting
  <2>4. \A i \in Selected' : rows[i].path # job[Timer].path
    BY <2>1, <2>3 DEF Chosen, ChosenJob, ChosenRows, Selected
  <2>5. ChosenRows'
    BY <1>1, <2>3, <2>4, SelectedKept DEF Chosen
  <2>6. ChosenJob'
    BY <1>1, <2>1, <2>2 DEF Chosen, ChosenJob, Minting
  <2>. QED
    BY <2>3, <2>5, <2>6 DEF Chosen
<1>. QED
  BY <1>2, <1>3, <1>4, <1>5

\* The walk's own steps.
WalkStep ==
    \/ NextDue \/ EndWalk \/ Mint(Timer) \/ MintRefused(Timer)
    \/ WriteLeaf(Timer) \/ WriteKey(Timer) \/ Insert(Timer) \/ Crash(Timer)

\* The steps of the others.
Elsewhere == job'[Timer] = job[Timer] /\ now' = now /\ lastWalk' = lastWalk /\ ~Insert(Timer)

LEMMA Walkers == ASSUME Base, [Next]_vars PROVE StartWalk \/ WalkStep \/ Tick \/ Elsewhere
<1>. USE JobSets
<1>0. /\ job \in [Job -> Progressing] /\ job[Timer] \in Progressing /\ Timer \in Job
      /\ Fits(Timer, job[Timer])
  BY DEF Base, Shape, Holding
<1>1. ASSUME job'[Timer] = job[Timer] PROVE ~Insert(Timer)
  <2>1. Insert(Timer) => job'[Timer].pc = "walk" /\ job[Timer].pc = "row"
    BY InsertEffect DEF InsertDoes, Resume, Free, Insert
  <2>. QED
    BY <1>1, <2>1
<1>2. ASSUME NEW j \in Job \ {Timer}, NEW source, NEW p, Begin(j, source, p) PROVE Elsewhere
  BY <1>0, <1>1, <1>2 DEF Begin, Elsewhere
<1>3. ASSUME NEW j \in Job \ {Timer}, NEW i, StartRevokeByAPI(j, i) \/ StartRevokeByCLI(j, i)
      PROVE  Elsewhere
  BY <1>0, <1>1, <1>3 DEF StartRevokeByAPI, StartRevokeByCLI, Elsewhere
<1>4. ASSUME NEW j \in Job \ {Timer}, Mint(j) \/ MintRefused(j) \/ WriteLeaf(j) \/ WriteKey(j) \/ Insert(j)
      PROVE  Elsewhere
  BY <1>0, <1>1, <1>4 DEF Mint, MintRefused, WriteLeaf, WriteKey, Insert, Elsewhere
<1>5. ASSUME NEW j \in Job \ {Timer}, RevokeAtCA(j) \/ RevokeRefused(j) \/ Flip(j) \/ Crash(j)
      PROVE  Elsewhere
  BY <1>0, <1>1, <1>5 DEF RevokeAtCA, RevokeRefused, Flip, Crash, Elsewhere
<1>6. ~RevokeAtCA(Timer) /\ ~RevokeRefused(Timer) /\ ~Flip(Timer)
  BY <1>0 DEF Fits, RevokeAtCA, RevokeRefused, Flip
<1>7. CASE UNCHANGED vars
  BY <1>1, <1>7 DEF vars, Elsewhere
<1>8. ASSUME NEW j \in Api \cup Cli PROVE j \in Job \ {Timer}
  BY CertsAssumption
<1>. QED
  BY <1>2, <1>3, <1>4, <1>5, <1>6, <1>7, <1>8
     DEF Next, WalkStep, IssueByAPI, IssueByCLI, RenewByAPI, RenewByCLI

LEMMA TickChosen == ASSUME Base, Chosen, Tick PROVE Chosen'
<1>1. job[Timer].pc = "free" /\ job' = job
  BY JobSets DEF Tick
<1>. QED
  BY <1>1 DEF Chosen, ChosenRows, ChosenJob, Selected, Minting

LEMMA NextChosen == Base /\ Ordered /\ Chosen /\ [Next]_vars => Chosen'
BY Walkers, StartWalkChosen, WalkChosen, WalkUndisturbed, TickChosen DEF WalkStep, Elsewhere

\* A row of the walk lies half a lifetime behind the rows it put there before.
LEMMA NextChurn == Base /\ Ordered /\ Chosen /\ NoRenewalChurn /\ [Next]_vars => NoRenewalChurn'
<1>. SUFFICES ASSUME Base, Ordered, Chosen, NoRenewalChurn, [Next]_vars,
                     NEW i \in DOMAIN rows', NEW k \in DOMAIN rows',
                     i < k, rows'[i].path = rows'[k].path,
                     rows'[i].by = Timer, rows'[k].by = Timer, ~rows'[i].revoked
              PROVE  2 * (Born(k)' - Born(i)') >= Ttl
  BY DEF NoRenewalChurn, Born
<1>1. Kept /\ Tables
  BY NextKept, TablesType DEF Base
<1>2. i \in DOMAIN rows
  BY <1>1, RowsAppear DEF Tables, InsertDoes
<1>3. Born(i)' = Born(i) /\ rows'[i].path = rows[i].path /\ rows[i].by = Timer /\ ~rows[i].revoked
  BY <1>1, <1>2, BornKept DEF Kept
<1>4. CASE k \in DOMAIN rows
  <2>1. Born(k)' = Born(k) /\ rows'[k].path = rows[k].path /\ rows[k].by = Timer
    BY <1>1, <1>4, BornKept DEF Kept
  <2>. QED
    BY <1>2, <1>3, <1>4, <2>1 DEF NoRenewalChurn, Born
<1>5. CASE k \notin DOMAIN rows
  <2>. DEFINE s == job[Timer].source
  <2>1. job[Timer].pc = "row" /\ rows'[k].path = job[Timer].path /\ Born(k)' = now
    BY <1>5, RowsAppear
  <2>2. s \in Selected /\ job[Timer].path = rows[s].path
    BY <2>1 DEF Chosen, ChosenJob, Selected, Minting
  <2>3. s \in DOMAIN rows /\ Due(s) /\ ~(i > s)
    BY <1>2, <1>3, <2>1, <2>2 DEF Chosen, ChosenRows
  <2>4. Born(i) <= Born(s) /\ Born(i) \in Nat /\ Born(s) \in Nat /\ now \in Nat /\ Ttl \in Nat
    BY <1>1, <1>2, <2>3, BornType, CertsAssumption DEF Ordered, Tables
  <2>. QED
    BY <1>3, <2>1, <2>3, <2>4 DEF Due
<1>. QED
  BY <1>4, <1>5

LEMMA CertsWalk == Spec => [](Base /\ Distinct /\ Ordered /\ Chosen)
<1>1. Init => Base /\ Distinct /\ Ordered /\ Chosen
  BY InitBase, InitDistinct, InitChosen
<1>2. Base /\ Distinct /\ Ordered /\ Chosen /\ [Next]_vars => (Base /\ Distinct /\ Ordered /\ Chosen)'
  BY NextBase, NextDistinct, NextOrdered, NextChosen
<1>. QED
  BY <1>1, <1>2, PTL DEF Spec

\* The timer never renews twice within half a lifetime, for any lifetime, any
\* interval and any number of paths, operators and failures.
THEOREM WalkDoesNotChurn == Spec => []NoRenewalChurn
<1>1. Init => NoRenewalChurn
  BY InitChosen
<1>. QED
  BY <1>1, CertsWalk, NextChurn, PTL DEF Spec

-----------------------------------------------------------------------------
(* The files *)

\* Job j has written the leaf at p and not recorded the row.
AtFiles(j, p) == j \notin Api /\ job[j].pc \in {"key", "row"} /\ job[j].path = p

\* Nobody touches the files, and nobody comes to them or leaves them.
FilesStill ==
    /\ disk' = disk
    /\ \A k \in Job \ Api :
          job[k].pc \in {"key", "row"} \/ job'[k].pc \in {"key", "row"} => job'[k] = job[k]

LEMMA FilesStillSteps ==
    ASSUME Base, [Next]_vars,
           \A j \in Job : ~WriteLeaf(j) /\ ~WriteKey(j) /\ ~Insert(j) /\ ~Crash(j)
    PROVE  FilesStill
<1>. USE JobSets
<1>0. job \in [Job -> Progressing]
  BY DEF Base, Shape
<1>1. ASSUME NEW j \in Job, \A k \in Job \ {j} : job'[k] = job[k], disk' = disk,
             j \in Api \/ (job[j].pc \notin {"key", "row"} /\ job'[j].pc \notin {"key", "row"})
      PROVE  FilesStill
  BY <1>1 DEF FilesStill
<1>2. ASSUME NEW j \in Job, NEW source, NEW p, Begin(j, source, p) PROVE FilesStill
  BY <1>0, <1>1, <1>2 DEF Begin, Free
<1>3. ASSUME NEW j \in Job, NEW i, StartRevokeByAPI(j, i) \/ StartRevokeByCLI(j, i) PROVE FilesStill
  <2>1. disk' = disk /\ job[j].pc = "free" /\ \A k \in Job \ {j} : job'[k] = job[k]
    BY <1>0, <1>3 DEF StartRevokeByAPI, StartRevokeByCLI
  <2>2. job'[j].pc \in {"free", "revoke"}
    BY <1>0, <1>3 DEF StartRevokeByAPI, StartRevokeByCLI, Free
  <2>. QED
    BY <1>1, <2>1, <2>2
<1>4. CASE StartWalk
  BY <1>0, <1>1, <1>4 DEF StartWalk, Progressing
<1>5. CASE NextDue
  <2>1. (\A k \in Job \ {Timer} : job'[k] = job[k]) /\ disk' = disk
        /\ job[Timer].pc = "walk" /\ job'[Timer].pc = "mint"
    BY <1>0, <1>5 DEF NextDue, Free
  <2>. QED
    BY <1>1, <2>1
<1>6. CASE EndWalk
  BY <1>0, <1>1, <1>6 DEF EndWalk, Free
<1>7. ASSUME NEW j \in Job, Mint(j) PROVE FilesStill
  <2>1. MintDoes(j) /\ disk' = disk /\ job[j] \in Progressing /\ job[j].pc = "mint"
    BY <1>0, <1>7, MintEffect DEF Mint
  <2>2. job'[j].pc = IF j \in Api THEN "row" ELSE "leaf"
    BY <2>1 DEF MintDoes, Progressing
  <2>. QED
    BY <1>1, <2>1, <2>2 DEF MintDoes
<1>8. ASSUME NEW j \in Job, MintRefused(j) \/ RevokeRefused(j) \/ Flip(j) PROVE FilesStill
  <2>1. Resume(j).pc \in {"walk", "free"} /\ Free.pc = "free"
    BY DEF Resume, Free
  <2>2. /\ disk' = disk /\ job[j].pc \in {"mint", "revoke", "flip"}
        /\ job' = [job EXCEPT ![j] = Resume(j)] \/ job' = [job EXCEPT ![j] = Free]
    BY <1>8 DEF MintRefused, RevokeRefused, Flip
  <2>. QED
    BY <1>0, <1>1, <2>1, <2>2
<1>9. ASSUME NEW j \in Job, RevokeAtCA(j) PROVE FilesStill
  BY <1>0, <1>1, <1>9 DEF RevokeAtCA, Progressing
<1>10. CASE Tick \/ UNCHANGED vars
  BY <1>10 DEF Tick, vars, FilesStill
<1>. QED
  BY <1>2, <1>3, <1>4, <1>5, <1>6, <1>7, <1>8, <1>9, <1>10
     DEF Next, IssueByAPI, IssueByCLI, RenewByAPI, RenewByCLI

LEMMA FilesKinds ==
    ASSUME Base, [Next]_vars
    PROVE  FilesStill \/ \E j \in Job : WriteLeaf(j) \/ WriteKey(j) \/ Insert(j) \/ Crash(j)
BY FilesStillSteps

\* What those four steps do to the files.
LEMMA FilesEffect ==
    ASSUME Base, NEW j \in Job
    PROVE  /\ WriteLeaf(j) =>
                 /\ j \notin Api /\ job[j].path \in Path /\ job[j].pc = "leaf"
                 /\ disk' = [disk EXCEPT ![job[j].path].leaf = job[j].serial]
                 /\ job'[j] = [job[j] EXCEPT !.pc = "key"]
                 /\ \A k \in Job \ {j} : job'[k] = job[k]
                 /\ UNCHANGED <<now, lastWalk, leaves, rows>>
           /\ WriteKey(j) =>
                 /\ j \notin Api /\ job[j].path \in Path /\ job[j].pc = "key"
                 /\ disk' = [disk EXCEPT ![job[j].path].key = job[j].serial]
                 /\ job'[j] = [job[j] EXCEPT !.pc = "row"]
                 /\ \A k \in Job \ {j} : job'[k] = job[k]
                 /\ UNCHANGED <<now, lastWalk, leaves, rows, used>>
           /\ Insert(j) =>
                 /\ job[j].pc = "row" /\ job'[j].pc \in {"walk", "free"}
                 /\ \A k \in Job \ {j} : job'[k] = job[k]
                 /\ UNCHANGED <<now, lastWalk, leaves, disk, used>>
           /\ Crash(j) =>
                 /\ job'[j].pc = "free"
                 /\ \A k \in Job \ {j} : job'[k] = job[k]
                 /\ UNCHANGED <<now, lastWalk, leaves, rows, disk>>
<1>1. job \in [Job -> Progressing] /\ Fits(j, job[j])
  BY DEF Base, Shape, Holding
<1>2. ASSUME WriteLeaf(j)
      PROVE  /\ j \notin Api /\ job[j].path \in Path /\ job[j].pc = "leaf"
             /\ job'[j] = [job[j] EXCEPT !.pc = "key"]
             /\ \A k \in Job \ {j} : job'[k] = job[k]
  BY <1>1, <1>2, AdvanceIs DEF WriteLeaf, Fits, Minting
<1>3. ASSUME WriteKey(j)
      PROVE  /\ j \notin Api /\ job[j].path \in Path /\ job[j].pc = "key"
             /\ job'[j] = [job[j] EXCEPT !.pc = "row"]
             /\ \A k \in Job \ {j} : job'[k] = job[k]
  BY <1>1, <1>3, AdvanceIs DEF WriteKey, Fits, Minting
<1>4. ASSUME Insert(j)
      PROVE  /\ job[j].pc = "row" /\ job'[j].pc \in {"walk", "free"}
             /\ \A k \in Job \ {j} : job'[k] = job[k]
  <2>1. InsertDoes(j) /\ job[j].pc = "row"
    BY <1>4, InsertEffect DEF Insert
  <2>2. Resume(j).pc \in {"walk", "free"}
    BY DEF Resume, Free
  <2>. QED
    BY <2>1, <2>2 DEF InsertDoes
<1>5. ASSUME Crash(j)
      PROVE  job'[j].pc = "free" /\ \A k \in Job \ {j} : job'[k] = job[k]
  BY <1>1, <1>5 DEF Crash, Free
<1>. QED
  BY <1>2, <1>3, <1>4, <1>5 DEF WriteLeaf, WriteKey, Insert, Crash

\* No operator died, and no two writers met.
Calm == used["abort"] = 0 /\ used["overlap"] = 0

AllDue(p) == \A i \in LiveAt(p) : Due(i)

\* One writer at a time; while it is there the files are its leaf's, and if it is
\* the walk, or if it died, the rows it set out to replace are still due.
FilesOf(p) ==
    /\ \A j, k \in Job : AtFiles(j, p) /\ AtFiles(k, p) => j = k
    /\ \A j \in Job : AtFiles(j, p) =>
          /\ disk[p].leaf = job[j].serial
          /\ job[j].pc = "row" => disk[p].key = job[j].serial
    /\ AtFiles(Timer, p) => AllDue(p)
    /\ disk[p].leaf # disk[p].key /\ (\A j \in Job : ~AtFiles(j, p)) => AllDue(p)

Files == \A p \in Path : OnlyWritten(p) /\ Calm => FilesOf(p)

LEMMA UsedGrows ==
    ASSUME Base, [Next]_vars
    PROVE  \A m \in Rare : used[m] \in Nat /\ used'[m] \in Nat /\ used[m] <= used'[m]
<1>1. used \in [Rare -> Nat]
  BY DEF Base, Shape
<1>2. ASSUME NEW m \in Rare, Spend(m) PROVE \A n \in Rare : used'[n] \in Nat /\ used[n] <= used'[n]
  BY <1>1, <1>2 DEF Spend
<1>3. used' = used \/ \E m \in Rare : Spend(m)
  BY DEF Rare, Next, IssueByAPI, IssueByCLI, RenewByAPI, RenewByCLI, StartRevokeByAPI,
         StartRevokeByCLI, StartWalk, NextDue, EndWalk, Mint, MintRefused, WriteLeaf, WriteKey,
         Insert, RevokeAtCA, RevokeRefused, Flip, Crash, Tick, vars
<1>. QED
  BY <1>1, <1>2, <1>3

LEMMA PremissesKept ==
    ASSUME Base, [Next]_vars, NEW p
    PROVE  (OnlyWritten(p)' => OnlyWritten(p)) /\ (Calm' => Calm)
<1>1. Kept
  BY NextKept
<1>2. OnlyWritten(p)' => OnlyWritten(p)
  BY <1>1 DEF Kept, OnlyWritten, AtPath
<1>3. Calm' => Calm
  BY UsedGrows DEF Calm, Rare
<1>. QED
  BY <1>2, <1>3

LEMMA DueKept ==
    ASSUME Base, [Next]_vars, NEW p, AllDue(p),
           \A j \in Job : Insert(j) => job[j].path # p
    PROVE  AllDue(p)'
<1>. SUFFICES ASSUME NEW i \in DOMAIN rows', rows'[i].path = p, ~rows'[i].revoked PROVE Due(i)'
  BY DEF AllDue, LiveAt, AtPath
<1>1. Kept
  BY NextKept
<1>2. i \in DOMAIN rows
  BY RowsAppear
<1>3. Due(i) /\ Born(i)' = Born(i) /\ Born(i) \in Nat /\ now <= now' /\ now \in Nat /\ now' \in Nat
      /\ Ttl \in Nat
  <2>1. Base'
    BY NextBase
  <2>2. now \in Nat /\ now' \in Nat
    BY <2>1 DEF Base, Shape
  <2>. QED
    BY <1>1, <1>2, <2>2, BornKept, BornType, CertsAssumption DEF AllDue, LiveAt, AtPath, Kept
<1>. QED
  BY <1>3 DEF Due

\* The row the walk renews and all older ones at its path are due.
LEMMA OlderRowsDue ==
    ASSUME Base, Distinct, Ordered, Chosen, job[Timer].pc \in {"leaf", "key", "row"},
           \A i \in DOMAIN rows : i > job[Timer].source =>
              rows[i].path # job[Timer].path \/ rows[i].serial = job[Timer].serial
    PROVE  AllDue(job[Timer].path)
<1>. DEFINE s == job[Timer].source
<1>1. s \in Selected /\ job[Timer].path = rows[s].path
  BY DEF Chosen, ChosenJob, Selected, Minting
<1>2. s \in DOMAIN rows /\ Due(s) /\ Tables
  BY <1>1, TablesType DEF Chosen, ChosenRows, Base
<1>. SUFFICES ASSUME NEW i \in DOMAIN rows, rows[i].path = job[Timer].path PROVE Due(i)
  BY DEF AllDue, LiveAt, AtPath
<1>3. ~(i > s)
  BY JobSets DEF Distinct, Holds
<1>4. Born(i) <= Born(s) /\ Born(i) \in Nat /\ Born(s) \in Nat /\ now \in Nat /\ Ttl \in Nat
  BY <1>2, <1>3, BornType, CertsAssumption DEF Ordered, Tables
<1>. QED
  BY <1>2, <1>4 DEF Due

LEMMA NoInsert == ASSUME Base, rows' = rows PROVE \A j \in Job : ~Insert(j)
<1>. SUFFICES ASSUME NEW j \in Job, Insert(j) PROVE FALSE
  OBVIOUS
<1>1. InsertDoes(j) /\ Len(rows) \in Nat
  BY InsertEffect, TablesType DEF Base, Tables
<1>2. Len(rows') = Len(rows) + 1
  BY <1>1 DEF InsertDoes
<1>. QED
  BY <1>1, <1>2

LEMMA InitFiles == Init => Files
BY DEF Init, Files, FilesOf, AtFiles, Free, AllDue, LiveAt, AtPath

LEMMA LeafFiles ==
    ASSUME Base, Distinct, Ordered, Chosen, [Next]_vars, NEW p \in Path, FilesOf(p), Calm',
           NEW j \in Job, WriteLeaf(j)
    PROVE  FilesOf(p)'
<1>. DEFINE q == job[j].path
<1>0. /\ job \in [Job -> Progressing] /\ job[j] \in Progressing
      /\ disk \in [Path -> [leaf : Serial \cup {NoLeaf}, key : Serial \cup {NoLeaf}]]
  BY DEF Base, Shape
<1>1. /\ j \notin Api /\ q \in Path /\ job[j].pc = "leaf"
      /\ disk' = [disk EXCEPT ![q].leaf = job[j].serial]
      /\ job'[j] = [job[j] EXCEPT !.pc = "key"]
      /\ \A k \in Job \ {j} : job'[k] = job[k]
      /\ UNCHANGED <<now, leaves, rows>>
  BY FilesEffect
<1>2. job'[j].pc = "key" /\ job'[j].path = q /\ job'[j].serial = job[j].serial
  BY <1>0, <1>1 DEF Progressing
<1>3. \A k \in Job \ {j} : AtFiles(k, p)' <=> AtFiles(k, p)
  BY <1>1 DEF AtFiles
<1>4. \A k \in Job : ~Insert(k)
  BY <1>1, NoInsert
<1>5. AllDue(p) => AllDue(p)'
  BY <1>4, DueKept
<1>6. CASE p # q
  <2>1. disk'[p] = disk[p] /\ ~AtFiles(j, p)' /\ ~AtFiles(j, p)
    BY <1>0, <1>1, <1>2, <1>6 DEF AtFiles
  <2>2. \A k \in Job : AtFiles(k, p)' => AtFiles(k, p) /\ job'[k] = job[k]
    BY <1>1, <1>3, <2>1
  <2>3. \A k \in Job : AtFiles(k, p) => AtFiles(k, p)'
    BY <1>3, <2>1
  <2>4. \A k, l \in Job : AtFiles(k, p)' /\ AtFiles(l, p)' => k = l
    BY <2>2 DEF FilesOf
  <2>5. \A k \in Job : AtFiles(k, p)' =>
           /\ disk'[p].leaf = job'[k].serial
           /\ job'[k].pc = "row" => disk'[p].key = job'[k].serial
    BY <2>1, <2>2 DEF FilesOf
  <2>6. AtFiles(Timer, p)' => AllDue(p)'
    BY <1>5, <2>2, JobSets DEF FilesOf
  <2>7. disk'[p].leaf # disk'[p].key /\ (\A k \in Job : ~AtFiles(k, p)') => AllDue(p)'
    BY <1>5, <2>1, <2>3 DEF FilesOf
  <2>. QED
    BY <2>4, <2>5, <2>6, <2>7 DEF FilesOf
<1>7. CASE p = q
  <2>1. ~Overlaps(j)
    <3>1. Overlaps(j) => used'["overlap"] = used["overlap"] + 1 /\ used["overlap"] \in Nat
      BY DEF WriteLeaf, Spend, Base, Shape, Rare
    <3>. QED
      BY <3>1 DEF Calm
  <2>2. \A k \in Job \ {j} : ~AtFiles(k, p)
    BY <1>7, <2>1 DEF Overlaps, AtFiles, Job
  <2>3. disk'[p].leaf = job'[j].serial
    BY <1>0, <1>1, <1>2, <1>7
  <2>4. AtFiles(j, p)'
    BY <1>1, <1>2, <1>7 DEF AtFiles
  <2>5. j = Timer => AllDue(p)
    BY <1>1, <1>7, <2>1, OlderRowsDue DEF Overlaps
  <2>. QED
    BY <1>2, <1>3, <1>5, <2>2, <2>3, <2>4, <2>5, JobSets DEF FilesOf
<1>. QED
  BY <1>6, <1>7

LEMMA KeyFiles ==
    ASSUME Base, [Next]_vars, NEW p \in Path, FilesOf(p), NEW j \in Job, WriteKey(j)
    PROVE  FilesOf(p)'
<1>. DEFINE q == job[j].path
<1>0. /\ job \in [Job -> Progressing] /\ job[j] \in Progressing
      /\ disk \in [Path -> [leaf : Serial \cup {NoLeaf}, key : Serial \cup {NoLeaf}]]
  BY DEF Base, Shape
<1>1. /\ j \notin Api /\ q \in Path /\ job[j].pc = "key"
      /\ disk' = [disk EXCEPT ![q].key = job[j].serial]
      /\ job'[j] = [job[j] EXCEPT !.pc = "row"]
      /\ \A k \in Job \ {j} : job'[k] = job[k]
      /\ UNCHANGED <<now, leaves, rows>>
  BY FilesEffect
<1>2. job'[j].pc = "row" /\ job'[j].path = q /\ job'[j].serial = job[j].serial
  BY <1>0, <1>1 DEF Progressing
<1>3. \A k \in Job : AtFiles(k, p)' <=> AtFiles(k, p)
  BY <1>1, <1>2 DEF AtFiles
<1>4. AllDue(p) => AllDue(p)'
  BY <1>1, NoInsert, DueKept
<1>5. CASE p # q
  <2>1. disk'[p] = disk[p] /\ ~AtFiles(j, p)
    BY <1>0, <1>1, <1>5 DEF AtFiles
  <2>2. \A k \in Job : AtFiles(k, p) => job'[k] = job[k]
    BY <1>1, <2>1
  <2>. QED
    BY <1>3, <1>4, <2>1, <2>2, JobSets DEF FilesOf
<1>6. CASE p = q
  <2>1. disk'[p].key = job'[j].serial /\ disk'[p].leaf = disk[p].leaf /\ AtFiles(j, p)
    BY <1>0, <1>1, <1>2, <1>6 DEF AtFiles
  <2>2. disk'[p].leaf = job'[j].serial
    BY <1>2, <2>1 DEF FilesOf
  <2>. QED
    BY <1>2, <1>3, <1>4, <2>1, <2>2, JobSets DEF FilesOf
<1>. QED
  BY <1>5, <1>6

LEMMA InsertFiles ==
    ASSUME Base, [Next]_vars, NEW p \in Path, FilesOf(p), OnlyWritten(p)', NEW j \in Job, Insert(j)
    PROVE  FilesOf(p)'
<1>1. /\ job[j].pc = "row" /\ job'[j].pc \in {"walk", "free"}
      /\ \A k \in Job \ {j} : job'[k] = job[k]
      /\ disk' = disk /\ InsertDoes(j) /\ Tables
  BY FilesEffect, InsertEffect, TablesType DEF Base
<1>2. ~AtFiles(j, p)' /\ \A k \in Job \ {j} : AtFiles(k, p)' <=> AtFiles(k, p)
  BY <1>1 DEF AtFiles
<1>3. CASE job[j].path # p
  <2>1. AllDue(p) => AllDue(p)'
    <3>1. \A k \in Job : Insert(k) => job[k].path # p
      <4>. SUFFICES ASSUME NEW k \in Job, Insert(k), job[k].path = p PROVE FALSE
        OBVIOUS
      <4>1. rows'[Len(rows) + 1] = NewRow(k) /\ rows'[Len(rows) + 1] = NewRow(j)
        BY <1>1, InsertEffect DEF InsertDoes
      <4>. QED
        BY <1>3, <4>1 DEF NewRow
    <3>. QED
      BY <3>1, DueKept
  <2>2. ~AtFiles(j, p)
    BY <1>3 DEF AtFiles
  <2>. QED
    BY <1>1, <1>2, <2>1, <2>2, JobSets DEF FilesOf
<1>4. CASE job[j].path = p
  <2>1. j \notin Api
    <3>1. Len(rows) + 1 \in DOMAIN rows' /\ rows'[Len(rows) + 1].path = p /\ rows'[Len(rows) + 1].by = j
      BY <1>1, <1>4 DEF InsertDoes, NewRow, Tables
    <3>. QED
      BY <3>1 DEF OnlyWritten, AtPath
  <2>2. AtFiles(j, p)
    BY <1>1, <1>4, <2>1 DEF AtFiles
  <2>3. disk[p].leaf = disk[p].key /\ \A k \in Job \ {j} : ~AtFiles(k, p)
    BY <1>1, <2>2 DEF FilesOf
  <2>4. \A k \in Job : ~AtFiles(k, p)'
    BY <1>2, <2>3
  <2>. QED
    BY <1>1, <2>3, <2>4, JobSets DEF FilesOf
<1>. QED
  BY <1>3, <1>4

LEMMA CrashFiles ==
    ASSUME Base, [Next]_vars, NEW p \in Path, FilesOf(p), Calm', NEW j \in Job, Crash(j)
    PROVE  FilesOf(p)'
<1>1. /\ job'[j].pc = "free" /\ \A k \in Job \ {j} : job'[k] = job[k]
      /\ disk' = disk /\ rows' = rows
  BY FilesEffect
<1>2. j = Timer
  <2>1. j # Timer => used'["abort"] = used["abort"] + 1 /\ used["abort"] \in Nat
    BY DEF Crash, Spend, Base, Shape, Rare
  <2>. QED
    BY <2>1 DEF Calm
<1>3. ~AtFiles(j, p)' /\ \A k \in Job \ {j} : AtFiles(k, p)' <=> AtFiles(k, p)
  BY <1>1 DEF AtFiles
<1>4. AllDue(p) => AllDue(p)'
  BY <1>1, NoInsert, DueKept
<1>. QED
  BY <1>1, <1>2, <1>3, <1>4 DEF FilesOf

LEMMA StillFiles ==
    ASSUME Base, [Next]_vars, NEW p \in Path, FilesOf(p), FilesStill,
           \A j \in Job : ~Insert(j)
    PROVE  FilesOf(p)'
<1>1. \A k \in Job : AtFiles(k, p)' <=> AtFiles(k, p)
  BY DEF FilesStill, AtFiles
<1>2. \A k \in Job : AtFiles(k, p) => job'[k] = job[k]
  BY DEF FilesStill, AtFiles
<1>3. AllDue(p) => AllDue(p)'
  BY DueKept
<1>. QED
  BY <1>1, <1>2, <1>3, JobSets DEF FilesOf, FilesStill

LEMMA NextFiles == Base /\ Distinct /\ Ordered /\ Chosen /\ Files /\ [Next]_vars => Files'
<1>. SUFFICES ASSUME Base, Distinct, Ordered, Chosen, Files, [Next]_vars, NEW p \in Path,
                     OnlyWritten(p)', Calm'
              PROVE  FilesOf(p)'
  BY DEF Files
<1>1. FilesOf(p)
  BY PremissesKept DEF Files
<1>. QED
  BY <1>1, FilesKinds, LeafFiles, KeyFiles, InsertFiles, CrashFiles, StillFiles

LEMMA FilesDue == Base /\ Files => BrokenFilesAreDue
<1>. SUFFICES ASSUME Base, Files, NEW p \in Path, disk[p].leaf # disk[p].key,
                     ~Writing(p), OnlyWritten(p), Calm,
                     NEW i \in DropSuperseded({k \in DOMAIN rows : ~rows[k].revoked}), rows[i].path = p
              PROVE  RowIsDue(i)
  BY DEF BrokenFilesAreDue, Calm
<1>1. \A j \in Job : ~AtFiles(j, p)
  BY DEF Writing, AtFiles
<1>2. i \in LiveAt(p)
  BY DEF DropSuperseded, LiveAt, AtPath
<1>3. Due(i)
  BY <1>1, <1>2 DEF Files, FilesOf, AllDue
<1>. QED
  BY <1>2, <1>3, DueIs DEF LiveAt, AtPath

\* A walk that dies anywhere leaves the files it broke due for the next one, at
\* every path, as long as the operators' commands end and no two writers meet.
THEOREM BrokenFilesAreRepaired == Spec => []BrokenFilesAreDue
<1>1. Init => Files
  BY InitFiles
<1>. QED
  BY <1>1, CertsWalk, NextFiles, FilesDue, PTL DEF Spec

-----------------------------------------------------------------------------
(* The lifetime of what is on disk *)

LEMMA Least ==
    ASSUME NEW T, T \subseteq Nat, T # {}
    PROVE  \E x \in T : \A y \in T : x <= y
<1>. DEFINE R == OpToRel(<,Nat)
<1>1. IsWellFoundedOn(R, Nat)
  BY NatLessThanWellFounded, Zenon
<1>2. PICK x \in T : \A y \in T : <<y, x>> \notin R
  <2>. HIDE DEF R
  <2>. QED
    BY <1>1, WFMin
<1>3. \A y \in T : y < x => <<y, x>> \in R
  BY Zenon DEF OpToRel
<1>4. \A y \in T : ~(y < x) /\ y \in Nat /\ x \in Nat
  BY <1>2, <1>3
<1>5. \A y \in T : x <= y
  BY <1>4
<1>. QED
  BY <1>5

LEMMA Greatest ==
    ASSUME NEW n \in Nat, NEW S, S \subseteq 0 .. n, S # {}
    PROVE  \E x \in S : \A y \in S : y <= x
<1>. DEFINE T == {i \in Nat : n - i \in S}
<1>1. T \subseteq Nat
  OBVIOUS
<1>0. T # {}
  <2>1. PICK s \in S : TRUE
    OBVIOUS
  <2>2. n - s \in Nat /\ n - (n - s) = s
    OBVIOUS
  <2>. QED
    BY <2>2
<1>2. PICK m \in T : \A k \in T : m <= k
  <2>. HIDE DEF T
  <2>. QED
    BY <1>0, <1>1, Least
<1>4. \A y \in S : n - y \in T
  <2>. SUFFICES ASSUME NEW y \in S PROVE n - y \in Nat /\ n - (n - y) \in S
    OBVIOUS
  <2>1. y \in 0 .. n
    OBVIOUS
  <2>2. n - (n - y) = y
    BY <2>1
  <2>. QED
    BY <2>1, <2>2
<1>5. n - m \in S
  OBVIOUS
<1>6. ASSUME NEW y \in S PROVE y <= n - m
  <2>1. y \in 0 .. n /\ m <= n - y /\ m \in Nat
    BY <1>2, <1>4
  <2>. QED
    BY <2>1
<1>. QED
  BY <1>5, <1>6

\* When the leaf on disk was signed.
DiskBorn(p) == leaves[disk[p].leaf].not_before

\* The leaf on disk is as new as any row that stands for it.
FreshOf(p) ==
    /\ disk[p].leaf \in DOMAIN leaves \cup {NoLeaf}
    /\ \A j \in Job : AtFiles(j, p) => disk[p].leaf \in DOMAIN leaves /\ DiskBorn(p) = now
    /\ OnlyWritten(p) =>
          \A i \in AtPath(p) : disk[p].leaf \in DOMAIN leaves /\ Born(i) <= DiskBorn(p)

Fresh == \A p \in Path : FreshOf(p)

LEMMA InitFresh == Init => Fresh
BY DEF Init, Fresh, FreshOf, AtFiles, Free, AtPath

LEMMA DiskBornType ==
    ASSUME Base, NEW p, disk[p].leaf \in DOMAIN leaves
    PROVE  DiskBorn(p) \in Nat /\ DiskBorn(p) <= now /\ now \in Nat
<1>1. Tables /\ now \in Nat
  BY TablesType DEF Base, Shape
<1>. QED
  BY <1>1 DEF DiskBorn, Tables, Base, Windows

LEMMA DiskBornKept ==
    ASSUME Kept, NEW p, disk'[p].leaf = disk[p].leaf, disk[p].leaf \in DOMAIN leaves
    PROVE  disk'[p].leaf \in DOMAIN leaves' /\ DiskBorn(p)' = DiskBorn(p)
BY DEF Kept, DiskBorn

\* Steps that leave the leaf at p and bring nobody to it.
LEMMA FreshKept ==
    ASSUME Base, [Next]_vars, NEW p \in Path, FreshOf(p), disk'[p].leaf = disk[p].leaf,
           \A j \in Job : AtFiles(j, p)' => AtFiles(j, p) /\ now' = now
    PROVE  FreshOf(p)'
<1>1. Kept
  BY NextKept
<1>2. disk'[p].leaf \in DOMAIN leaves' \cup {NoLeaf}
  BY <1>1, DiskBornKept DEF FreshOf
<1>3. \A j \in Job : AtFiles(j, p)' => disk'[p].leaf \in DOMAIN leaves' /\ DiskBorn(p)' = now'
  BY <1>1, DiskBornKept DEF FreshOf
<1>4. ASSUME OnlyWritten(p)', NEW i \in DOMAIN rows', rows'[i].path = p
      PROVE  disk'[p].leaf \in DOMAIN leaves' /\ Born(i)' <= DiskBorn(p)'
  <2>1. CASE i \in DOMAIN rows
    <3>1. i \in AtPath(p) /\ Born(i)' = Born(i) /\ OnlyWritten(p)
      BY <1>1, <1>4, <2>1, BornKept, PremissesKept DEF Kept, AtPath
    <3>. QED
      BY <1>1, <3>1, DiskBornKept DEF FreshOf
  <2>2. CASE i \notin DOMAIN rows
    <3>1. PICK j \in Job : /\ job[j].pc = "row" /\ job[j].path = p /\ rows'[i].by = j
                           /\ Born(i)' = now
      BY <1>4, <2>2, RowsAppear
    <3>2. j \notin Api
      BY <1>4, <3>1 DEF OnlyWritten, AtPath
    <3>3. AtFiles(j, p)
      BY <3>1, <3>2 DEF AtFiles
    <3>4. disk[p].leaf \in DOMAIN leaves /\ DiskBorn(p) = now /\ now \in Nat
      BY <3>3 DEF FreshOf, Base, Shape
    <3>. QED
      BY <1>1, <3>1, <3>4, DiskBornKept
  <2>. QED
    BY <2>1, <2>2
<1>. QED
  BY <1>2, <1>3, <1>4 DEF FreshOf, AtPath

LEMMA LeafFresh ==
    ASSUME Base, [Next]_vars, NEW j \in Job, WriteLeaf(j), NEW p \in Path, FreshOf(p)
    PROVE  /\ FreshOf(p)'
           /\ disk'[p].leaf = disk[p].leaf \/ (disk'[p].leaf \in DOMAIN leaves' /\ DiskBorn(p)' = now')
<1>0. /\ job \in [Job -> Progressing] /\ Fits(j, job[j]) /\ job[j] \in Progressing
      /\ disk \in [Path -> [leaf : Serial \cup {NoLeaf}, key : Serial \cup {NoLeaf}]]
  BY DEF Base, Shape, Holding
<1>1. /\ job[j].path \in Path /\ job[j].pc = "leaf"
      /\ disk' = [disk EXCEPT ![job[j].path].leaf = job[j].serial]
      /\ job'[j] = [job[j] EXCEPT !.pc = "key"]
      /\ \A k \in Job \ {j} : job'[k] = job[k]
      /\ UNCHANGED <<now, leaves, rows>>
  BY FilesEffect
<1>2. CASE p # job[j].path
  <2>1. disk'[p].leaf = disk[p].leaf
    BY <1>0, <1>1, <1>2
  <2>2. job'[j].path = job[j].path
    BY <1>0, <1>1 DEF Progressing
  <2>3. \A k \in Job : AtFiles(k, p)' => AtFiles(k, p) /\ now' = now
    BY <1>1, <1>2, <2>2 DEF AtFiles
  <2>. QED
    BY <2>1, <2>3, FreshKept
<1>3. CASE p = job[j].path
  <2>1. disk'[p].leaf = job[j].serial
    BY <1>0, <1>1, <1>3
  <2>2. disk'[p].leaf \in DOMAIN leaves' /\ DiskBorn(p)' = now'
    BY <1>0, <1>1, <2>1 DEF Fits, DiskBorn
  <2>3. \A i \in DOMAIN rows' : Born(i)' <= now'
    BY <1>1, BornType DEF Born
  <2>. QED
    BY <2>2, <2>3 DEF FreshOf, AtPath
<1>. QED
  BY <1>2, <1>3

\* The leaf at p stays, or it is one signed in this unit of time.
LEMMA LeafStays ==
    ASSUME Base, Fresh, [Next]_vars, NEW p \in Path
    PROVE  /\ FreshOf(p)'
           /\ disk'[p].leaf = disk[p].leaf \/ (disk'[p].leaf \in DOMAIN leaves' /\ DiskBorn(p)' = now')
<1>. FreshOf(p)
  BY DEF Fresh
<1>0. /\ job \in [Job -> Progressing]
      /\ disk \in [Path -> [leaf : Serial \cup {NoLeaf}, key : Serial \cup {NoLeaf}]]
  BY DEF Base, Shape
<1>1. ASSUME NEW j \in Job, WriteLeaf(j)
      PROVE  /\ FreshOf(p)'
             /\ disk'[p].leaf = disk[p].leaf \/ (disk'[p].leaf \in DOMAIN leaves' /\ DiskBorn(p)' = now')
  BY <1>1, LeafFresh
<1>2. ASSUME NEW j \in Job, WriteKey(j) PROVE FreshOf(p)' /\ disk'[p].leaf = disk[p].leaf
  <2>1. /\ j \notin Api /\ job[j].path \in Path /\ job[j].pc = "key"
        /\ disk' = [disk EXCEPT ![job[j].path].key = job[j].serial]
        /\ job'[j] = [job[j] EXCEPT !.pc = "row"]
        /\ \A k \in Job \ {j} : job'[k] = job[k]
        /\ now' = now
    BY <1>2, FilesEffect
  <2>2. disk'[p].leaf = disk[p].leaf
    BY <1>0, <2>1
  <2>3. job'[j].path = job[j].path
    BY <1>0, <2>1 DEF Progressing
  <2>4. \A k \in Job : AtFiles(k, p)' => AtFiles(k, p) /\ now' = now
    BY <2>1, <2>3 DEF AtFiles
  <2>. QED
    BY <2>2, <2>4, FreshKept
<1>3. ASSUME NEW j \in Job, Insert(j) \/ Crash(j) PROVE FreshOf(p)' /\ disk'[p].leaf = disk[p].leaf
  <2>1. /\ job'[j].pc \in {"walk", "free"} /\ \A k \in Job \ {j} : job'[k] = job[k]
        /\ disk' = disk /\ now' = now
    BY <1>3, FilesEffect
  <2>2. \A k \in Job : AtFiles(k, p)' => AtFiles(k, p) /\ now' = now
    BY <2>1 DEF AtFiles
  <2>. QED
    BY <2>1, <2>2, FreshKept
<1>4. ASSUME FilesStill PROVE FreshOf(p)' /\ disk'[p].leaf = disk[p].leaf
  <2>1. disk' = disk
    BY <1>4 DEF FilesStill
  <2>2. \A k \in Job : AtFiles(k, p)' => AtFiles(k, p)
    BY <1>4 DEF FilesStill, AtFiles
  <2>3. now' = now \/ \A k \in Job : ~AtFiles(k, p)
    <3>1. now' # now => Tick
      BY DEF Next, Begin, IssueByAPI, IssueByCLI, RenewByAPI, RenewByCLI,
             StartRevokeByAPI, StartRevokeByCLI, StartWalk, NextDue, EndWalk, Mint, MintRefused,
             WriteLeaf, WriteKey, Insert, RevokeAtCA, RevokeRefused, Flip, Crash, vars
    <3>. QED
      BY <3>1 DEF Tick, AtFiles
  <2>. QED
    BY <2>1, <2>2, <2>3, FreshKept
<1>. QED
  BY <1>1, <1>2, <1>3, <1>4, FilesKinds

LEMMA NextFresh == Base /\ Fresh /\ [Next]_vars => Fresh'
BY LeafStays DEF Fresh

Failures == used["crash"] + used["refused"]

\* What n late walks cost.
Slack(n) == 2 * Interval * n

\* The walk has yet to come to p.
Pending(p) == \E i \in Selected : rows[i].path = p

\* At each walk the leaf at p is younger than half its lifetime, give or take the
\* walks that failed and the one that is under way.
TimelyOf(p) ==
    LiveAt(p) # {} /\ OnlyWritten(p) =>
        2 * (lastWalk - DiskBorn(p)) < Ttl + Slack(Failures + (IF Pending(p) THEN 1 ELSE 0))

Timely == now - lastWalk <= Interval /\ \A p \in Path : TimelyOf(p)

LEMMA SlackGrows ==
    ASSUME NEW n \in Nat
    PROVE  Slack(n) \in Nat /\ Slack(n + 1) = Slack(n) + 2 * Interval
<1>1. Interval \in Nat
  BY CertsAssumption
<1>2. ASSUME NEW a \in Nat PROVE 2 * a * n \in Nat /\ 2 * a * (n + 1) = 2 * a * n + 2 * a
  OBVIOUS
<1>. QED
  BY <1>1, <1>2 DEF Slack

LEMMA InitTimely == Init => Timely
BY CertsAssumption DEF Init, Timely, TimelyOf, LiveAt, AtPath

\* A step fails at most once, and failing is what makes it forget a path.
LEMMA FailuresGrow ==
    ASSUME Base, [Next]_vars
    PROVE  Failures \in Nat /\ (Failures' = Failures \/ Failures' = Failures + 1)
<1>1. used \in [Rare -> Nat]
  BY DEF Base, Shape
<1>2. used' = used \/ \E m \in Rare : Spend(m)
  BY DEF Rare, Next, IssueByAPI, IssueByCLI, RenewByAPI, RenewByCLI, StartRevokeByAPI,
         StartRevokeByCLI, StartWalk, NextDue, EndWalk, Mint, MintRefused, WriteLeaf, WriteKey,
         Insert, RevokeAtCA, RevokeRefused, Flip, Crash, Tick, vars
<1>3. used["crash"] \in Nat /\ used["refused"] \in Nat
  BY <1>1 DEF Rare
<1>4. ASSUME NEW m \in Rare, Spend(m)
      PROVE  /\ used'["crash"] = IF m = "crash" THEN used["crash"] + 1 ELSE used["crash"]
             /\ used'["refused"] = IF m = "refused" THEN used["refused"] + 1 ELSE used["refused"]
  BY <1>1, <1>4 DEF Spend, Rare
<1>5. ASSUME NEW m \in Rare, Spend(m) PROVE Failures' = Failures \/ Failures' = Failures + 1
  BY <1>3, <1>4, <1>5 DEF Failures
<1>. QED
  BY <1>2, <1>3, <1>5 DEF Failures

LEMMA PendingKept ==
    ASSUME Base, Chosen, [Next]_vars, WalkStep \/ Tick \/ Elsewhere, NEW p, Pending(p)
    PROVE  Pending(p)' \/ Failures' = Failures + 1 \/ AtFiles(Timer, p)
<1>. USE JobSets
<1>0. /\ job \in [Job -> Progressing] /\ job[Timer] \in Progressing /\ Timer \in Job /\ Kept
      /\ used \in [Rare -> Nat] /\ Selected \subseteq DOMAIN rows
  BY NextKept DEF Base, Shape, Chosen, ChosenRows
<1>1. ASSUME Selected \subseteq Selected' PROVE Pending(p)'
  BY <1>0, <1>1 DEF Pending, Kept
<1>2. CASE Tick \/ Elsewhere
  <2>1. job'[Timer] = job[Timer]
    BY <1>2 DEF Tick, Elsewhere
  <2>. QED
    BY <1>1, <2>1 DEF Selected
<1>3. CASE NextDue
  <2>. PICK i \in job[Timer].todo :
          job' = [job EXCEPT ![Timer] = [Free EXCEPT !.pc = "mint", !.source = i,
                     !.path = rows[i].path, !.todo = job[Timer].todo \ {i}]]
    BY <1>3 DEF NextDue
  <2>1. /\ job'[Timer].pc = "mint" /\ job'[Timer].source = i
        /\ job'[Timer].todo = job[Timer].todo \ {i} /\ job[Timer].pc = "walk"
    BY <1>0, <1>3 DEF NextDue, Free
  <2>. QED
    BY <1>1, <2>1 DEF Selected, Minting
<1>4. CASE EndWalk
  BY <1>4 DEF EndWalk, Pending, Selected, Minting
<1>5. CASE Mint(Timer)
  <2>1. MintDoes(Timer) /\ job[Timer].pc = "mint"
    BY <1>5, MintEffect DEF Mint
  <2>2. job'[Timer] = [job[Timer] EXCEPT !.pc = "leaf", !.serial = Len(leaves) + 1]
    BY <2>1 DEF MintDoes
  <2>. QED
    BY <1>0, <1>1, <2>1, <2>2 DEF Minting, Progressing, Selected
<1>6. CASE WriteLeaf(Timer) \/ WriteKey(Timer)
  <2>1. /\ job'[Timer].pc \in Minting /\ job[Timer].pc \in Minting
        /\ job'[Timer].source = job[Timer].source /\ job'[Timer].todo = job[Timer].todo
    <3>1. \/ job[Timer].pc = "leaf" /\ job'[Timer] = [job[Timer] EXCEPT !.pc = "key"]
          \/ job[Timer].pc = "key" /\ job'[Timer] = [job[Timer] EXCEPT !.pc = "row"]
      BY <1>0, <1>6, FilesEffect
    <3>. QED
      BY <1>0, <3>1 DEF Minting, Progressing
  <2>. QED
    BY <1>1, <2>1 DEF Selected
<1>7. CASE MintRefused(Timer) \/ Crash(Timer)
  <2>1. Spend("refused") \/ Spend("crash")
    BY <1>7 DEF MintRefused, Crash
  <2>. QED
    BY <1>0, <2>1 DEF Spend, Failures, Rare
<1>8. CASE Insert(Timer)
  <2>1. InsertDoes(Timer) /\ job[Timer].pc = "row"
    BY <1>8, InsertEffect DEF Insert
  <2>2. job'[Timer].todo = job[Timer].todo
    BY <2>1 DEF InsertDoes, Resume, Free
  <2>3. PICK i \in Selected : rows[i].path = p
    BY DEF Pending
  <2>4. CASE i \in job[Timer].todo
    <3>1. i \in Selected' /\ rows'[i].path = p
      BY <1>0, <2>2, <2>3, <2>4 DEF Selected, Kept
    <3>. QED
      BY <3>1 DEF Pending
  <2>5. CASE i \notin job[Timer].todo
    <3>1. i = job[Timer].source /\ job[Timer].path = p
      BY <2>1, <2>3, <2>5 DEF Selected, Minting, Chosen, ChosenJob
    <3>. QED
      BY <2>1, <3>1 DEF AtFiles
  <2>. QED
    BY <2>4, <2>5
<1>. QED
  BY <1>2, <1>3, <1>4, <1>5, <1>6, <1>7, <1>8 DEF WalkStep

\* A walk that passes p by found its newest live row young.
LEMMA PassedByIsYoung ==
    ASSUME Base, Ordered, StartWalk, NEW p \in Path, FreshOf(p), ~Pending(p)',
           LiveAt(p) # {}, OnlyWritten(p)
    PROVE  2 * (now - DiskBorn(p)) < Ttl
<1>. DEFINE live == {k \in DOMAIN rows : ~rows[k].revoked}
<1>. USE JobSets
<1>1. Tables /\ job \in [Job -> Progressing]
  BY TablesType DEF Base, Shape
<1>2. PICK i \in LiveAt(p) : \A k \in LiveAt(p) : k <= i
  <2>1. LiveAt(p) \subseteq 0 .. Len(rows) /\ Len(rows) \in Nat
    BY <1>1 DEF LiveAt, AtPath, Tables
  <2>. QED
    BY <2>1, Greatest
<1>3. i \in DropSuperseded(live) /\ rows[i].path = p /\ rows[i].path # NoPath /\ i \in DOMAIN rows
  BY <1>2, CertsAssumption DEF DropSuperseded, LiveAt, AtPath
<1>4. ~RowIsDue(i)
  <2>. SUFFICES ASSUME RowIsDue(i) PROVE FALSE
    OBVIOUS
  <2>1. i \in job'[Timer].todo
    BY <1>1, <1>3 DEF StartWalk, Progressing
  <2>2. rows' = rows
    BY DEF StartWalk
  <2>. QED
    BY <1>3, <2>1, <2>2 DEF Pending, Selected
<1>5. ~Due(i) /\ Born(i) <= DiskBorn(p) /\ disk[p].leaf \in DOMAIN leaves /\ i \in DOMAIN rows
  BY <1>2, <1>3, <1>4, DueIs DEF FreshOf, LiveAt
<1>6. Born(i) \in Nat /\ DiskBorn(p) \in Nat /\ now \in Nat /\ Ttl \in Nat
  BY <1>5, BornType, DiskBornType, CertsAssumption
<1>. QED
  BY <1>5, <1>6 DEF Due

\* Either the leaf at p is of this unit of time, or nobody is at it and it is the
\* one that stood for the live rows before the step.
LEMMA OldLeaf ==
    ASSUME Base, Fresh, [Next]_vars, NEW p \in Path, LiveAt(p)' # {}, OnlyWritten(p)'
    PROVE  /\ DiskBorn(p)' \in Nat /\ now' \in Nat /\ lastWalk' \in Nat /\ lastWalk' <= now'
           /\ \/ DiskBorn(p)' = now'
              \/ /\ DiskBorn(p)' = DiskBorn(p) /\ DiskBorn(p) \in Nat
                 /\ LiveAt(p) # {} /\ OnlyWritten(p)
                 /\ ~AtFiles(Timer, p)
<1>1. Base' /\ Fresh' /\ Kept /\ FreshOf(p) /\ OnlyWritten(p)
  BY NextBase, NextFresh, NextKept, PremissesKept DEF Fresh
<1>2. PICK i \in LiveAt(p)' : TRUE
  OBVIOUS
<1>3. disk'[p].leaf \in DOMAIN leaves'
  BY <1>1, <1>2 DEF Fresh, FreshOf, LiveAt
<1>4. now' \in Nat /\ lastWalk' \in Nat /\ lastWalk' <= now'
  BY <1>1 DEF Base, Shape
<1>5. DiskBorn(p)' \in Nat
  <2>1. Tables'
    BY <1>1, TablesType, PTL DEF Base
  <2>. QED
    BY <1>3, <2>1 DEF Tables, DiskBorn
<1>6. ASSUME DiskBorn(p)' # now'
      PROVE  /\ DiskBorn(p)' = DiskBorn(p) /\ DiskBorn(p) \in Nat
             /\ LiveAt(p) # {} /\ OnlyWritten(p)
             /\ ~AtFiles(Timer, p)
  <2>1. disk'[p].leaf = disk[p].leaf
    BY <1>6, LeafStays
  <2>2. disk[p].leaf \in DOMAIN leaves
    <3>1. Tables /\ Tables'
      BY <1>1, TablesType, PTL DEF Base
    <3>. QED
      BY <1>1, <1>3, <2>1, <3>1 DEF FreshOf, Tables, NoLeaf
  <2>3. DiskBorn(p)' = DiskBorn(p) /\ DiskBorn(p) \in Nat
    BY <1>1, <2>1, <2>2, DiskBornKept, DiskBornType
  <2>4. \A j \in Job : ~AtFiles(j, p)
    <3>. SUFFICES ASSUME NEW j \in Job, AtFiles(j, p) PROVE FALSE
      OBVIOUS
    <3>1. DiskBorn(p) = now
      BY <1>1 DEF FreshOf
    <3>2. now' # now => Tick
      BY DEF Next, Begin, IssueByAPI, IssueByCLI, RenewByAPI, RenewByCLI,
             StartRevokeByAPI, StartRevokeByCLI, StartWalk, NextDue, EndWalk, Mint, MintRefused,
             WriteLeaf, WriteKey, Insert, RevokeAtCA, RevokeRefused, Flip, Crash, vars
    <3>3. ~Tick
      BY DEF Tick, AtFiles
    <3>. QED
      BY <1>6, <2>3, <3>1, <3>2, <3>3
  <2>5. i \in DOMAIN rows
    <3>. SUFFICES ASSUME i \notin DOMAIN rows PROVE FALSE
      OBVIOUS
    <3>1. i \in DOMAIN rows' /\ rows'[i].path = p
      BY <1>2 DEF LiveAt, AtPath
    <3>2. PICK j \in Job : job[j].pc = "row" /\ job[j].path = p /\ rows'[i].by = j
      BY <3>1, RowsAppear
    <3>3. j \notin Api
      BY <3>1, <3>2 DEF OnlyWritten, AtPath
    <3>. QED
      BY <2>4, <3>2, <3>3 DEF AtFiles
  <2>6. i \in LiveAt(p)
    BY <1>1, <1>2, <2>5 DEF LiveAt, AtPath, Kept
  <2>. QED
    BY <1>1, <2>3, <2>4, <2>6, JobSets
<1>. QED
  BY <1>4, <1>5, <1>6

LEMMA NextTimelyOf ==
    ASSUME Base, Ordered, Chosen, Fresh, Timely, [Next]_vars, NEW p \in Path
    PROVE  TimelyOf(p)'
<1>. SUFFICES ASSUME LiveAt(p)' # {}, OnlyWritten(p)'
              PROVE  2 * (lastWalk' - DiskBorn(p)') <
                        Ttl + Slack(Failures + (IF Pending(p) THEN 1 ELSE 0))'
  BY DEF TimelyOf
<1>. DEFINE F == Failures  G == Failures'
<1>1. /\ DiskBorn(p)' \in Nat /\ now' \in Nat /\ lastWalk' \in Nat /\ lastWalk' <= now'
      /\ \/ DiskBorn(p)' = now'
         \/ /\ DiskBorn(p)' = DiskBorn(p) /\ DiskBorn(p) \in Nat
            /\ LiveAt(p) # {} /\ OnlyWritten(p)
            /\ ~AtFiles(Timer, p)
  BY OldLeaf
<1>2. F \in Nat /\ (G = F \/ G = F + 1) /\ G \in Nat
  BY FailuresGrow
<1>3. Ttl \in Nat /\ Ttl > 0 /\ Interval \in Nat /\ lastWalk \in Nat /\ now \in Nat /\ now - lastWalk <= Interval
  BY CertsAssumption DEF Base, Shape, Timely
<1>4. /\ Slack(F) \in Nat /\ Slack(F + 1) = Slack(F) + 2 * Interval
      /\ Slack(F + 1) \in Nat /\ Slack(F + 2) = Slack(F + 1) + 2 * Interval /\ Slack(F + 2) \in Nat
  <2>1. (F + 1) + 1 = F + 2
    BY <1>2
  <2>2. F + 1 \in Nat /\ F + 2 \in Nat
    BY <1>2
  <2>. HIDE DEF F
  <2>. QED
    BY <1>2, <2>1, <2>2, SlackGrows
<1>5. Slack(F + 0) = Slack(F) /\ Slack(G + 0) = Slack(G)
  <2>1. \A n \in Nat : n + 0 = n
    OBVIOUS
  <2>. HIDE DEF F, G
  <2>. QED
    BY <1>2, <2>1
<1>6. Slack(Failures + (IF Pending(p) THEN 1 ELSE 0))' = IF Pending(p)' THEN Slack(G + 1) ELSE Slack(G)
  <2>1. Slack(Failures + (IF Pending(p) THEN 1 ELSE 0))' = Slack(G + (IF Pending(p)' THEN 1 ELSE 0))
    BY DEF Slack
  <2>. QED
    BY <1>5, <2>1
<1>. DEFINE bound == IF Pending(p)' THEN Slack(G + 1) ELSE Slack(G)
<1>7. /\ Slack(F) <= bound /\ bound \in Nat
      /\ Pending(p)' \/ G = F + 1 => Slack(F + 1) <= bound
  <2>1. CASE G = F
    BY <1>3, <1>4, <2>1
  <2>2. CASE G = F + 1
    <3>1. G + 1 = F + 2
      BY <1>2, <2>2
    <3>. QED
      BY <1>3, <1>4, <2>2, <3>1
  <2>. QED
    BY <1>2, <2>1, <2>2
<1>. HIDE DEF F, G, bound
<1>8. SUFFICES 2 * (lastWalk' - DiskBorn(p)') < Ttl + bound
  BY <1>6 DEF bound, G
<1>9. CASE DiskBorn(p)' = now'
  <2>1. lastWalk' \in Nat /\ now' \in Nat /\ lastWalk' <= now'
    BY <1>1
  <2>2. bound \in Nat /\ Ttl \in Nat /\ Ttl > 0
    BY <1>3, <1>7
  <2>3. \A a, b, c, d \in Nat : a <= b /\ c > 0 => 2 * (a - b) < c + d
    OBVIOUS
  <2>. QED
    BY <1>9, <2>1, <2>2, <2>3
<1>10. CASE /\ DiskBorn(p)' = DiskBorn(p) /\ DiskBorn(p) \in Nat
            /\ LiveAt(p) # {} /\ OnlyWritten(p) /\ ~AtFiles(Timer, p)
  <2>1. 2 * (lastWalk - DiskBorn(p)) < Ttl + (IF Pending(p) THEN Slack(F + 1) ELSE Slack(F))
    <3>1. 2 * (lastWalk - DiskBorn(p)) < Ttl + Slack(F + (IF Pending(p) THEN 1 ELSE 0))
      BY <1>10 DEF Timely, TimelyOf, F
    <3>. QED
      BY <1>5, <3>1
  <2>2. CASE WalkStep \/ Tick \/ Elsewhere
    <3>1. lastWalk' = lastWalk
      BY <2>2 DEF WalkStep, Elsewhere, NextDue, EndWalk, Mint, MintRefused, WriteLeaf, WriteKey,
                  Insert, Crash, Tick
    <3>2. Pending(p) => Pending(p)' \/ G = F + 1
      BY <1>10, <2>2, PendingKept DEF F, G
    <3>3. (IF Pending(p) THEN Slack(F + 1) ELSE Slack(F)) <= bound
          /\ (IF Pending(p) THEN Slack(F + 1) ELSE Slack(F)) \in Nat
      BY <1>4, <1>7, <3>2
    <3>. QED
      BY <1>3, <1>7, <1>10, <2>1, <3>1, <3>3
  <2>3. CASE StartWalk
    <3>1. lastWalk' = now /\ job[Timer].pc = "free"
      BY <2>3 DEF StartWalk
    <3>2. ~Pending(p)
      BY <3>1 DEF Pending, Selected, Minting, Chosen, ChosenJob
    <3>3. CASE Pending(p)'
      <4>1. 2 * (now - DiskBorn(p)) < Ttl + Slack(F) + 2 * Interval
        BY <1>3, <1>4, <1>10, <2>1, <3>2
      <4>. QED
        BY <1>3, <1>4, <1>7, <1>10, <3>1, <3>3, <4>1
    <3>4. CASE ~Pending(p)'
      <4>1. 2 * (now - DiskBorn(p)) < Ttl
        BY <1>10, <2>3, <3>4, PassedByIsYoung DEF Fresh
      <4>. QED
        BY <1>3, <1>7, <1>10, <3>1, <4>1
    <3>. QED
      BY <3>3, <3>4
  <2>. QED
    BY <2>2, <2>3, Walkers
<1>. QED
  BY <1>1, <1>9, <1>10

\* The timer is on time.
LEMMA NextOnTime ==
    ASSUME Base, Timely, [Next]_vars
    PROVE  now' - lastWalk' <= Interval
<1>1. now \in Nat /\ lastWalk \in Nat /\ Interval \in Nat /\ now - lastWalk <= Interval
  BY CertsAssumption DEF Base, Shape, Timely
<1>2. CASE StartWalk
  BY <1>1, <1>2 DEF StartWalk
<1>3. CASE Tick
  BY <1>1, <1>3 DEF Tick, TimerFires
<1>4. CASE WalkStep \/ Elsewhere
  BY <1>1, <1>4 DEF WalkStep, Elsewhere, NextDue, EndWalk, Mint, MintRefused, WriteLeaf, WriteKey,
                    Insert, Crash
<1>. QED
  BY <1>2, <1>3, <1>4, Walkers

LEMMA NextTimely == Base /\ Ordered /\ Chosen /\ Fresh /\ Timely /\ [Next]_vars => Timely'
BY NextTimelyOf, NextOnTime DEF Timely

LEMMA TimelyLasts == Base /\ Chosen /\ Fresh /\ Timely => DiskNeverLapses
<1>. SUFFICES ASSUME Base, Chosen, Fresh, Timely, NEW p \in Path, LiveAt(p) # {}, OnlyWritten(p),
                     2 * Interval * (used["crash"] + used["refused"] + 1) <= Ttl
              PROVE  disk[p].leaf # NoLeaf /\ now < leaves[disk[p].leaf].not_after
  BY DEF DiskNeverLapses
<1>. DEFINE F == Failures
<1>1. F \in Nat /\ Slack(F + 1) <= Ttl
  BY DEF Failures, Slack, Base, Shape, Rare
<1>2. disk[p].leaf \in DOMAIN leaves
  BY DEF Fresh, FreshOf, LiveAt
<1>3. /\ disk[p].leaf # NoLeaf /\ DiskBorn(p) \in Nat /\ now \in Nat
      /\ leaves[disk[p].leaf].not_after = DiskBorn(p) + Ttl
      /\ Ttl \in Nat /\ Interval \in Nat /\ lastWalk \in Nat /\ now - lastWalk <= Interval
  <2>1. Tables
    BY TablesType DEF Base
  <2>. QED
    BY <1>2, <2>1, DiskBornType, CertsAssumption
       DEF Tables, NoLeaf, DiskBorn, Base, Shape, Windows, Timely
<1>4. 2 * (lastWalk - DiskBorn(p)) < Ttl + Slack(F + (IF Pending(p) THEN 1 ELSE 0))
  BY DEF Timely, TimelyOf
<1>5. Slack(F) \in Nat /\ Slack(F + 1) = Slack(F) + 2 * Interval /\ F + 0 = F
  BY <1>1, SlackGrows
<1>. HIDE DEF F
<1>6. CASE Pending(p)
  <2>1. lastWalk = now
    BY <1>6 DEF Pending, Selected, Minting, Chosen, ChosenJob
  <2>. QED
    BY <1>1, <1>3, <1>4, <1>5, <1>6, <2>1
<1>7. CASE ~Pending(p)
  <2>1. 2 * (lastWalk - DiskBorn(p)) < Ttl + Slack(F)
    BY <1>4, <1>5, <1>7
  <2>. QED
    BY <1>1, <1>3, <1>5, <2>1
<1>. QED
  BY <1>6, <1>7

\* The headroom holds for every lifetime, interval and number of failed walks: the
\* leaf on disk lapses only if the walks that failed, and one, fill half of it.
THEOREM HeadroomSuffices == Spec => []DiskNeverLapses
<1>1. Init => Fresh /\ Timely
  BY InitFresh, InitTimely
<1>2. Base /\ Ordered /\ Chosen /\ Fresh /\ Timely /\ [Next]_vars => (Fresh /\ Timely)'
  BY NextFresh, NextTimely
<1>. QED
  BY <1>1, <1>2, CertsWalk, TimelyLasts, PTL DEF Spec
=============================================================================
