---------------------------- MODULE ResultsDB_proofs ----------------------------
(***************************************************************************)
(* Proofs about ResultsDB, for any number of processes, jobs and commands: *)
(* every row has exactly the metrics it was stored with, the unique index  *)
(* means one row for each job, a job's last row stays, removed duplicates  *)
(* do not come back, and a parse leaves current results.                   *)
(***************************************************************************)
EXTENDS ResultsDB, WellFoundedInduction, TLAPS

\* No id is used twice, and none is larger than the last one.
Ids ==
  /\ lastid \in Nat
  /\ \A row \in runs : row.id \in Nat /\ row.id <= lastid
  /\ \A a, b \in runs : a.id = b.id => a = b

\* MetricsMatch, metric by metric.
RowMetrics ==
  \A row \in runs : \A x : (\E m \in metrics : m.run_id = row.id /\ m.metric = x) <=> x \in MetricsOf[row.run]
NoOrphans == \A m \in metrics : \E row \in runs : row.id = m.run_id

IInv == Ids /\ RowMetrics /\ NoOrphans /\ IndexMeansUnique

LEMMA MatchFromParts == RowMetrics /\ NoOrphans => MetricsMatch
<1> SUFFICES ASSUME RowMetrics, NoOrphans PROVE MetricsMatch
  OBVIOUS
<1>1. ASSUME NEW row \in runs
      PROVE  {m.metric : m \in {x \in metrics : x.run_id = row.id}} = MetricsOf[row.run]
  <2>1. \A x : x \in {m.metric : m \in {y \in metrics : y.run_id = row.id}}
                 <=> \E m \in metrics : m.run_id = row.id /\ m.metric = x
    OBVIOUS
  <2>2. QED BY <2>1 DEF RowMetrics
<1>2. QED BY <1>1 DEF NoOrphans, MetricsMatch

LEMMA RowsOfMetrics ==
  ASSUME NEW id, NEW run
  PROVE  /\ \A m \in MetricRows(id, run) : m.run_id = id /\ m.metric \in MetricsOf[run]
         /\ \A x \in MetricsOf[run] : \E m \in MetricRows(id, run) : m.run_id = id /\ m.metric = x
<1>1. \A x \in MetricsOf[run] : [run_id |-> id, metric |-> x] \in MetricRows(id, run)
  BY DEF MetricRows
<1>2. ASSUME NEW x \in MetricsOf[run]
      PROVE  \E m \in MetricRows(id, run) : m.run_id = id /\ m.metric = x
  <2> DEFINE m == [run_id |-> id, metric |-> x]
  <2>1. m \in MetricRows(id, run) /\ m.run_id = id /\ m.metric = x
    BY <1>1
  <2>2. QED BY <2>1
<1>3. ASSUME NEW m \in MetricRows(id, run)
      PROVE  m.run_id = id /\ m.metric \in MetricsOf[run]
  BY DEF MetricRows
<1>4. QED BY <1>2, <1>3

LEMMA InitInv == Init => IInv
<1> SUFFICES ASSUME Init PROVE IInv
  OBVIOUS
<1>1. PICK db \in Databases : runs = db.rows /\ lastid = db.lastid
  BY DEF Init
<1>2. /\ runs \subseteq [id : 0..lastid, job : Jobs, run : 1..MaxRuns]
      /\ \A a, b \in runs : a.id = b.id => a = b
  BY <1>1, ResultsAssumption
<1>3. lastid \in Nat
  BY <1>1, ResultsAssumption
<1>4. Ids
  <2>1. \A row \in runs : row.id \in 0..lastid
    BY <1>2
  <2>2. QED BY <1>2, <1>3, <2>1 DEF Ids
<1>5. metrics = UNION {MetricRows(row.id, row.run) : row \in runs}
  BY DEF Init
<1>6. \A m \in metrics : \E row \in runs : m \in MetricRows(row.id, row.run)
  BY <1>5
<1>7. RowMetrics
  <2>1. ASSUME NEW row \in runs, NEW x \in MetricsOf[row.run]
        PROVE  \E m \in metrics : m.run_id = row.id /\ m.metric = x
    <3>1. PICK m \in MetricRows(row.id, row.run) : m.run_id = row.id /\ m.metric = x
      BY RowsOfMetrics
    <3>2. QED BY <1>5, <3>1
  <2>2. ASSUME NEW row \in runs, NEW m \in metrics, m.run_id = row.id
        PROVE  m.metric \in MetricsOf[row.run]
    BY <1>4, <1>6, <2>2, RowsOfMetrics DEF Ids
  <2>3. QED BY <2>1, <2>2 DEF RowMetrics
<1>8. NoOrphans
  BY <1>6, RowsOfMetrics DEF NoOrphans
<1>9. IndexMeansUnique
  BY DEF Init, IndexMeansUnique
<1>10. QED BY <1>4, <1>7, <1>8, <1>9 DEF IInv

\* Rows that stay, and their metrics with them.
LEMMA CascadeKeeps ==
  ASSUME IInv, NEW kept \in SUBSET runs
  PROVE  /\ \A row \in kept : \A x : (\E m \in Cascade(kept) : m.run_id = row.id /\ m.metric = x)
                                       <=> x \in MetricsOf[row.run]
         /\ \A m \in Cascade(kept) : \E row \in kept : row.id = m.run_id
         /\ \A m \in Cascade(kept) : m.run_id \in Nat /\ m.run_id <= lastid
BY DEF IInv, Ids, RowMetrics, NoOrphans, Cascade

LEMMA StoreKeeps ==
  ASSUME IInv, NEW p \in Procs, Store(p)
  PROVE  IInv'
<1> DEFINE id == lastid + 1
           kept == Kept(job[p])
           new == [id |-> id, job |-> job[p], run |-> result[p]]
<1>1. /\ lastid' = id /\ runs' = kept \cup {new}
      /\ metrics' = Cascade(kept) \cup MetricRows(id, result[p])
      /\ index' = index
  BY DEF Store
<1>2. kept \in SUBSET runs
  BY DEF Kept
<1>3. /\ \A row \in kept : \A x : (\E m \in Cascade(kept) : m.run_id = row.id /\ m.metric = x)
                                    <=> x \in MetricsOf[row.run]
      /\ \A m \in Cascade(kept) : \E row \in kept : row.id = m.run_id
      /\ \A m \in Cascade(kept) : m.run_id \in Nat /\ m.run_id <= lastid
  BY <1>2, CascadeKeeps
<1>4. lastid \in Nat /\ \A row \in kept : row.id \in Nat /\ row.id <= lastid /\ row.id # id
  BY <1>2 DEF IInv, Ids
<1>5. \A m \in MetricRows(id, result[p]) : m.run_id = id /\ m.metric \in MetricsOf[result[p]]
  BY RowsOfMetrics
<1>6. \A x \in MetricsOf[result[p]] : \E m \in MetricRows(id, result[p]) : m.run_id = id /\ m.metric = x
  BY RowsOfMetrics
<1>7. index => \A row \in kept : row.job # job[p]
  BY DEF Kept
<1>8. index => \A a, b \in kept : a # b => a.job # b.job
  BY <1>2 DEF IInv, IndexMeansUnique, Duplicates, Same
<1>9. new.id = id /\ new.job = job[p] /\ new.run = result[p]
  OBVIOUS
<1>10. Ids'
  <2>1. \A a, b \in kept : a.id = b.id => a = b
    BY <1>2 DEF IInv, Ids
  <2> HIDE DEF kept, new
  <2>2. \A row \in runs' : row.id \in Nat /\ row.id <= lastid'
    BY <1>1, <1>4, <1>9
  <2>3. \A a, b \in runs' : a.id = b.id => a = b
    BY <1>1, <1>4, <1>9, <2>1
  <2>4. QED BY <1>1, <1>4, <2>2, <2>3 DEF Ids
<1> HIDE DEF kept, new, id
<1>11. RowMetrics'
  <2>1. ASSUME NEW row \in kept, NEW x
        PROVE  (\E m \in metrics' : m.run_id = row.id /\ m.metric = x) <=> x \in MetricsOf[row.run]
    BY <1>1, <1>3, <1>4, <1>5
  <2>2. ASSUME NEW x
        PROVE  (\E m \in metrics' : m.run_id = new.id /\ m.metric = x) <=> x \in MetricsOf[new.run]
    <3>1. \A m \in Cascade(kept) : m.run_id # id
      BY <1>3, <1>4 DEF id
    <3>2. QED BY <1>1, <1>5, <1>6, <1>9, <3>1
  <2>3. QED BY <1>1, <2>1, <2>2 DEF RowMetrics
<1>12. NoOrphans'
  BY <1>1, <1>3, <1>5, <1>9 DEF NoOrphans
<1>13. IndexMeansUnique'
  BY <1>1, <1>7, <1>8, <1>9 DEF IndexMeansUnique, Duplicates, Same
<1>14. QED BY <1>10, <1>11, <1>12, <1>13 DEF IInv

LEMMA DeleteKeeps ==
  ASSUME IInv, NEW p \in Procs, DeleteDuplicates(p)
  PROVE  IInv'
<1> DEFINE kept == {row \in runs : Keeps(row)}
<1>1. runs' = kept /\ metrics' = Cascade(kept) /\ lastid' = lastid /\ index' = index
  BY DEF DeleteDuplicates
<1>2. kept \in SUBSET runs
  OBVIOUS
<1> HIDE DEF kept
<1>3. Ids'
  BY <1>1, <1>2 DEF IInv, Ids
<1>4. RowMetrics' /\ NoOrphans'
  BY <1>1, <1>2, CascadeKeeps DEF RowMetrics, NoOrphans
<1>5. IndexMeansUnique'
  BY <1>1, <1>2 DEF IInv, IndexMeansUnique, Duplicates, Same
<1>6. QED BY <1>3, <1>4, <1>5 DEF IInv

\* The other steps change no row; an index appears only where no job has two.
LEMMA OtherKeeps ==
  ASSUME IInv, UNCHANGED tables,
         index' = index \/ index' = IndexIfUnique
  PROVE  IInv'
<1>1. runs' = runs /\ metrics' = metrics /\ lastid' = lastid
  BY DEF tables
<1>2. Ids' /\ RowMetrics' /\ NoOrphans'
  BY <1>1 DEF IInv, Ids, RowMetrics, NoOrphans
<1>3. Duplicates(runs)' = Duplicates(runs)
  BY <1>1 DEF Duplicates, Same
<1>4. IndexMeansUnique'
  BY <1>3 DEF IInv, IndexMeansUnique, IndexIfUnique
<1>5. QED BY <1>2, <1>4 DEF IInv

LEMMA StepKeeps ==
  ASSUME IInv, [Next]_vars
  PROVE  IInv'
<1>1. CASE UNCHANGED vars
  BY <1>1, OtherKeeps DEF vars, tables
<1>2. CASE \E p \in Procs, c \in {"parse", "dedup"} : Begin(p, c)
  BY <1>2, OtherKeeps DEF Begin
<1>3. CASE \E p \in Procs : OpenDB(p) \/ Reinit(p)
  BY <1>3, OtherKeeps DEF OpenDB, Reinit, TryIndex
<1>4. CASE \E p \in Procs : ReadOutput(p) \/ Ends(p)
  BY <1>4, OtherKeeps DEF ReadOutput, Ends
<1>5. CASE \E p \in Procs : Store(p)
  BY <1>5, StoreKeeps
<1>6. CASE \E p \in Procs : DeleteDuplicates(p)
  BY <1>6, DeleteKeeps
<1>7. CASE \E j \in Jobs : JobRuns(j)
  BY <1>7, OtherKeeps DEF JobRuns
<1>8. QED BY <1>1, <1>2, <1>3, <1>4, <1>5, <1>6, <1>7 DEF Next

\* Every row has the metrics of the output it was parsed from, whatever commands
\* run beside each other and wherever they are cut off.
THEOREM RowsKeepTheirMetrics == Spec => []MetricsMatch
<1>1. IInv => MetricsMatch
  BY MatchFromParts DEF IInv
<1>2. QED BY <1>1, InitInv, StepKeeps, PTL DEF Spec

\* The unique index is never there beside duplicates (part of DedupLasts).
THEOREM IndexHolds == Spec => []IndexMeansUnique
<1>1. IInv => IndexMeansUnique
  BY DEF IInv
<1>2. QED BY <1>1, InitInv, StepKeeps, PTL DEF Spec
--------------------------------------------------------------------------------
\* The row stored last.

\* A bounded set of numbers has a greatest one.
LEMMA Greatest ==
  ASSUME NEW n \in Nat, NEW S, S \subseteq 0..n, S # {}
  PROVE  \E m \in S : \A x \in S : x <= m
<1> DEFINE D == {n - x : x \in S}
<1>0. \A x \in S : x \in Nat /\ x <= n
  OBVIOUS
<1>1. D \subseteq Nat /\ D # {}
  <2>1. ASSUME NEW x \in S PROVE n - x \in Nat
    BY <1>0
  <2>2. D # {}
    OBVIOUS
  <2> QED BY <2>1, <2>2
<1>2. PICK least \in D : \A d \in D : least <= d
  <2> DEFINE Less == OpToRel(<, Nat)
  <2>1. IsWellFoundedOn(Less, Nat)
    BY NatLessThanWellFounded
  <2>2. \A x, y \in Nat : x < y => <<x, y>> \in Less
    BY DEF OpToRel
  <2> HIDE DEF Less, D
  <2>3. PICK x \in D : \A y \in D : ~(<<y, x>> \in Less)
    BY <1>1, <2>1, WFMin
  <2>4. ASSUME NEW y \in D PROVE x <= y
    <3>1. x \in Nat /\ y \in Nat /\ ~(<<y, x>> \in Less)
      BY <1>1, <2>3
    <3>2. ~(y < x)
      BY <2>2, <3>1
    <3> QED BY <3>1, <3>2
  <2> QED BY <2>4
<1>3. PICK m \in S : least = n - m
  BY <1>2
<1>4. ASSUME NEW x \in S PROVE x <= m
  <2>1. n - x \in D
    OBVIOUS
  <2>2. n - m <= n - x
    BY <1>2, <1>3, <2>1
  <2>3. x \in Nat /\ m \in Nat
    BY <1>0
  <2>4. \A a, b \in Nat : n - a <= n - b => b <= a
    OBVIOUS
  <2> QED BY <2>2, <2>3, <2>4
<1> QED BY <1>4

\* Among the ids of a job's rows one is the greatest.
LEMMA HasLast ==
  ASSUME NEW T, NEW n \in Nat, \A row \in T : row.id \in Nat /\ row.id <= n,
         NEW j, \E row \in T : row.job = j
  PROVE  \E row \in T : row.job = j /\ \A r \in T : Same(r, row) => r.id <= row.id
<1> DEFINE S == {row.id : row \in {r \in T : r.job = j}}
<1>1. S \subseteq 0..n /\ S # {}
  OBVIOUS
<1>2. PICK m \in S : \A x \in S : x <= m
  <2> HIDE DEF S
  <2> QED BY <1>1, Greatest
<1>3. PICK row \in T : row.job = j /\ m = row.id
  BY <1>2
<1> QED BY <1>2, <1>3 DEF Same

LEMMA LastRowIs ==
  ASSUME Ids, NEW j, HasRow(j)
  PROVE  /\ LastRow(j) \in runs /\ LastRow(j).job = j /\ LastRow(j).id \in Nat
         /\ \A r \in runs : r.job = j => r.id <= LastRow(j).id
<1>1. \E row \in runs : row.job = j /\ \A r \in runs : Same(r, row) => r.id <= row.id
  BY HasLast DEF Ids, HasRow
<1>2. LastRow(j) \in runs /\ LastRow(j).job = j
      /\ \A r \in runs : Same(r, LastRow(j)) => r.id <= LastRow(j).id
  BY <1>1 DEF LastRow
<1> QED BY <1>2 DEF Same, Ids

\* A step leaves a row of the job that is not older than its last one.
LEMMA NotOlder ==
  ASSUME IInv, [Next]_vars, NEW j \in Jobs, HasRow(j)
  PROVE  \E row \in runs' : row.job = j /\ row.id >= LastRow(j).id
<1>0. /\ LastRow(j) \in runs /\ LastRow(j).job = j /\ LastRow(j).id \in Nat
      /\ \A r \in runs : r.job = j => r.id <= LastRow(j).id
  BY LastRowIs DEF IInv
<1>1. CASE \E p \in Procs : Store(p)
  <2>1. PICK p \in Procs : Store(p)
    BY <1>1
  <2> DEFINE new == [id |-> lastid + 1, job |-> job[p], run |-> result[p]]
  <2>2. runs' = Kept(job[p]) \cup {new}
    BY <2>1 DEF Store
  <2>3. CASE j = job[p]
    <3>1. LastRow(j).id <= lastid /\ lastid \in Nat
      BY <1>0 DEF IInv, Ids
    <3>2. new \in runs' /\ new.job = j /\ new.id = lastid + 1
      BY <2>2, <2>3
    <3> HIDE DEF new
    <3> QED BY <1>0, <3>1, <3>2
  <2>4. CASE j # job[p]
    <3>1. LastRow(j) \in Kept(job[p])
      BY <1>0, <2>4 DEF Kept
    <3> QED BY <1>0, <2>2, <3>1
  <2> QED BY <2>3, <2>4
<1>2. CASE \E p \in Procs : DeleteDuplicates(p)
  <2>1. Keeps(LastRow(j))
    BY <1>0 DEF Keeps, Same
  <2>2. LastRow(j) \in runs'
    BY <1>0, <1>2, <2>1 DEF DeleteDuplicates
  <2> QED BY <1>0, <2>2
<1>3. CASE UNCHANGED runs
  BY <1>0, <1>3
<1> QED BY <1>1, <1>2, <1>3
        DEF Next, vars, tables, Begin, OpenDB, Reinit, ReadOutput, Ends, JobRuns

\* No command, whatever runs beside it and wherever it ends, removes the result
\* stored last for a job without a newer one.
THEOREM LastRowKept == Spec => LastRowStays
<1>1. IInv /\ IInv' /\ [Next]_vars =>
        \A j \in Jobs : HasRow(j) => HasRow(j)' /\ LastRow(j)'.id >= LastRow(j).id
  <2> SUFFICES ASSUME IInv, IInv', [Next]_vars, NEW j \in Jobs, HasRow(j)
               PROVE  HasRow(j)' /\ LastRow(j)'.id >= LastRow(j).id
    OBVIOUS
  <2>1. PICK row \in runs' : row.job = j /\ row.id >= LastRow(j).id
    BY NotOlder
  <2>2. HasRow(j)'
    BY <2>1 DEF HasRow
  <2>3. lastid' \in Nat /\ \A r \in runs' : r.id \in Nat /\ r.id <= lastid'
    BY DEF IInv, Ids
  <2>4. \E r \in runs' : r.job = j /\ \A o \in runs' : Same(o, r) => o.id <= r.id
    BY <2>1, <2>3, HasLast
  <2>5. LastRow(j)' \in runs' /\ LastRow(j)'.job = j
        /\ \A o \in runs' : Same(o, LastRow(j)') => o.id <= LastRow(j)'.id
    BY <2>4 DEF LastRow
  <2>6. row.id <= LastRow(j)'.id
    BY <2>1, <2>5 DEF Same
  <2>7. LastRow(j).id \in Nat
    BY LastRowIs DEF IInv
  <2> QED BY <2>1, <2>2, <2>3, <2>5, <2>6, <2>7
<1> QED BY <1>1, InitInv, StepKeeps, PTL DEF Spec, LastRowStays
--------------------------------------------------------------------------------
\* The removal of duplicates, with nobody else at work.

States   == {"idle", "open", "read", "store", "delete", "reinit", "done"}
Commands == {"none", "parse", "dedup"}

\* A command that no other runs beside finds nobody else active; between removing
\* the duplicates and making the index it finds none again.
AloneMeans(p) ==
  /\ Active(p) /\ alone[p] => \A q \in Procs \ {p} : ~Active(q)
  /\ pc[p] \in {"read", "store"} => cmd[p] = "parse"
  /\ pc[p] \in {"delete", "reinit"} => cmd[p] = "dedup"
  /\ pc[p] = "open" => cmd[p] # "none"
  /\ pc[p] = "reinit" /\ alone[p] => ~Duplicates(runs)
  /\ pc[p] = "done" /\ cmd[p] = "dedup" /\ alone[p] => index

Solo ==
  /\ pc \in [Procs -> States] /\ cmd \in [Procs -> Commands] /\ alone \in [Procs -> BOOLEAN]
  /\ \A p \in Procs : AloneMeans(p)

\* The rows that stay are no duplicates of each other.
LEMMA KeptAreUnique ==
  ASSUME Ids
  PROVE  ~Duplicates({row \in runs : Keeps(row)})
<1>1. SUFFICES ASSUME NEW a \in runs, NEW b \in runs, Keeps(a), Keeps(b), Same(a, b)
               PROVE  a = b
  BY DEF Duplicates
<1>2. a.id \in Nat /\ b.id \in Nat /\ a.id <= b.id /\ b.id <= a.id
  BY <1>1 DEF Keeps, Same, Ids
<1> QED BY <1>2 DEF Ids

\* A step of an active process: what holds of the others stays, since a command
\* that is alone is not theirs.
LEMMA OwnStep ==
  ASSUME Solo, NEW p \in Procs, NEW x \in States, Active(p),
         pc' = [pc EXCEPT ![p] = x], UNCHANGED <<cmd, alone>>,
         index => index',
         x \in {"read", "store"} => cmd[p] = "parse",
         x \in {"delete", "reinit"} => cmd[p] = "dedup", x # "open",
         x = "reinit" /\ alone[p] => ~Duplicates(runs'),
         x = "done" /\ cmd[p] = "dedup" /\ alone[p] => index'
  PROVE  Solo'
<1>1. pc' \in [Procs -> States] /\ cmd' \in [Procs -> Commands] /\ alone' \in [Procs -> BOOLEAN]
  BY DEF Solo
<1>2. \A q \in Procs : pc'[q] = IF q = p THEN x ELSE pc[q]
  BY DEF Solo
<1>3. ASSUME NEW q \in Procs, Active(q)', alone'[q] PROVE Active(q) /\ \A o \in Procs \ {q} : ~Active(o)
  <2>1. Active(q)
    BY <1>2, <1>3 DEF Active
  <2> QED BY <1>3, <2>1 DEF Solo, AloneMeans
<1>4. ASSUME NEW q \in Procs PROVE AloneMeans(q)'
  <2>1. CASE q = p
    <3>1. Active(q)' /\ alone'[q] => \A o \in Procs \ {q} : ~Active(o)'
      BY <1>2, <1>3, <2>1 DEF Active
    <3> QED BY <1>2, <2>1, <3>1 DEF AloneMeans
  <2>2. CASE q # p
    <3>1. ~(Active(q)' /\ alone'[q])
      BY <1>3, <2>2
    <3>2. pc'[q] = "reinit" => Active(q)'
      BY DEF Active
    <3>3. AloneMeans(q)
      BY DEF Solo
    <3> QED BY <1>2, <2>2, <3>1, <3>2, <3>3 DEF AloneMeans
  <2> QED BY <2>1, <2>2
<1> QED BY <1>1, <1>4 DEF Solo

\* A process that begins a command is alone if nobody is active, and nobody who
\* is active stays alone.
LEMMA BeginSolo ==
  ASSUME Solo, NEW p \in Procs, NEW c \in {"parse", "dedup"}, Begin(p, c)
  PROVE  Solo'
<1>1. /\ pc' = [pc EXCEPT ![p] = "open"] /\ cmd' = [cmd EXCEPT ![p] = c]
      /\ alone' = [q \in Procs |-> IF q = p THEN \A o \in Procs : ~Active(o)
                                   ELSE alone[q] /\ ~Active(q)]
      /\ UNCHANGED <<runs, index>>
  BY DEF Begin, tables
<1>2. pc' \in [Procs -> States] /\ cmd' \in [Procs -> Commands] /\ alone' \in [Procs -> BOOLEAN]
  <2>1. \A q \in Procs : (IF q = p THEN \A o \in Procs : ~Active(o) ELSE alone[q] /\ ~Active(q)) \in BOOLEAN
    OBVIOUS
  <2>2. alone' \in [Procs -> BOOLEAN]
    BY <1>1, <2>1
  <2> QED BY <1>1, <2>2 DEF Solo, States, Commands
<1>3. /\ pc'[p] = "open" /\ cmd'[p] # "none" /\ (alone'[p] => \A o \in Procs : ~Active(o))
      /\ \A q \in Procs \ {p} : /\ pc'[q] = pc[q] /\ cmd'[q] = cmd[q]
                                /\ alone'[q] => alone[q] /\ ~Active(q)
  BY <1>1 DEF Solo
<1>4. ASSUME NEW q \in Procs PROVE AloneMeans(q)'
  <2>1. CASE q = p
    <3>1. Active(q)' /\ alone'[q] => \A o \in Procs \ {q} : ~Active(o)'
      BY <1>3, <2>1 DEF Active
    <3>2. pc'[q] = "open" /\ cmd'[q] # "none"
      BY <1>3, <2>1
    <3> QED BY <3>1, <3>2 DEF AloneMeans
  <2>2. CASE q # p
    BY <1>1, <1>3, <2>2 DEF AloneMeans, Active, Solo
  <2> QED BY <2>1, <2>2
<1> QED BY <1>2, <1>4 DEF Solo

\* The index never goes away.
LEMMA IndexStays ==
  ASSUME NEW p \in Procs, TryIndex(p)
  PROVE  index => index'
BY DEF TryIndex, IndexIfUnique

LEMMA StepSolo ==
  ASSUME IInv, Solo, [Next]_vars
  PROVE  Solo'
<1>1. CASE UNCHANGED <<pc, cmd, alone, runs, index>>
  BY <1>1 DEF Solo, AloneMeans, Active, Duplicates, Same
<1>2. ASSUME NEW p \in Procs, NEW c \in {"parse", "dedup"}, Begin(p, c) PROVE Solo'
  BY <1>2, BeginSolo
<1>3. ASSUME NEW p \in Procs, OpenDB(p) PROVE Solo'
  <2> DEFINE x == IF cmd[p] = "parse" THEN "read" ELSE "delete"
  <2>1. /\ pc[p] = "open" /\ pc' = [pc EXCEPT ![p] = x]
        /\ TryIndex(p) /\ UNCHANGED <<cmd, alone>>
    BY <1>3 DEF OpenDB, history
  <2>2. /\ x \in States /\ x \notin {"open", "store", "reinit", "done"}
        /\ x = "read" => cmd[p] = "parse"
        /\ x = "delete" => cmd[p] = "dedup"
    BY <2>1 DEF States, Solo, AloneMeans, Commands
  <2> HIDE DEF x
  <2>3. Active(p)
    BY <2>1 DEF Active
  <2> QED BY <2>1, <2>2, <2>3, IndexStays, OwnStep
<1>4. ASSUME NEW p \in Procs, ReadOutput(p) \/ Store(p) PROVE Solo'
  <2>1. pc[p] \in {"read", "store"} /\ Active(p) /\ cmd[p] = "parse" /\ UNCHANGED <<cmd, alone, index>>
    BY <1>4 DEF ReadOutput, Store, Active, Solo, AloneMeans, history
  <2>2. PICK x \in {"read", "store", "done"} : pc' = [pc EXCEPT ![p] = x]
    BY <1>4 DEF ReadOutput, Store, Advance
  <2>3. x \in States /\ x \notin {"open", "delete", "reinit"}
    BY DEF States
  <2> QED BY <2>1, <2>2, <2>3, OwnStep
<1>5. ASSUME NEW p \in Procs, DeleteDuplicates(p) PROVE Solo'
  <2>1. /\ pc' = [pc EXCEPT ![p] = "reinit"] /\ Active(p) /\ cmd[p] = "dedup"
        /\ UNCHANGED <<cmd, alone, index>>
    BY <1>5 DEF DeleteDuplicates, history, Active, Solo, AloneMeans
  <2>2. ~Duplicates(runs')
    <3>1. runs' = {row \in runs : Keeps(row)}
      BY <1>5 DEF DeleteDuplicates
    <3> QED BY <3>1, KeptAreUnique DEF IInv
  <2> QED BY <2>1, <2>2, OwnStep DEF States
<1>6. ASSUME NEW p \in Procs, Reinit(p) PROVE Solo'
  <2>1. /\ pc[p] = "reinit" /\ pc' = [pc EXCEPT ![p] = "done"] /\ Active(p)
        /\ TryIndex(p) /\ UNCHANGED <<cmd, alone>>
    BY <1>6 DEF Reinit, history, Active
  <2>2. alone[p] => index'
    BY <2>1 DEF Solo, AloneMeans, TryIndex, IndexIfUnique
  <2> QED BY <2>1, <2>2, IndexStays, OwnStep DEF States
<1>7. ASSUME NEW p \in Procs, Ends(p) PROVE Solo'
  <2>1. pc' = [pc EXCEPT ![p] = "idle"] /\ Active(p) /\ UNCHANGED <<cmd, alone, index>>
    BY <1>7 DEF Ends, history
  <2> QED BY <2>1, OwnStep DEF States
<1>8. CASE UNCHANGED vars \/ \E j \in Jobs : JobRuns(j)
  BY <1>1, <1>8 DEF vars, JobRuns, tables, history
<1> QED BY <1>2, <1>3, <1>4, <1>5, <1>6, <1>7, <1>8 DEF Next

LEMMA InitSolo == Init => Solo
<1> SUFFICES ASSUME Init PROVE Solo
  OBVIOUS
<1>1. /\ pc = [p \in Procs |-> "idle"] /\ cmd = [p \in Procs |-> "none"]
      /\ alone = [p \in Procs |-> TRUE]
  BY DEF Init
<1> QED BY <1>1 DEF Solo, AloneMeans, Active, States, Commands

\* A removal of duplicates that nobody worked beside leaves the unique index, and
\* as long as there is one, each job has one row.
THEOREM DuplicatesStayAway == Spec => []DedupLasts
<1>1. IInv /\ Solo => DedupLasts
  BY DEF IInv, Solo, AloneMeans, DedupLasts
<1> QED BY <1>1, InitSolo, InitInv, StepKeeps, StepSolo, PTL DEF Spec
--------------------------------------------------------------------------------
\* What a parse leaves behind.

\* The tables' rows and the variables a parse works with.
Types ==
  /\ newest \in [Jobs -> Nat] /\ floor \in [Procs -> [Jobs -> Nat]]
  /\ job \in [Procs -> 0..LastJob] /\ result \in [Procs -> Nat]

\* Job j has a result that is not older than process p's floor.
Stored(p, j) == floor[p][j] > 0 => HasRow(j) /\ LastRow(j).run >= floor[p][j]

\* A result that waits to be stored is not older than the floor of any command
\* that is alone: whoever holds it read it after that command began.
Fresh ==
  /\ \A p \in Procs : \A j \in Jobs : floor[p][j] <= newest[j]
  /\ \A p, q \in Procs : alone[p] /\ pc[q] = "store" => result[q] >= floor[p][job[q]]

\* A parse has stored the jobs it has passed.
Passed(p) ==
  /\ pc[p] \in {"read", "store"} => job[p] \in Jobs
  /\ cmd[p] = "parse" /\ alone[p] =>
       /\ pc[p] \in {"read", "store"} => \A j \in Jobs : j < job[p] => Stored(p, j)
       /\ pc[p] = "done" => \A j \in Jobs : Stored(p, j)

Parses == Types /\ Fresh /\ \A p \in Procs : Passed(p)

\* The row with the greatest id is the last one.
LEMMA TheLast ==
  ASSUME NEW T, \A a, b \in T : a.id = b.id => a = b, \A row \in T : row.id \in Nat,
         NEW j, NEW row \in T, row.job = j, \A r \in T : r.job = j => r.id <= row.id
  PROVE  row = CHOOSE x \in T : x.job = j /\ \A r \in T : Same(r, x) => r.id <= x.id
<1> DEFINE IsLast(x) == x.job = j /\ \A r \in T : Same(r, x) => r.id <= x.id
<1>1. IsLast(row)
  BY DEF Same
<1>2. ASSUME NEW x \in T, IsLast(x) PROVE x = row
  <2>1. x.id <= row.id /\ row.id <= x.id /\ x.id \in Nat /\ row.id \in Nat
    BY <1>2 DEF Same
  <2> QED BY <2>1
<1> QED BY <1>1, <1>2

LEMMA LastIs ==
  ASSUME IInv', NEW j, NEW row \in runs', row.job = j,
         \A r \in runs' : r.job = j => r.id <= row.id
  PROVE  HasRow(j)' /\ LastRow(j)' = row
<1>1. /\ \A a, b \in runs' : a.id = b.id => a = b
      /\ \A r \in runs' : r.id \in Nat
  BY DEF IInv, Ids
<1> QED BY <1>1, TheLast DEF HasRow, LastRow

\* A result that is stored is its job's last one.
LEMMA StoredLast ==
  ASSUME IInv, IInv', NEW p \in Procs, Store(p), NEW j, job[p] = j
  PROVE  HasRow(j)' /\ LastRow(j)'.run = result[p]
<1> DEFINE new == [id |-> lastid + 1, job |-> job[p], run |-> result[p]]
<1>1. lastid \in Nat /\ \A row \in runs : row.id <= lastid /\ row.id \in Nat
  BY DEF IInv, Ids
<1>2. runs' = Kept(job[p]) \cup {new} /\ Kept(job[p]) \subseteq runs
  BY DEF Store, Kept
<1>3. new.id = lastid + 1 /\ new.job = job[p] /\ new.run = result[p]
  OBVIOUS
<1> HIDE DEF new
<1>4. \A r \in runs' : r.id <= new.id
  BY <1>1, <1>2, <1>3
<1> QED BY <1>2, <1>3, <1>4, LastIs

\* The last row of a job is another one only when a new result is stored.
LEMMA LastAfter ==
  ASSUME IInv, IInv', [Next]_vars, NEW j \in Jobs
  PROVE  \/ HasRow(j) => HasRow(j)' /\ LastRow(j)' = LastRow(j)
         \/ \E p \in Procs : Store(p) /\ job[p] = j /\ HasRow(j)' /\ LastRow(j)'.run = result[p]
<1>3. ASSUME HasRow(j), LastRow(j) \in runs', \A r \in runs' : r.job = j => r \in runs
      PROVE  HasRow(j)' /\ LastRow(j)' = LastRow(j)
  BY <1>3, LastIs, LastRowIs DEF IInv
<1>4. ASSUME NEW p \in Procs, Store(p)
      PROVE  \/ HasRow(j) => HasRow(j)' /\ LastRow(j)' = LastRow(j)
             \/ job[p] = j /\ HasRow(j)' /\ LastRow(j)'.run = result[p]
  <2> DEFINE new == [id |-> lastid + 1, job |-> job[p], run |-> result[p]]
  <2>1. /\ runs' = Kept(job[p]) \cup {new} /\ Kept(job[p]) \subseteq runs
        /\ new.job = job[p]
    BY <1>4 DEF Store, Kept
  <2>2. CASE job[p] = j
    BY <1>4, <2>2, StoredLast
  <2>3. CASE job[p] # j
    <3>1. HasRow(j) => LastRow(j) \in runs'
      BY <2>1, <2>3, LastRowIs DEF IInv, Kept
    <3> HIDE DEF new
    <3> QED BY <1>3, <2>1, <2>3, <3>1
  <2> QED BY <2>2, <2>3
<1>5. ASSUME NEW p \in Procs, DeleteDuplicates(p), HasRow(j)
      PROVE  HasRow(j)' /\ LastRow(j)' = LastRow(j)
  <2>1. runs' = {row \in runs : Keeps(row)}
    BY <1>5 DEF DeleteDuplicates
  <2>2. Keeps(LastRow(j)) /\ LastRow(j) \in runs
    BY <1>5, LastRowIs DEF IInv, Keeps, Same
  <2> QED BY <1>3, <1>5, <2>1, <2>2
<1>6. CASE UNCHANGED runs
  BY <1>6 DEF HasRow, LastRow, Same
<1> QED BY <1>4, <1>5, <1>6
        DEF Next, vars, tables, Begin, OpenDB, Reinit, ReadOutput, Ends, JobRuns

\* What is stored stays, for a command that is alone.
LEMMA StoredStays ==
  ASSUME IInv, IInv', Types, Fresh, Solo, [Next]_vars, NEW p \in Procs, NEW j \in Jobs,
         alone[p], floor'[p] = floor[p], Stored(p, j)
  PROVE  Stored(p, j)'
<1>1. CASE HasRow(j) => HasRow(j)' /\ LastRow(j)' = LastRow(j)
  BY <1>1 DEF Stored
<1>2. CASE \E q \in Procs : Store(q) /\ job[q] = j /\ HasRow(j)' /\ LastRow(j)'.run = result[q]
  <2>1. PICK q \in Procs : pc[q] = "store" /\ job[q] = j /\ HasRow(j)' /\ LastRow(j)'.run = result[q]
    BY <1>2 DEF Store
  <2>2. result[q] >= floor[p][j]
    BY <2>1 DEF Fresh
  <2> QED BY <2>1, <2>2 DEF Stored
<1> QED BY <1>1, <1>2, LastAfter

\* The steps that change nothing a parse works with.
LEMMA StillPasses ==
  ASSUME IInv, IInv', Solo, Parses, [Next]_vars, NEW p \in Procs, Passed(p),
         floor'[p] = floor[p], alone'[p] = alone[p], cmd'[p] = cmd[p],
         job'[p] = job[p], pc'[p] = pc[p]
  PROVE  Passed(p)'
BY StoredStays DEF Passed, Parses

\* On to the next job, or to the end, with the present one stored.
LEMMA AdvancePasses ==
  ASSUME IInv, IInv', Solo, Parses, [Next]_vars, NEW p \in Procs, Advance(p),
         pc[p] \in {"read", "store"},
         UNCHANGED <<cmd, history>>, NEW at \in Jobs, at = job[p], alone[p] => Stored(p, at)'
  PROVE  Passed(p)'
<1>1. /\ job[p] \in Jobs /\ LastJob \in Nat /\ job \in [Procs -> 0..LastJob]
      /\ pc \in [Procs -> States] /\ cmd' = cmd /\ alone' = alone /\ floor' = floor
  BY ResultsAssumption DEF Parses, Passed, Types, Solo, history
<1>2. /\ job'[p] = IF job[p] = LastJob THEN 0 ELSE job[p] + 1
      /\ pc'[p] = IF job[p] = LastJob THEN "done" ELSE "read"
  BY <1>1 DEF Advance
<1>3. ASSUME cmd[p] = "parse", alone[p], NEW j \in Jobs, j < job[p] PROVE Stored(p, j)'
  BY <1>1, <1>3, StoredStays DEF Parses, Passed
<1>4. ASSUME cmd[p] = "parse", alone[p], NEW j \in Jobs, j <= job[p] PROVE Stored(p, j)'
  <2>1. j < job[p] \/ j = job[p]
    BY <1>1, <1>4 DEF Jobs
  <2> QED BY <1>3, <1>4, <2>1
<1>5. CASE job[p] = LastJob
  BY <1>1, <1>2, <1>4, <1>5 DEF Passed, Jobs
<1>6. CASE job[p] # LastJob
  BY <1>1, <1>2, <1>4, <1>6 DEF Passed, Jobs
<1> QED BY <1>5, <1>6
\* Results are read after the floors they are held against were set.
LEMMA ReadIsFresh ==
  ASSUME Solo, Parses, NEW p \in Procs, ReadOutput(p)
  PROVE  Types' /\ Fresh'
<1>1. /\ pc[p] = "read" /\ job[p] \in Jobs /\ newest[job[p]] \in Nat
      /\ UNCHANGED <<newest, floor, alone>>
  BY DEF ReadOutput, Parses, Passed, Types, history
<1>2. LastJob \in Nat /\ LastJob >= 1 /\ job[p] \in 0..LastJob
  BY ResultsAssumption DEF Parses, Types
<1>3. CASE Advance(p)
  <2>1. job' \in [Procs -> 0..LastJob] /\ result' \in [Procs -> Nat]
    <3>1. /\ job' = [job EXCEPT ![p] = IF @ = LastJob THEN 0 ELSE @ + 1]
          /\ result' = [result EXCEPT ![p] = 0]
      BY <1>3 DEF Advance
    <3>2. (IF job[p] = LastJob THEN 0 ELSE job[p] + 1) \in 0..LastJob
      BY <1>2
    <3>3. job \in [Procs -> 0..LastJob] /\ result \in [Procs -> Nat]
      BY DEF Parses, Types
    <3> QED BY <3>1, <3>2, <3>3
  <2>2. \A q \in Procs : pc'[q] = "store" => q # p /\ pc[q] = "store"
    BY <1>3 DEF Advance, Solo
  <2>3. \A q \in Procs : q # p => job'[q] = job[q] /\ result'[q] = result[q]
    BY <1>3 DEF Advance, Parses, Types
  <2> QED BY <1>1, <2>1, <2>2, <2>3 DEF Parses, Types, Fresh
<1>4. CASE /\ result' = [result EXCEPT ![p] = OutputOf(job[p])]
           /\ pc' = [pc EXCEPT ![p] = "store"]
           /\ UNCHANGED job
  <2>1. result' \in [Procs -> Nat]
    BY <1>1, <1>4 DEF OutputOf, Parses, Types
  <2>2. result'[p] = newest[job[p]]
    BY <1>4 DEF OutputOf, Parses, Types
  <2>3. \A q \in Procs : q # p => pc'[q] = pc[q] /\ result'[q] = result[q]
    BY <1>4 DEF Parses, Types
  <2>4. \A a \in Procs : floor[a][job[p]] \in Nat /\ floor[a][job[p]] <= newest[job[p]]
    BY <1>1 DEF Parses, Types, Fresh
  <2>5. ASSUME NEW a \in Procs, NEW q \in Procs, alone'[a], pc'[q] = "store"
        PROVE  result'[q] >= floor'[a][job'[q]]
    <3>1. CASE q = p
      BY <1>1, <1>4, <2>2, <2>4, <3>1
    <3>2. CASE q # p
      BY <1>1, <1>4, <2>3, <2>5, <3>2 DEF Parses, Fresh
    <3> QED BY <3>1, <3>2
  <2> QED BY <1>1, <1>4, <2>1, <2>5 DEF Parses, Types, Fresh
<1> QED BY <1>3, <1>4 DEF ReadOutput

LEMMA FreshKept ==
  ASSUME Solo, Parses, [Next]_vars
  PROVE  Types' /\ Fresh'
<1> USE DEF Parses
<1>0. LastJob \in Nat /\ LastJob >= 1 /\ Jobs = 1..LastJob
  BY ResultsAssumption DEF Jobs
<1>1. ASSUME NEW p \in Procs, NEW c \in {"parse", "dedup"}, Begin(p, c) PROVE Types' /\ Fresh'
  <2>1. /\ pc' = [pc EXCEPT ![p] = "open"] /\ floor' = [floor EXCEPT ![p] = newest]
        /\ alone' = [q \in Procs |-> IF q = p THEN \A o \in Procs : ~Active(o)
                                     ELSE alone[q] /\ ~Active(q)]
        /\ UNCHANGED <<newest, job, result>>
    BY <1>1 DEF Begin
  <2>2. Types'
    BY <2>1 DEF Types
  <2>3. \A q \in Procs : floor'[q] = IF q = p THEN newest ELSE floor[q]
    BY <2>1 DEF Types
  <2>4. \A a \in Procs, j \in Jobs : floor'[a][j] <= newest'[j]
    BY <2>1, <2>3 DEF Fresh, Types
  <2>5. ASSUME NEW a \in Procs, NEW q \in Procs, alone'[a], pc'[q] = "store"
        PROVE  result'[q] >= floor'[a][job'[q]]
    <3>1. q # p /\ pc[q] = "store" /\ Active(q)
      BY <2>1, <2>5 DEF Solo, Active
    <3>2. a # p /\ alone[a]
      BY <2>1, <2>5, <3>1
    <3>3. floor'[a] = floor[a] /\ result[q] >= floor[a][job[q]]
      BY <2>3, <3>1, <3>2 DEF Fresh
    <3> QED BY <2>1, <3>3
  <2> QED BY <2>2, <2>4, <2>5 DEF Fresh
<1>2. ASSUME NEW p \in Procs, OpenDB(p) PROVE Types' /\ Fresh'
  <2>1. \A q \in Procs : pc'[q] = "store" => q # p /\ pc[q] = "store" /\ job'[q] = job[q]
    BY <1>2 DEF OpenDB, Solo, Types
  <2> QED BY <1>0, <1>2, <2>1 DEF OpenDB, history, Types, Fresh
<1>3. ASSUME NEW p \in Procs, ReadOutput(p) PROVE Types' /\ Fresh'
  BY <1>3, ReadIsFresh
<1>4. ASSUME NEW p \in Procs, Store(p) PROVE Types' /\ Fresh'
  <2>1. Advance(p) /\ UNCHANGED <<newest, floor, alone>> /\ job[p] \in 0..LastJob
    BY <1>4 DEF Store, history, Types
  <2>2. job' \in [Procs -> 0..LastJob] /\ result' \in [Procs -> Nat]
    BY <1>0, <2>1 DEF Advance, Types
  <2>3. \A q \in Procs : pc'[q] = "store" => q # p /\ pc[q] = "store"
    BY <2>1 DEF Advance, Solo
  <2>4. \A q \in Procs : q # p => job'[q] = job[q] /\ result'[q] = result[q]
    BY <2>1 DEF Advance, Types
  <2> QED BY <2>1, <2>2, <2>3, <2>4 DEF Types, Fresh
<1>5. ASSUME NEW p \in Procs, DeleteDuplicates(p) \/ Reinit(p) PROVE Types' /\ Fresh'
  <2>1. \A q \in Procs : pc'[q] = "store" => pc[q] = "store"
    BY <1>5 DEF DeleteDuplicates, Reinit, Solo
  <2> QED BY <1>5, <2>1 DEF DeleteDuplicates, Reinit, history, Types, Fresh
<1>6. ASSUME NEW p \in Procs, Ends(p) PROVE Types' /\ Fresh'
  <2>1. \A q \in Procs : pc'[q] = "store" =>
          pc[q] = "store" /\ job'[q] = job[q] /\ result'[q] = result[q]
    BY <1>6 DEF Ends, Solo, Types
  <2>2. Types'
    <3>1. /\ job' = [job EXCEPT ![p] = 0] /\ result' = [result EXCEPT ![p] = 0]
          /\ newest' = newest /\ floor' = floor
      BY <1>6 DEF Ends, history
    <3>2. 0 \in 0..LastJob
      BY <1>0
    <3> QED BY <3>1, <3>2 DEF Types
  <2> QED BY <1>6, <2>1, <2>2 DEF Ends, history, Fresh
<1>7. ASSUME NEW j \in Jobs, JobRuns(j) PROVE Types' /\ Fresh'
  <2>1. newest' \in [Jobs -> Nat] /\ \A k \in Jobs : newest[k] <= newest'[k]
    BY <1>7 DEF JobRuns, Types
  <2>2. \A a \in Procs, k \in Jobs : floor[a][k] <= newest'[k]
    BY <2>1 DEF Types, Fresh
  <2> QED BY <1>7, <2>1, <2>2 DEF JobRuns, history, Types, Fresh
<1>8. CASE UNCHANGED vars
  BY <1>8 DEF vars, Types, Fresh
<1> QED BY <1>1, <1>2, <1>3, <1>4, <1>5, <1>6, <1>7, <1>8 DEF Next

\* Every step leaves what the parses have passed stored.
LEMMA PassedKept ==
  ASSUME IInv, IInv', Solo, Parses, [Next]_vars, NEW p \in Procs
  PROVE  Passed(p)'
<1>0. Passed(p) /\ Types /\ pc \in [Procs -> States] /\ cmd \in [Procs -> Commands]
  BY DEF Parses, Solo
<1>1. ASSUME NEW q \in Procs, q # p, Begin(q, "parse") \/ Begin(q, "dedup") PROVE Passed(p)'
  <2>1. /\ UNCHANGED <<pc[p], cmd[p], floor[p], job[p]>>
        /\ alone'[p] => alone[p]
    BY <1>0, <1>1 DEF Begin, Types
  <2>2. ASSUME alone[p], NEW j \in Jobs, Stored(p, j) PROVE Stored(p, j)'
    BY <2>1, <2>2, StoredStays DEF Parses
  <2> QED BY <1>0, <2>1, <2>2 DEF Passed
<1>2. ASSUME NEW q \in Procs, q # p,
             OpenDB(q) \/ ReadOutput(q) \/ Store(q) \/ DeleteDuplicates(q) \/ Reinit(q) \/ Ends(q)
      PROVE  Passed(p)'
  <2>1. UNCHANGED <<cmd, history>> /\ UNCHANGED <<pc[p], job[p]>>
    BY <1>0, <1>2 DEF OpenDB, ReadOutput, Store, Advance, DeleteDuplicates, Reinit, Ends, Types, history
  <2> QED BY <1>0, <2>1, StillPasses DEF history
<1>3. CASE Begin(p, "parse") \/ Begin(p, "dedup")
  BY <1>0, <1>3 DEF Begin, Passed
<1>4. CASE OpenDB(p)
  <2>1. pc'[p] = "read" => job'[p] = 1
    BY <1>0, <1>4 DEF OpenDB, Types
  <2>2. pc'[p] \in {"read", "delete"} /\ 1 \in Jobs /\ \A j \in Jobs : ~(j < 1)
    BY <1>0, <1>4, ResultsAssumption DEF OpenDB, Jobs
  <2> QED BY <2>1, <2>2 DEF Passed
<1>5. CASE ReadOutput(p)
  <2>1. pc[p] = "read" /\ job[p] \in Jobs /\ UNCHANGED <<cmd, history>>
    BY <1>0, <1>5 DEF ReadOutput, Passed
  <2>2. CASE newest[job[p]] = 0
    <3>1. floor[p][job[p]] <= 0 /\ floor[p][job[p]] \in Nat
      BY <2>1, <2>2 DEF Parses, Types, Fresh
    <3>2. PICK at \in Jobs : at = job[p]
      BY <2>1
    <3>3. Stored(p, at)'
      BY <2>1, <3>1, <3>2 DEF Stored, history
    <3>4. Advance(p)
      BY <1>5, <2>2 DEF ReadOutput
    <3> QED BY <2>1, <3>2, <3>3, <3>4, AdvancePasses
  <2>3. CASE newest[job[p]] # 0
    <3>1. pc'[p] = "store" /\ job'[p] = job[p]
      BY <1>0, <1>5, <2>3 DEF ReadOutput
    <3>2. ASSUME alone[p], NEW j \in Jobs, Stored(p, j) PROVE Stored(p, j)'
      BY <2>1, <3>2, StoredStays DEF Parses, history
    <3> QED BY <1>0, <2>1, <3>1, <3>2 DEF Passed, history
  <2> QED BY <2>2, <2>3
<1>6. CASE Store(p)
  <2>1. pc[p] = "store" /\ job[p] \in Jobs /\ UNCHANGED <<cmd, history>> /\ Advance(p)
    BY <1>0, <1>6 DEF Store, Passed
  <2>2. PICK at \in Jobs : at = job[p]
    BY <2>1
  <2>3. ASSUME alone[p] PROVE Stored(p, at)'
    <3>1. result[p] >= floor[p][at]
      BY <2>1, <2>2, <2>3 DEF Parses, Fresh
    <3>2. HasRow(at)' /\ LastRow(at)'.run = result[p]
      BY <1>6, <2>2, StoredLast
    <3> QED BY <2>1, <3>1, <3>2 DEF Stored, history
  <2> QED BY <2>1, <2>2, <2>3, AdvancePasses
<1>7. CASE DeleteDuplicates(p) \/ Ends(p) \/ Reinit(p)
  <2>1. pc'[p] \in {"reinit", "idle", "done"} /\ (pc'[p] = "done" => pc[p] = "reinit" /\ Reinit(p))
    BY <1>0, <1>7 DEF DeleteDuplicates, Ends, Reinit
  <2>2. Reinit(p) => cmd[p] # "parse" /\ cmd' = cmd
    BY DEF Reinit, Solo, AloneMeans
  <2> QED BY <2>1, <2>2 DEF Passed
<1>8. CASE UNCHANGED vars \/ \E j \in Jobs : JobRuns(j)
  BY <1>0, <1>8, StillPasses DEF vars, JobRuns, history
<1> QED BY <1>1, <1>2, <1>3, <1>4, <1>5, <1>6, <1>7, <1>8 DEF Next

LEMMA InitParses == Init => Parses
<1> SUFFICES ASSUME Init PROVE Parses
  OBVIOUS
<1>1. /\ newest = [j \in Jobs |-> NewestOf(runs, j)] /\ floor = [p \in Procs |-> newest]
      /\ job = [p \in Procs |-> 0] /\ result = [p \in Procs |-> 0]
      /\ pc = [p \in Procs |-> "idle"]
  BY DEF Init
<1>2. ASSUME NEW j \in Jobs PROVE NewestOf(runs, j) \in Nat
  <2> DEFINE S == {row.run : row \in {r \in runs : r.job = j}} \cup {0}
  <2>1. runs \subseteq [id : 0..lastid, job : Jobs, run : 1..MaxRuns] /\ MaxRuns \in Nat
    BY ResultsAssumption DEF Init
  <2>2. S \subseteq 0..MaxRuns /\ S # {}
    <3>1. \A r \in runs : r.run \in 1..MaxRuns
      BY <2>1
    <3> QED BY <2>1, <3>1
  <2> HIDE DEF S
  <2>3. PICK m \in S : \A x \in S : x <= m
    BY <2>1, <2>2, Greatest
  <2>4. \A x \in S : x \in Nat
    BY <2>1, <2>2
  <2>5. Max(S) \in S
    BY <2>3, <2>4 DEF Max
  <2> QED BY <2>4, <2>5 DEF NewestOf, S
<1>3. Types
  BY <1>1, <1>2, ResultsAssumption DEF Types
<1> QED BY <1>1, <1>3 DEF Parses, Types, Fresh, Passed

\* A parse that nothing ran beside leaves every job's result up to date with what
\* there was when it began, whatever other commands do before and after it.
THEOREM ParsedIsCurrent == Spec => []ParseCurrent
<1>1. Parses => ParseCurrent
  BY DEF Parses, Passed, Stored, ParseCurrent
<1>2. IInv /\ IInv' /\ Solo /\ Parses /\ [Next]_vars => Parses'
  BY FreshKept, PassedKept DEF Parses
<1> QED BY <1>1, <1>2, InitParses, InitSolo, InitInv, StepKeeps, StepSolo, PTL DEF Spec
--------------------------------------------------------------------------------
\* The tables' types.

\* Every row shows a run the job has had.
RowsAreOfRuns == \A row \in runs : row.run <= newest[row.job]

\* A command at a job is at one of the jobs; a result that waits to be stored is
\* one of its runs.
InHand(p) ==
  /\ pc[p] \in {"read", "store"} => job[p] \in Jobs
  /\ pc[p] = "store" => result[p] \in 1..MaxRuns /\ result[p] <= newest[job[p]]

TInv == TypeOK /\ lastid \in Nat /\ RowsAreOfRuns /\ \A p \in Procs : InHand(p)

LEMMA InitTInv == Init => TInv
<1> SUFFICES ASSUME Init PROVE TInv
  OBVIOUS
<1>1. PICK db \in Databases : runs = db.rows /\ lastid = db.lastid
  BY DEF Init
<1>2. runs \subseteq [id : RowIds, job : Jobs, run : 1..MaxRuns] /\ lastid \in Nat /\ MaxRuns \in Nat
  BY <1>1, ResultsAssumption DEF RowIds
<1>3. metrics \subseteq [run_id : RowIds, metric : UNION {MetricsOf[n] : n \in 1..MaxRuns}]
  <2> SUFFICES ASSUME NEW m \in metrics
               PROVE  m \in [run_id : RowIds, metric : UNION {MetricsOf[n] : n \in 1..MaxRuns}]
    OBVIOUS
  <2>1. PICK row \in runs : m \in MetricRows(row.id, row.run)
    BY DEF Init
  <2>2. row.id \in RowIds /\ row.run \in 1..MaxRuns
    BY <1>2
  <2>3. PICK x \in MetricsOf[row.run] : m = [run_id |-> row.id, metric |-> x]
    BY <2>1 DEF MetricRows
  <2>4. x \in UNION {MetricsOf[n] : n \in 1..MaxRuns}
    BY <2>2
  <2> QED BY <2>2, <2>3, <2>4
<1>4. ASSUME NEW j \in Jobs
      PROVE  NewestOf(runs, j) \in 0..MaxRuns /\ \A row \in runs : row.job = j => row.run <= NewestOf(runs, j)
  <2> DEFINE S == {row.run : row \in {r \in runs : r.job = j}} \cup {0}
  <2>1. \A r \in runs : r.run \in 1..MaxRuns
    BY <1>2
  <2>2. S \subseteq 0..MaxRuns /\ S # {}
    BY <1>2, <2>1
  <2>3. \A row \in runs : row.job = j => row.run \in S
    OBVIOUS
  <2>4. NewestOf(runs, j) = Max(S)
    BY DEF NewestOf
  <2> HIDE DEF S
  <2>5. PICK m \in S : \A x \in S : x <= m
    BY <1>2, <2>2, Greatest
  <2>6. \A x \in S : x \in Nat
    BY <1>2, <2>2
  <2>7. Max(S) \in S /\ \A x \in S : x <= Max(S)
    BY <2>5, <2>6 DEF Max
  <2> QED BY <2>2, <2>3, <2>4, <2>7
<1>5. /\ newest = [j \in Jobs |-> NewestOf(runs, j)]
      /\ job = [p \in Procs |-> 0] /\ result = [p \in Procs |-> 0]
      /\ cmd = [p \in Procs |-> "none"] /\ pc = [p \in Procs |-> "idle"] /\ index = FALSE
  BY DEF Init
<1>6. newest \in [Jobs -> 0..MaxRuns]
  BY <1>4, <1>5
<1>7. RowsAreOfRuns
  <2> SUFFICES ASSUME NEW row \in runs PROVE row.run <= newest[row.job]
    BY DEF RowsAreOfRuns
  <2>1. row.job \in Jobs
    BY <1>2
  <2> QED BY <1>4, <1>5, <2>1
<1>8. job \in [Procs -> 0..LastJob] /\ result \in [Procs -> 0..MaxRuns]
  BY <1>5, ResultsAssumption
<1>9. \A p \in Procs : InHand(p)
  BY <1>5 DEF InHand
<1>10. TypeOK
  BY <1>2, <1>3, <1>5, <1>6, <1>8 DEF TypeOK
<1> QED BY <1>2, <1>7, <1>9, <1>10 DEF TInv

\* Whoever is not at work keeps what it has in hand.
LEMMA StillInHand ==
  ASSUME TInv, NEW q \in Procs, newest' \in [Jobs -> 0..MaxRuns],
         \A j \in Jobs : newest[j] <= newest'[j],
         pc'[q] = pc[q], job'[q] = job[q], result'[q] = result[q]
  PROVE  InHand(q)'
<1>1. InHand(q)
  BY DEF TInv
<1>2. CASE pc[q] # "store"
  BY <1>1, <1>2 DEF InHand, Jobs
<1>3. CASE pc[q] = "store"
  <2>1. job[q] \in Jobs /\ result[q] \in 1..MaxRuns /\ result[q] <= newest[job[q]]
    BY <1>1, <1>3 DEF InHand
  <2>2. /\ newest[job[q]] \in 0..MaxRuns /\ newest'[job[q]] \in 0..MaxRuns
        /\ newest[job[q]] <= newest'[job[q]] /\ MaxRuns \in Nat
    BY <2>1, ResultsAssumption DEF TInv, TypeOK
  <2>3. result[q] <= newest'[job[q]]
    BY <2>1, <2>2
  <2> QED BY <2>1, <2>3 DEF InHand, Jobs
<1> QED BY <1>2, <1>3

\* The job and the result in hand, when a parse goes on.
LEMMA AdvanceTypes ==
  ASSUME TInv, NEW p \in Procs, Advance(p), pc[p] \in {"read", "store"}, newest' = newest
  PROVE  /\ job' \in [Procs -> 0..LastJob] /\ result' \in [Procs -> 0..MaxRuns]
         /\ pc' \in [Procs -> {"idle", "open", "read", "store", "delete", "reinit", "done"}]
         /\ \A q \in Procs : InHand(q)'
<1>1. job[p] \in 1..LastJob /\ LastJob \in Nat /\ MaxRuns \in Nat
  BY ResultsAssumption DEF TInv, InHand, Jobs
<1> DEFINE k == IF job[p] = LastJob THEN 0 ELSE job[p] + 1
           c == IF job[p] = LastJob THEN "done" ELSE "read"
<1>2. k \in 0..LastJob /\ (c = "read" => k \in Jobs) /\ c \in {"done", "read"}
  BY <1>1 DEF Jobs
<1>3. /\ job' = [job EXCEPT ![p] = k] /\ pc' = [pc EXCEPT ![p] = c]
      /\ result' = [result EXCEPT ![p] = 0]
  BY DEF Advance
<1> HIDE DEF k, c
<1>4. /\ job \in [Procs -> 0..LastJob] /\ result \in [Procs -> 0..MaxRuns]
      /\ pc \in [Procs -> {"idle", "open", "read", "store", "delete", "reinit", "done"}]
  BY DEF TInv, TypeOK
<1>5. job' \in [Procs -> 0..LastJob]
  BY <1>2, <1>3, <1>4
<1>6. result' \in [Procs -> 0..MaxRuns]
  BY <1>1, <1>3, <1>4
<1>7. pc' \in [Procs -> {"idle", "open", "read", "store", "delete", "reinit", "done"}]
  BY <1>2, <1>3, <1>4
<1>8. ASSUME NEW q \in Procs PROVE InHand(q)'
  <2>1. CASE q = p
    <3>1. pc'[q] = c /\ job'[q] = k
      BY <1>3, <1>4, <2>1
    <3> QED BY <1>2, <3>1 DEF InHand, Jobs
  <2>2. CASE q # p
    <3>1. pc'[q] = pc[q] /\ job'[q] = job[q] /\ result'[q] = result[q]
      BY <1>3, <1>4, <2>2
    <3>2. newest \in [Jobs -> 0..MaxRuns] /\ \A j \in Jobs : newest[j] <= newest[j]
      BY <1>1 DEF TInv, TypeOK
    <3> QED BY <3>1, <3>2, StillInHand
  <2> QED BY <2>1, <2>2
<1> QED BY <1>5, <1>6, <1>7, <1>8

\* The tables after a result has been stored.
LEMMA StoreTypes ==
  ASSUME TInv, NEW p \in Procs, Store(p)
  PROVE  TInv'
<1> DEFINE id  == lastid + 1
           new == [id |-> id, job |-> job[p], run |-> result[p]]
<1>1. /\ lastid' = id /\ runs' = Kept(job[p]) \cup {new}
      /\ metrics' = Cascade(Kept(job[p])) \cup MetricRows(id, result[p])
      /\ Advance(p) /\ UNCHANGED <<index, newest, cmd>> /\ pc[p] = "store"
  BY DEF Store
<1>2. lastid \in Nat /\ id \in Nat /\ RowIds \subseteq RowIds' /\ id \in RowIds'
  BY <1>1 DEF TInv, RowIds
<1>3. job[p] \in Jobs /\ result[p] \in 1..MaxRuns /\ result[p] <= newest[job[p]]
  BY <1>1 DEF TInv, InHand
<1>4. /\ runs \subseteq [id : RowIds, job : Jobs, run : 1..MaxRuns]
      /\ metrics \subseteq [run_id : RowIds, metric : UNION {MetricsOf[n] : n \in 1..MaxRuns}]
  BY DEF TInv, TypeOK
<1>5. Kept(job[p]) \subseteq runs /\ Cascade(Kept(job[p])) \subseteq metrics
  BY DEF Kept, Cascade
<1>6. new.job = job[p] /\ new.run = result[p] /\ new \in [id : RowIds', job : Jobs, run : 1..MaxRuns]
  BY <1>2, <1>3
<1> HIDE DEF new, id
<1>7. runs' \subseteq [id : RowIds', job : Jobs, run : 1..MaxRuns]
  <2>1. \A row \in runs : row \in [id : RowIds', job : Jobs, run : 1..MaxRuns]
    BY <1>2, <1>4
  <2> QED BY <1>1, <1>5, <1>6, <2>1
<1>8. metrics' \subseteq [run_id : RowIds', metric : UNION {MetricsOf[n] : n \in 1..MaxRuns}]
  <2>1. ASSUME NEW m \in metrics
        PROVE  m \in [run_id : RowIds', metric : UNION {MetricsOf[n] : n \in 1..MaxRuns}]
    BY <1>2, <1>4
  <2>2. ASSUME NEW m \in MetricRows(id, result[p])
        PROVE  m \in [run_id : RowIds', metric : UNION {MetricsOf[n] : n \in 1..MaxRuns}]
    <3>1. PICK x \in MetricsOf[result[p]] : m = [run_id |-> id, metric |-> x]
      BY DEF MetricRows
    <3>2. x \in UNION {MetricsOf[n] : n \in 1..MaxRuns}
      BY <1>3
    <3> QED BY <1>2, <3>1, <3>2
  <2> QED BY <1>1, <1>5, <2>1, <2>2
<1>9. RowsAreOfRuns'
  <2>1. \A row \in runs : row.run <= newest[row.job]
    BY DEF TInv, RowsAreOfRuns
  <2> QED BY <1>1, <1>3, <1>5, <1>6, <2>1 DEF RowsAreOfRuns
<1>10. TypeOK'
  <2>1. index \in BOOLEAN /\ newest \in [Jobs -> 0..MaxRuns] /\ cmd \in [Procs -> {"none", "parse", "dedup"}]
    BY DEF TInv, TypeOK
  <2>2. /\ job' \in [Procs -> 0..LastJob] /\ result' \in [Procs -> 0..MaxRuns]
        /\ pc' \in [Procs -> {"idle", "open", "read", "store", "delete", "reinit", "done"}]
    BY <1>1, AdvanceTypes
  <2> QED BY <1>1, <1>7, <1>8, <2>1, <2>2 DEF TypeOK, Jobs
<1>11. \A q \in Procs : InHand(q)'
  BY <1>1, AdvanceTypes
<1>12. lastid' \in Nat
  BY <1>1, <1>2
<1> QED BY <1>9, <1>10, <1>11, <1>12 DEF TInv

\* The steps that add no row.
LEMMA TypesKept ==
  ASSUME TInv, lastid' = lastid, runs' \subseteq runs, metrics' \subseteq metrics,
         index' \in BOOLEAN, newest' \in [Jobs -> 0..MaxRuns],
         \A j \in Jobs : newest[j] <= newest'[j],
         cmd' \in [Procs -> {"none", "parse", "dedup"}],
         pc' \in [Procs -> {"idle", "open", "read", "store", "delete", "reinit", "done"}],
         job' \in [Procs -> 0..LastJob], result' \in [Procs -> 0..MaxRuns],
         \A p \in Procs : InHand(p)'
  PROVE  TInv'
<1>1. lastid' \in Nat /\ RowIds' = RowIds
  BY DEF TInv, RowIds
<1>2. TypeOK'
  BY <1>1 DEF TInv, TypeOK, Jobs
<1>3. RowsAreOfRuns'
  <2> SUFFICES ASSUME NEW row \in runs' PROVE row.run <= newest'[row.job]
    BY DEF RowsAreOfRuns
  <2>1. row \in runs /\ row.job \in Jobs /\ row.run \in 1..MaxRuns
    BY DEF TInv, TypeOK
  <2>2. row.run <= newest[row.job] /\ newest[row.job] \in 0..MaxRuns
    BY <2>1 DEF TInv, TypeOK, RowsAreOfRuns
  <2>3. newest'[row.job] \in 0..MaxRuns /\ newest[row.job] <= newest'[row.job]
    BY <2>1
  <2> QED BY <2>1, <2>2, <2>3
<1> QED BY <1>1, <1>2, <1>3 DEF TInv

LEMMA StepTypes == TInv /\ [Next]_vars => TInv'
<1> SUFFICES ASSUME TInv, [Next]_vars PROVE TInv'
  OBVIOUS
<1>0. /\ index \in BOOLEAN /\ newest \in [Jobs -> 0..MaxRuns]
      /\ cmd \in [Procs -> {"none", "parse", "dedup"}]
      /\ pc \in [Procs -> {"idle", "open", "read", "store", "delete", "reinit", "done"}]
      /\ job \in [Procs -> 0..LastJob] /\ result \in [Procs -> 0..MaxRuns]
      /\ LastJob \in Nat /\ LastJob # 0 /\ MaxRuns \in Nat
  BY ResultsAssumption DEF TInv, TypeOK
<1>held. /\ \A q \in Procs : InHand(q)
         /\ \A j \in Jobs : newest[j] <= newest[j]
  BY <1>0 DEF TInv
<1>other. ASSUME NEW p \in Procs, newest' = newest, InHand(p)',
                 \A q \in Procs \ {p} : pc'[q] = pc[q] /\ job'[q] = job[q] /\ result'[q] = result[q]
          PROVE  \A q \in Procs : InHand(q)'
  <2> SUFFICES ASSUME NEW q \in Procs \ {p} PROVE InHand(q)'
    BY <1>other
  <2> QED BY <1>0, <1>held, <1>other, StillInHand
<1>1. CASE UNCHANGED vars
  <2>1. \A q \in Procs : InHand(q)'
    BY <1>0, <1>1, <1>held, StillInHand DEF vars
  <2> QED BY <1>0, <1>held, <1>1, <2>1, TypesKept DEF vars, tables
<1>2. ASSUME NEW p \in Procs, NEW c \in {"parse", "dedup"}, Begin(p, c) PROVE TInv'
  <2>1. /\ cmd' = [cmd EXCEPT ![p] = c] /\ pc' = [pc EXCEPT ![p] = "open"]
        /\ UNCHANGED <<tables, index, newest, job, result>>
    BY <1>2 DEF Begin
  <2>2. pc'[p] = "open" /\ \A q \in Procs \ {p} : pc'[q] = pc[q]
    BY <1>0, <2>1
  <2>3. \A q \in Procs : InHand(q)'
    BY <1>other, <2>1, <2>2 DEF InHand
  <2> QED BY <1>0, <1>held, <2>1, <2>3, TypesKept DEF tables
<1>3. ASSUME NEW p \in Procs, OpenDB(p) PROVE TInv'
  <2> DEFINE parse == cmd[p] = "parse"
  <2>1. /\ pc' = [pc EXCEPT ![p] = IF parse THEN "read" ELSE "delete"]
        /\ job' = [job EXCEPT ![p] = IF parse THEN 1 ELSE 0]
        /\ UNCHANGED <<tables, newest, cmd, result>>
    BY <1>3 DEF OpenDB
  <2>2. index' \in BOOLEAN
    BY <1>0, <1>3 DEF OpenDB, TryIndex, IndexIfUnique
  <2> HIDE DEF parse
  <2>3. 1 \in Jobs /\ 1 \in 0..LastJob /\ 0 \in 0..LastJob
    BY <1>0 DEF Jobs
  <2>4. job' \in [Procs -> 0..LastJob]
    BY <1>0, <2>1, <2>3
  <2>5. pc' \in [Procs -> {"idle", "open", "read", "store", "delete", "reinit", "done"}]
    BY <1>0, <2>1
  <2>6. /\ pc'[p] # "store" /\ (pc'[p] = "read" => job'[p] = 1)
        /\ \A q \in Procs \ {p} : pc'[q] = pc[q] /\ job'[q] = job[q]
    BY <1>0, <2>1
  <2>7. InHand(p)'
    BY <2>3, <2>6 DEF InHand, Jobs
  <2>8. \A q \in Procs : InHand(q)'
    BY <1>other, <2>1, <2>6, <2>7
  <2> QED BY <1>0, <1>held, <2>1, <2>2, <2>4, <2>5, <2>8, TypesKept DEF tables
<1>4. ASSUME NEW p \in Procs, ReadOutput(p) PROVE TInv'
  <2>1. pc[p] = "read" /\ job[p] \in Jobs /\ UNCHANGED <<tables, index, newest, cmd>>
    BY <1>held, <1>4 DEF ReadOutput, InHand
  <2>2. CASE newest[job[p]] = 0
    <3>1. Advance(p)
      BY <1>4, <2>2 DEF ReadOutput
    <3>2. /\ job' \in [Procs -> 0..LastJob] /\ result' \in [Procs -> 0..MaxRuns]
          /\ pc' \in [Procs -> {"idle", "open", "read", "store", "delete", "reinit", "done"}]
          /\ \A q \in Procs : InHand(q)'
      BY <2>1, <3>1, AdvanceTypes
    <3> QED BY <1>0, <1>held, <2>1, <3>2, TypesKept DEF tables
  <2>3. CASE newest[job[p]] # 0
    <3>1. /\ result' = [result EXCEPT ![p] = newest[job[p]]]
          /\ pc' = [pc EXCEPT ![p] = "store"] /\ job' = job
      BY <1>4, <2>3 DEF ReadOutput, OutputOf
    <3>2. newest[job[p]] \in 1..MaxRuns
      BY <1>0, <2>1, <2>3
    <3>3. result' \in [Procs -> 0..MaxRuns]
      BY <1>0, <3>1, <3>2
    <3>4. pc' \in [Procs -> {"idle", "open", "read", "store", "delete", "reinit", "done"}]
      BY <1>0, <3>1
    <3>5. /\ pc'[p] = "store" /\ job'[p] = job[p] /\ result'[p] = newest[job[p]]
          /\ \A q \in Procs \ {p} : pc'[q] = pc[q] /\ job'[q] = job[q] /\ result'[q] = result[q]
      BY <1>0, <3>1
    <3>6. InHand(p)'
      <4>1. newest'[job'[p]] = newest[job[p]] /\ newest[job[p]] <= newest[job[p]]
        BY <1>0, <2>1, <3>2, <3>5
      <4> QED BY <2>1, <3>2, <3>5, <4>1 DEF InHand, Jobs
    <3>7. \A q \in Procs : InHand(q)'
      BY <1>other, <2>1, <3>5, <3>6
    <3> QED BY <1>0, <1>held, <2>1, <3>1, <3>3, <3>4, <3>7, TypesKept DEF tables
  <2> QED BY <2>2, <2>3
<1>5. ASSUME NEW p \in Procs, Store(p) PROVE TInv'
  BY <1>5, StoreTypes
<1>6. ASSUME NEW p \in Procs, DeleteDuplicates(p) PROVE TInv'
  <2>1. /\ lastid' = lastid /\ runs' \subseteq runs /\ metrics' \subseteq metrics
        /\ pc' = [pc EXCEPT ![p] = "reinit"] /\ UNCHANGED <<index, newest, cmd, job, result>>
    BY <1>6 DEF DeleteDuplicates, Cascade
  <2>2. pc'[p] = "reinit" /\ \A q \in Procs \ {p} : pc'[q] = pc[q]
    BY <1>0, <2>1
  <2>3. \A q \in Procs : InHand(q)'
    BY <1>other, <2>1, <2>2 DEF InHand
  <2>4. pc' \in [Procs -> {"idle", "open", "read", "store", "delete", "reinit", "done"}]
    BY <1>0, <2>1
  <2> QED BY <1>0, <1>held, <2>1, <2>3, <2>4, TypesKept
<1>7. ASSUME NEW p \in Procs, Reinit(p) PROVE TInv'
  <2>1. pc' = [pc EXCEPT ![p] = "done"] /\ UNCHANGED <<tables, newest, cmd, job, result>>
    BY <1>7 DEF Reinit
  <2>2. index' \in BOOLEAN
    BY <1>0, <1>7 DEF Reinit, TryIndex, IndexIfUnique
  <2>3. pc'[p] = "done" /\ \A q \in Procs \ {p} : pc'[q] = pc[q]
    BY <1>0, <2>1
  <2>4. \A q \in Procs : InHand(q)'
    BY <1>other, <2>1, <2>3 DEF InHand
  <2>5. pc' \in [Procs -> {"idle", "open", "read", "store", "delete", "reinit", "done"}]
    BY <1>0, <2>1
  <2> QED BY <1>0, <1>held, <2>1, <2>2, <2>4, <2>5, TypesKept DEF tables
<1>8. ASSUME NEW p \in Procs, Ends(p) PROVE TInv'
  <2>1. /\ pc' = [pc EXCEPT ![p] = "idle"] /\ job' = [job EXCEPT ![p] = 0]
        /\ result' = [result EXCEPT ![p] = 0] /\ UNCHANGED <<tables, index, newest, cmd>>
    BY <1>8 DEF Ends
  <2>2. job' \in [Procs -> 0..LastJob] /\ result' \in [Procs -> 0..MaxRuns]
    BY <1>0, <2>1
  <2>3. /\ pc'[p] = "idle"
        /\ \A q \in Procs \ {p} : pc'[q] = pc[q] /\ job'[q] = job[q] /\ result'[q] = result[q]
    BY <1>0, <2>1
  <2>4. \A q \in Procs : InHand(q)'
    BY <1>other, <2>1, <2>3 DEF InHand
  <2>5. pc' \in [Procs -> {"idle", "open", "read", "store", "delete", "reinit", "done"}]
    BY <1>0, <2>1
  <2> QED BY <1>0, <1>held, <2>1, <2>2, <2>4, <2>5, TypesKept DEF tables
<1>9. ASSUME NEW j \in Jobs, JobRuns(j) PROVE TInv'
  <2>1. /\ newest[j] < MaxRuns /\ newest' = [newest EXCEPT ![j] = newest[j] + 1]
        /\ UNCHANGED <<tables, index, cmd, pc, job, result>>
    BY <1>9 DEF JobRuns
  <2>2. newest' \in [Jobs -> 0..MaxRuns] /\ \A i \in Jobs : newest[i] <= newest'[i]
    BY <1>0, <2>1
  <2>3. \A q \in Procs : InHand(q)'
    BY <2>1, <2>2, StillInHand
  <2> QED BY <1>0, <2>1, <2>2, <2>3, TypesKept DEF tables
<1> QED BY <1>1, <1>2, <1>3, <1>4, <1>5, <1>6, <1>7, <1>8, <1>9 DEF Next

\* The tables and what the commands have in hand stay in their types; in
\* particular a row's id was given out, and its metrics are some output's.
THEOREM Typing == Spec => []TypeOK
<1>1. TInv => TypeOK
  BY DEF TInv
<1> QED BY <1>1, InitTInv, StepTypes, PTL DEF Spec

\* Every row shows a run its job has had, however late it is stored: no command
\* writes a result of a run that never was.
THEOREM StoredRunsWere == Spec => []RowsAreOfRuns
<1>1. TInv => RowsAreOfRuns
  BY DEF TInv
<1> QED BY <1>1, InitTInv, StepTypes, PTL DEF Spec
================================================================================
