------------------------------- MODULE ResultsDB -------------------------------
(***************************************************************************)
(* The results database (python/cbench/db.py) and what writes it: `cbench  *)
(* parse` (python/cbench/cli/main.py) stores one row per job with the      *)
(* metrics of its newest output, `deduplicate` removes the duplicates that *)
(* databases from before the unique index have.  Several processes work on *)
(* one file; SQLite makes each transaction atomic, and a process can end   *)
(* at any moment between two of them (killed, or the file stays locked).   *)
(***************************************************************************)
EXTENDS Integers, FiniteSets, FiniteSetsExt

CONSTANTS
  Procs,       \* processes that use the database
  LastJob,     \* jobs 1..LastJob, in the order of the directory listing
  MetricsOf,   \* run of a job (1, 2, ...) -> the metrics its output shows
  Databases,   \* those to begin with, from before the index: rows and lastid
  MaxRuns,     \* bound: runs of a job
  MaxCommands  \* bound: commands

Jobs == 1..LastJob

ASSUME ResultsAssumption ==
  /\ LastJob \in Nat \ {0} /\ MaxRuns \in Nat \ {0} /\ MaxCommands \in Nat
  /\ DOMAIN MetricsOf = 1..MaxRuns
  /\ \A db \in Databases :
       /\ db.lastid \in Nat
       /\ db.rows \subseteq [id : 0..db.lastid, job : Jobs, run : 1..MaxRuns]
       /\ \A a, b \in db.rows : a.id = b.id => a = b

VARIABLES
  runs,      \* the table runs: rows [id, job, run]
  metrics,   \* the table metrics: rows [run_id, metric]
  index,     \* whether the unique index exists
  lastid,    \* AUTOINCREMENT: no id is used twice
  newest,    \* job -> its newest run with output; 0: none
  cmd,       \* process -> its command: none, parse, dedup
  pc,        \* process -> where in the command
  job,       \* process -> the job it is at; 0: none
  result,    \* process -> the run it has read; 0: none
  commands,  \* commands begun
  floor,     \* history: process -> newest when its command began
  alone      \* history: process -> no other command ran beside its command

vars == <<runs, metrics, index, lastid, newest, cmd, pc, job, result, commands, floor, alone>>
tables == <<runs, metrics, lastid>>
history == <<floor, alone>>

Same(row, r) == row.job = r.job
Duplicates(table) == \E a, b \in table : a # b /\ Same(a, b)
NewestOf(table, j) == Max({row.run : row \in {r \in table : r.job = j}} \cup {0})

\* Variant: the connection does not ask for foreign_keys=ON.
NoCascade(table) == metrics

\* ON DELETE CASCADE: the metrics of a row go with it.
Cascade(table) == {m \in metrics : \E row \in table : row.id = m.run_id}

MetricRows(id, run) == {[run_id |-> id, metric |-> x] : x \in MetricsOf[run]}

Init ==
  /\ \E db \in Databases : runs = db.rows /\ lastid = db.lastid
  /\ metrics = UNION {MetricRows(row.id, row.run) : row \in runs}
  /\ index = FALSE
  /\ newest = [j \in Jobs |-> NewestOf(runs, j)]
  /\ cmd = [p \in Procs |-> "none"]
  /\ pc = [p \in Procs |-> "idle"]
  /\ job = [p \in Procs |-> 0]
  /\ result = [p \in Procs |-> 0]
  /\ commands = 0
  /\ floor = [p \in Procs |-> newest]
  /\ alone = [p \in Procs |-> TRUE]

Active(p) == pc[p] \notin {"idle", "done"}

\* A process begins a command; it opens the database first.
Begin(p, c) ==
  /\ ~Active(p) /\ commands < MaxCommands
  /\ cmd' = [cmd EXCEPT ![p] = c]
  /\ pc' = [pc EXCEPT ![p] = "open"]
  /\ commands' = commands + 1
  /\ floor' = [floor EXCEPT ![p] = newest]
  /\ alone' = [q \in Procs |-> IF q = p THEN \A o \in Procs : ~Active(o)
                               ELSE alone[q] /\ ~Active(q)]
  /\ UNCHANGED <<tables, index, newest, job, result>>

\* Variant: only a new table gets the index.
IndexIfNew == index \/ runs = {}

\* _init: the unique index, unless the table holds duplicates.
IndexIfUnique == index \/ ~Duplicates(runs)

\* The index is tried for, and not made when the database is locked either.
TryIndex(p) ==
  \/ index' = IndexIfUnique
  \/ (\E q \in Procs \ {p} : Active(q)) /\ UNCHANGED index

OpenDB(p) ==
  /\ pc[p] = "open"
  /\ TryIndex(p)
  /\ pc' = [pc EXCEPT ![p] = IF cmd[p] = "parse" THEN "read" ELSE "delete"]
  /\ job' = [job EXCEPT ![p] = IF cmd[p] = "parse" THEN 1 ELSE 0]
  /\ UNCHANGED <<tables, newest, cmd, result, commands, history>>

\* The next job directory, or the end of the command.
Advance(p) ==
  /\ job' = [job EXCEPT ![p] = IF @ = LastJob THEN 0 ELSE @ + 1]
  /\ pc' = [pc EXCEPT ![p] = IF job[p] = LastJob THEN "done" ELSE "read"]
  /\ result' = [result EXCEPT ![p] = 0]

\* Variant: the first output the directory listing has.
FirstOutput(j) == 1

\* _job_output_files: the output of the newest run.
OutputOf(j) == newest[j]

\* parse_cmd at one job directory: its newest output is read and parsed; one
\* without output is passed over.
ReadOutput(p) ==
  /\ pc[p] = "read"
  /\ IF newest[job[p]] = 0
     THEN Advance(p)
     ELSE /\ result' = [result EXCEPT ![p] = OutputOf(job[p])]
          /\ pc' = [pc EXCEPT ![p] = "store"]
          /\ UNCHANGED job
  /\ UNCHANGED <<tables, index, newest, cmd, commands, history>>

\* INSERT OR REPLACE: with the index a row of the same job goes.
Kept(j) == IF index THEN {row \in runs : row.job # j} ELSE runs

\* store: the row and its metrics in one transaction.
Store(p) ==
  /\ pc[p] = "store"
  /\ LET id == lastid + 1
         kept == Kept(job[p])
     IN  /\ lastid' = id
         /\ runs' = kept \cup {[id |-> id, job |-> job[p], run |-> result[p]]}
         /\ metrics' = Cascade(kept) \cup MetricRows(id, result[p])
  /\ Advance(p)
  /\ UNCHANGED <<index, newest, cmd, commands, history>>

\* Variant: the oldest row of each job stays.
KeepsOldest(row) == \A r \in runs : Same(r, row) => r.id >= row.id

Keeps(row) == \A r \in runs : Same(r, row) => r.id <= row.id

\* deduplicate: the row with the greatest id of each job stays; the index is
\* made in a transaction of its own afterwards.
DeleteDuplicates(p) ==
  /\ pc[p] = "delete"
  /\ LET kept == {row \in runs : Keeps(row)}
     IN  runs' = kept /\ metrics' = Cascade(kept)
  /\ pc' = [pc EXCEPT ![p] = "reinit"]
  /\ UNCHANGED <<index, lastid, newest, cmd, job, result, commands, history>>

Reinit(p) ==
  /\ pc[p] = "reinit"
  /\ TryIndex(p)
  /\ pc' = [pc EXCEPT ![p] = "done"]
  /\ UNCHANGED <<tables, newest, cmd, job, result, commands, history>>

\* A process ends before its command has: killed, or the database was locked.
Ends(p) ==
  /\ Active(p)
  /\ pc' = [pc EXCEPT ![p] = "idle"]
  /\ job' = [job EXCEPT ![p] = 0]
  /\ result' = [result EXCEPT ![p] = 0]
  /\ UNCHANGED <<tables, index, newest, cmd, commands, history>>

\* A job runs and leaves a new output.
JobRuns(j) ==
  /\ newest[j] < MaxRuns
  /\ newest' = [newest EXCEPT ![j] = @ + 1]
  /\ UNCHANGED <<tables, index, cmd, pc, job, result, commands, history>>

Next ==
  \/ \E p \in Procs :
       \/ \E c \in {"parse", "dedup"} : Begin(p, c)
       \/ OpenDB(p) \/ ReadOutput(p) \/ Store(p)
       \/ DeleteDuplicates(p) \/ Reinit(p) \/ Ends(p)
  \/ \E j \in Jobs : JobRuns(j)

Spec == Init /\ [][Next]_vars

--------------------------------------------------------------------------------

RowIds == 0..lastid

TypeOK ==
  /\ runs \subseteq [id : RowIds, job : Jobs, run : 1..MaxRuns]
  /\ metrics \subseteq [run_id : RowIds, metric : UNION {MetricsOf[n] : n \in 1..MaxRuns}]
  /\ index \in BOOLEAN
  /\ newest \in [Jobs -> 0..MaxRuns]
  /\ cmd \in [Procs -> {"none", "parse", "dedup"}]
  /\ pc \in [Procs -> {"idle", "open", "read", "store", "delete", "reinit", "done"}]
  /\ job \in [Procs -> 0..LastJob]
  /\ result \in [Procs -> 0..MaxRuns]

\* A row has the metrics of the output it was parsed from, no more and no fewer,
\* and no metric is left without its row: neither storing a result again nor
\* removing duplicates mixes the metrics of two runs.
MetricsMatch ==
  /\ \A row \in runs : {m.metric : m \in {x \in metrics : x.run_id = row.id}} = MetricsOf[row.run]
  /\ \A m \in metrics : \E row \in runs : row.id = m.run_id

LastRow(j) == CHOOSE row \in runs : row.job = j /\ \A r \in runs : Same(r, row) => r.id <= row.id
HasRow(j) == \E row \in runs : row.job = j

\* A parse that no other command ran beside leaves for each job a result that is
\* not older than the output the job had when the parse began.
ParseCurrent ==
  \A p \in Procs : pc[p] = "done" /\ cmd[p] = "parse" /\ alone[p] =>
    \A j \in Jobs : floor[p][j] > 0 => HasRow(j) /\ LastRow(j).run >= floor[p][j]

\* With the index, a job has one row.
IndexMeansUnique == index => ~Duplicates(runs)

\* Once the duplicates are removed, with nobody else at work, they stay away: the
\* database has its index, and a job one row, whatever runs afterwards.
DedupLasts ==
  /\ \A p \in Procs : pc[p] = "done" /\ cmd[p] = "dedup" /\ alone[p] => index
  /\ IndexMeansUnique

\* The result stored last for a job is never removed without a newer one.
LastRowStays ==
  [][\A j \in Jobs : HasRow(j) => HasRow(j)' /\ LastRow(j)'.id >= LastRow(j).id]_vars
================================================================================
