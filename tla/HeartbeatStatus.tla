---------------------------- MODULE HeartbeatStatus ----------------------------
(***************************************************************************)
(* How `cbench watch` reads one heartbeat file (python/cbench/watch.py).   *)
(* The file is abstracted to what a reader can tell from it: it is absent, *)
(* empty (truncated and not yet rewritten), or holds one of the lines the  *)
(* job script writes.  Pure operators, used by the job script's            *)
(* properties and by the watcher.                                          *)
(***************************************************************************)
EXTENDS Naturals

CONSTANTS
  Interval,     \* seconds between two beats, as recorded in the line; 0 = heartbeat off
  StaleFactor   \* intervals without a beat after which a job is called stale

ASSUME StatusAssumption ==
  /\ Interval \in Nat
  /\ StaleFactor \in Nat

Exited  == {"exit0", "exitN"}          \* "exited rc=0" and "exited rc=N"
Alive   == {"started", "running"}
Files   == {"absent", "empty"} \cup Alive \cup Exited

Statuses == {"running", "stale", "finished", "failed", "not started", "no heartbeat"}

\* The stale window in seconds: int(stale_factor * interval).
Window == StaleFactor * Interval

\* Variant: stale as soon as the window is reached, not when it has passed.
StatusAtWindow(file, output, age) ==
  CASE file = "absent" -> IF output THEN "no heartbeat" ELSE "not started"
    [] file = "empty"  -> "no heartbeat"
    [] file = "exit0"  -> "finished"
    [] file = "exitN"  -> "failed"
    [] OTHER           -> IF age >= Window THEN "stale" ELSE "running"

\* Variant: a file without a readable line counts as a failure.
StatusEmptyFails(file, output, age) ==
  IF file = "empty" THEN "failed" ELSE StatusAtWindow(file, output, age)

\* Variant: an exit line counts as success, whatever its rc.
StatusIgnoresRc(file, output, age) ==
  IF file = "exitN" THEN "finished" ELSE StatusAtWindow(file, output, age)

\* job_status: the verdict on one job directory from its heartbeat file, from
\* whether there is job output beside it, and from the file's age.
StatusOf(file, output, age) ==
  CASE file = "absent" -> IF output THEN "no heartbeat" ELSE "not started"
    [] file = "empty"  -> "no heartbeat"
    [] file = "exit0"  -> "finished"
    [] file = "exitN"  -> "failed"
    [] OTHER           -> IF age > Window THEN "stale" ELSE "running"

\* Variant: stale jobs are waited for as well.
ActiveOrStale == {"running", "not started", "stale"}

\* The states --follow waits on.
ACTIVE == {"running", "not started"}

\* all_done and succeeded, over the statuses of the jobs J.
AllDone(J, status) == J # {} /\ \A j \in J : status[j] \notin ACTIVE
Succeeded(J, status) == \A j \in J : status[j] \notin {"failed", "stale"}
================================================================================
