--------------------------------- MODULE Watch ---------------------------------
(***************************************************************************)
(* `cbench watch --follow` beside the jobs of one identifier               *)
(* (python/cbench/watch.py, watch_cmd of python/cbench/cli/main.py).       *)
(*                                                                         *)
(* The jobs go through the steps of JobLife while the watcher looks at one *)
(* job directory after the other: it reads a heartbeat file, and only then *)
(* when it changed, so a snapshot mixes moments.  A finished job's script  *)
(* may be run again (start-jobs does so), over the files the earlier run   *)
(* left in the job directory.                                              *)
(***************************************************************************)
EXTENDS HeartbeatStatus

CONSTANTS
  Jobs,     \* the job directories of the identifier
  MaxRuns   \* bound: per job, how often its script may be started

ASSUME WatchAssumption == MaxRuns \in [Jobs -> Nat \ {0}]

L == INSTANCE JobLife WITH job <- 0    \* only its operators on records are used

Unseen == "unseen"

VARIABLES
  jobs,     \* per job, its life
  runs,     \* per job, the runs begun so far
  text,     \* the job being looked at, its file as read and whether the file had
            \* been quiet for longer than the window by then; or <<>>
  seen,     \* per job, its status in the snapshot being taken
  watch     \* the watcher: scanning, sleeping, exit0, exit1

followVars == <<jobs, runs, text, seen, watch>>
watchVars == <<text, seen, watch>>

Done == {"exit0", "exit1"}

WatchTypeOK ==
  /\ jobs \in [Jobs -> L!States]
  /\ runs \in [Jobs -> Nat] /\ \A j \in Jobs : runs[j] \in 1..MaxRuns[j]
  /\ text \in {<<>>} \cup (Jobs \X Files \X BOOLEAN)
  /\ seen \in [Jobs -> Statuses \cup {Unseen}]
  /\ watch \in {"scanning", "sleeping"} \cup Done

\* Jobs are generated before anyone watches them; some may already run.
WatchInit ==
  /\ jobs = [j \in Jobs |-> L!Fresh]
  /\ runs = [j \in Jobs |-> 1]
  /\ text = <<>>
  /\ seen = [j \in Jobs |-> Unseen]
  /\ watch = "scanning"

JobStep(j) ==
  /\ \E s \in L!Succ(jobs[j]) : jobs' = [jobs EXCEPT ![j] = s]
  /\ UNCHANGED <<runs, watchVars>>

\* start-jobs again: the script is queued, its old files are still there.
Rerun(j) ==
  /\ jobs[j].phase = "gone" /\ ~jobs[j].beats /\ runs[j] < MaxRuns[j]
  /\ jobs' = [jobs EXCEPT ![j].phase = "waiting", ![j].rc = 0]
  /\ runs' = [runs EXCEPT ![j] = @ + 1]
  /\ UNCHANGED watchVars

--------------------------------------------------------------------------------

\* job_status, first half: take the time, find and read the heartbeat file.
\* Without one, the verdict follows from the job output alone.
Look(j) ==
  /\ watch = "scanning" /\ text = <<>> /\ seen[j] = Unseen
  /\ IF jobs[j].file = "absent"
     THEN /\ seen' = [seen EXCEPT ![j] = StatusOf("absent", jobs[j].output, 0)]
          /\ UNCHANGED text
     ELSE text' = <<j, jobs[j].file, jobs[j].quiet>> /\ UNCHANGED seen
  /\ UNCHANGED <<jobs, runs, watch>>

\* Variant: what the line says is taken for the verdict.
JudgeByText ==
  /\ watch = "scanning" /\ text # <<>>
  /\ seen' = [seen EXCEPT ![text[1]] = text[2]]
  /\ text' = <<>>
  /\ UNCHANGED <<jobs, runs, watch>>

\* job_status, second half: the file's age at the time taken (a file rewritten
\* since then is younger than that), and the verdict.
Judge ==
  /\ watch = "scanning" /\ text # <<>>
  /\ LET j == text[1] IN
     seen' = [seen EXCEPT ![j] =
                StatusOf(text[2], TRUE, IF text[3] /\ jobs[j].quiet THEN Window + 1 ELSE 0)]
  /\ text' = <<>>
  /\ UNCHANGED <<jobs, runs, watch>>

\* The snapshot is complete: exit, or sleep before the next one.
Decide ==
  /\ watch = "scanning" /\ text = <<>> /\ \A j \in Jobs : seen[j] # Unseen
  /\ watch' = IF ~AllDone(Jobs, seen) THEN "sleeping"
              ELSE IF Succeeded(Jobs, seen) THEN "exit0" ELSE "exit1"
  /\ UNCHANGED <<jobs, runs, text, seen>>

Redraw ==
  /\ watch = "sleeping" /\ watch' = "scanning"
  /\ seen' = [j \in Jobs |-> Unseen]
  /\ UNCHANGED <<jobs, runs, text>>

Watcher == (\E j \in Jobs : Look(j)) \/ Judge \/ Decide \/ Redraw

WatchNext == (\E j \in Jobs : JobStep(j) \/ Rerun(j)) \/ Watcher

WatchSpec == WatchInit /\ [][WatchNext]_followVars

\* The watcher keeps running.  A job whose benchmark is over and whose loop is
\* gone either has a final line or grows quiet: time passes.
GrowOld(j) == \E s \in L!GrewOld(jobs[j]) : jobs' = [jobs EXCEPT ![j] = s] /\ UNCHANGED <<runs, watchVars>>

FairWatch == WatchSpec /\ WF_followVars(Watcher) /\ \A j \in Jobs : WF_followVars(GrowOld(j))

--------------------------------------------------------------------------------
(* What --follow promises *)

Once == {j \in Jobs : runs[j] = 1}

\* When --follow returns, every job it reported finished, failed or stale has
\* ended its benchmark (watch.py:11-15): no live job is given up as over.  A job
\* that was started again is not meant: it shows its earlier run's file.
OverMeansOver ==
  watch \in Done =>
    \A j \in Once : seen[j] \in {"finished", "failed", "stale"}
                      => jobs[j].phase \in {"ending", "gone"}

\* A 0 from --follow is the truth about every job with a heartbeat: no job it
\* saw finished has recorded, or ever will record, another outcome of that run.
ZeroMeansSuccess ==
  watch = "exit0" =>
    \A j \in Once : seen[j] = "finished" => jobs[j].file # "exitN"

\* --follow returns once every job is gone for good, killed ones included
\* (main.py:671-672).
FollowReturns ==
  (<>[](\A j \in Jobs : jobs[j].phase = "gone" /\ ~jobs[j].beats)) => <>(watch \in Done)
================================================================================
