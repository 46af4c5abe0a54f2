------------------------------- MODULE StartJobs -------------------------------
(***************************************************************************)
(* `cbench start-jobs` (python/cbench/cli/main.py) and the batch system it *)
(* submits to (python/cbench/schedulers.py).                               *)
(*                                                                         *)
(* Each starter is one invocation of the command over its own job scripts  *)
(* (a testset and identifier, or a --match of one); the batch system is    *)
(* shared.  Job <<s, i>> is the i-th script of starter s in sorted order.   *)
(***************************************************************************)
EXTENDS Integers, FiniteSets

CONSTANTS
  Starters,   \* invocations of start-jobs
  Together,   \* the sets of invocations that may be made at the same time
  N,          \* per starter: the job scripts it found
  Mode,       \* per starter: throttled, batch, interactive or concurrent
  Throttle,   \* --throttledbatch
  Named,      \* the jobs whose name in the queue the query's pattern matches
  DryRun      \* --dry-run

Scripts(s) == 1..N[s]
Jobs == UNION {{s} \X Scripts(s) : s \in Starters}

ASSUME StartAssumption ==
  /\ IsFiniteSet(Starters) /\ Together \subseteq SUBSET Starters
  /\ N \in [Starters -> Nat]
  /\ Mode \in [Starters -> {"throttled", "batch", "interactive", "concurrent"}]
  /\ Throttle \in Int \ {0}
  /\ DryRun \in BOOLEAN
  /\ Named \subseteq Jobs

VARIABLES
  pc,     \* per starter: query, submit, nap, run, await, exit0, exit1, raised; or not
          \* made, absent
  sent,   \* per starter: scripts taken from the front of the list so far
  slots,  \* per starter: submissions left until the next poll
  job     \* per job: unsent, queued, running, ok, bad

vars == <<pc, sent, slots, job>>

Ended   == {"exit0", "exit1", "raised"}
InQueue == {"queued", "running"}
Over    == {"ok", "bad"}

TypeOK ==
  /\ pc \in [Starters -> {"absent", "query", "submit", "nap", "run", "await"} \cup Ended]
  /\ sent \in [Starters -> Nat] /\ \A s \in Starters : sent[s] <= N[s]
  /\ slots \in [Starters -> Nat]
  /\ job \in [Jobs -> {"unsent"} \cup InQueue \cup Over]

First(s) == IF N[s] = 0 THEN "exit0" ELSE IF Mode[s] = "throttled" THEN "query" ELSE "submit"

Init ==
  /\ \E made \in Together : pc = [s \in Starters |-> IF s \in made THEN First(s) ELSE "absent"]
  /\ sent = [s \in Starters |-> 0]
  /\ slots = [s \in Starters |-> 0]
  /\ job = [j \in Jobs |-> "unsent"]

\* The jobs a starter handed to the batch system are those of the batch modes; the
\* interactive ones are processes of its own, which no queue lists.
Batch == {"throttled", "batch"}

\* The jobs of starter s that are queued or running, and those of all starters
\* that a query counts.
Mine(s)  == {i \in Scripts(s) : job[<<s, i>>] \in InQueue}
Counted == {j \in Named : Mode[j[1]] \in Batch /\ job[j] \in InQueue}

Goto(s, to) == pc' = [pc EXCEPT ![s] = to]

--------------------------------------------------------------------------------
(* Throttled: poll, fill the free slots, sleep *)

\* Variant: the throttle is counted against all jobs submitted so far.
QueryCountsSent(s) ==
  /\ pc[s] = "query"
  /\ LET free == Throttle - sent[s] IN
     IF free > 0 THEN slots' = [slots EXCEPT ![s] = free] /\ Goto(s, "submit")
                 ELSE UNCHANGED slots /\ Goto(s, "nap")
  /\ UNCHANGED <<sent, job>>

\* schedulers.query: TOTAL counts the queue's jobs by name; a query that fails
\* raises instead of reporting none.
Query(s) ==
  /\ pc[s] = "query"
  /\ LET free == Throttle - Cardinality(Counted) IN
     IF free > 0 THEN slots' = [slots EXCEPT ![s] = free] /\ Goto(s, "submit")
                 ELSE UNCHANGED slots /\ Goto(s, "nap")
  /\ UNCHANGED <<sent, job>>

QueryFails(s) ==
  /\ pc[s] = "query" /\ Goto(s, "raised")
  /\ UNCHANGED <<sent, slots, job>>

Nap(s) ==
  /\ pc[s] = "nap" /\ Goto(s, "query")
  /\ UNCHANGED <<sent, slots, job>>

\* Variant: the slots of one poll are not used up by its submissions.
SubmitUncounted(s) ==
  /\ pc[s] = "submit" /\ Mode[s] \in Batch
  /\ sent' = [sent EXCEPT ![s] = @ + 1]
  /\ job' = IF DryRun THEN job ELSE [job EXCEPT ![<<s, sent[s] + 1>>] = "queued"]
  /\ Goto(s, IF sent'[s] = N[s] THEN "exit0" ELSE "submit")
  /\ UNCHANGED slots

\* _submit_batch of the next script; the batch system takes it.
Submit(s) ==
  /\ pc[s] = "submit" /\ Mode[s] \in Batch
  /\ sent' = [sent EXCEPT ![s] = @ + 1]
  /\ job' = IF DryRun THEN job ELSE [job EXCEPT ![<<s, sent[s] + 1>>] = "queued"]
  /\ slots' = IF Mode[s] = "throttled" THEN [slots EXCEPT ![s] = @ - 1] ELSE slots
  /\ Goto(s, IF sent'[s] = N[s] THEN "exit0"
             ELSE IF Mode[s] = "throttled" /\ slots'[s] = 0 THEN "nap" ELSE "submit")

\* Variant: a failed submission is passed over and counted like the others.
SubmitFailsSilently(s) ==
  /\ pc[s] = "submit" /\ Mode[s] \in Batch /\ ~DryRun
  /\ sent' = [sent EXCEPT ![s] = @ + 1]
  /\ Goto(s, IF sent'[s] = N[s] THEN "exit0" ELSE "submit")
  /\ UNCHANGED <<slots, job>>

\* _submit_batch raises: the command cannot be run or exits nonzero.
SubmitFails(s) ==
  /\ pc[s] = "submit" /\ Mode[s] \in Batch /\ ~DryRun
  /\ sent' = IF Mode[s] = "throttled" THEN [sent EXCEPT ![s] = @ + 1] ELSE sent
  /\ Goto(s, "raised")
  /\ UNCHANGED <<slots, job>>

--------------------------------------------------------------------------------
(* Interactive: one script after the other, or all at once *)

ExitStatus(s) == IF \E i \in Scripts(s) : job[<<s, i>>] = "bad" THEN "exit1" ELSE "exit0"

\* bash script; in concurrent mode the next one is started right away.
Run(s) ==
  /\ pc[s] = "submit" /\ Mode[s] \in {"interactive", "concurrent"}
  /\ sent' = [sent EXCEPT ![s] = @ + 1]
  /\ job' = IF DryRun THEN job ELSE [job EXCEPT ![<<s, sent[s] + 1>>] = "running"]
  /\ Goto(s, CASE DryRun -> IF sent'[s] = N[s] THEN "exit0" ELSE "submit"
               [] ~DryRun /\ Mode[s] = "interactive" -> "run"
               [] ~DryRun /\ Mode[s] = "concurrent" -> IF sent'[s] = N[s] THEN "await" ELSE "submit")
  /\ UNCHANGED slots

\* Variant: the first failing script ends the run.
CollectStops(s) ==
  /\ pc[s] = "run" /\ job[<<s, sent[s]>>] \in Over
  /\ Goto(s, IF sent[s] = N[s] \/ job[<<s, sent[s]>>] = "bad" THEN ExitStatus(s) ELSE "submit")
  /\ UNCHANGED <<sent, slots, job>>

\* subprocess.run returned; a failing job does not stop the rest.
Collect(s) ==
  /\ pc[s] = "run" /\ job[<<s, sent[s]>>] \in Over
  /\ Goto(s, IF sent[s] = N[s] THEN ExitStatus(s) ELSE "submit")
  /\ UNCHANGED <<sent, slots, job>>

\* Variant: only jobs that succeed are waited for.
AwaitSuccess(s) ==
  /\ pc[s] = "await" /\ \A i \in Scripts(s) : job[<<s, i>>] = "ok"
  /\ Goto(s, ExitStatus(s))
  /\ UNCHANGED <<sent, slots, job>>

\* p.wait() for every process.
Await(s) ==
  /\ pc[s] = "await" /\ \A i \in Scripts(s) : job[<<s, i>>] \in Over
  /\ Goto(s, ExitStatus(s))
  /\ UNCHANGED <<sent, slots, job>>

--------------------------------------------------------------------------------
(* The batch system, and the jobs themselves *)

JobStarts(j) ==
  /\ job[j] = "queued" /\ job' = [job EXCEPT ![j] = "running"]
  /\ UNCHANGED <<pc, sent, slots>>

\* start-jobs never learns how a batch job ended; any will do.
JobEnds(j, how) ==
  /\ how = "bad" => Mode[j[1]] \in {"interactive", "concurrent"}
  /\ job[j] = "running" /\ job' = [job EXCEPT ![j] = how]
  /\ UNCHANGED <<pc, sent, slots>>

Starter(s) ==
  \/ Query(s) \/ Nap(s) \/ Submit(s) \/ Run(s) \/ Collect(s) \/ Await(s)

Next ==
  \/ \E s \in Starters : Starter(s) \/ QueryFails(s) \/ SubmitFails(s)
  \/ \E j \in Jobs : JobStarts(j) \/ \E how \in Over : JobEnds(j, how)

Spec == Init /\ [][Next]_vars

\* The starters run; the batch system runs what it queued; jobs end (they have
\* a time limit).  Nothing needs to fail.
FairSpec ==
  /\ Spec
  /\ \A s \in Starters : WF_vars(Starter(s))
  /\ \A j \in Jobs : WF_vars(JobStarts(j)) /\ WF_vars(\E how \in Over : JobEnds(j, how))

--------------------------------------------------------------------------------
(* What start-jobs promises *)

\* --throttledbatch N: of the jobs that the query finds by their names (main.py:597)
\* no invocation ever has more than N running or queued, whoever else submits and
\* whatever leaves between its poll and its submissions.  Jobs with other names may
\* be among its scripts; they take slots of a poll and are never seen again.
CountedThrottleHeld ==
  \A s \in Starters :
    Mode[s] = "throttled" /\ Throttle > 0 =>
      Cardinality({i \in Mine(s) : <<s, i>> \in Named}) <= Throttle

\* What the code says of itself: "keep <= throttle jobs running+queued"
\* (main.py:594), whatever the jobs are called.
OwnThrottleHeld ==
  \A s \in Starters :
    Mode[s] = "throttled" /\ Throttle > 0 => Cardinality(Mine(s)) <= Throttle

\* The count reported at the end is the number of jobs the batch system took: a
\* failed submission is not counted (main.py:892), and a dry run takes none.
ReportedWereTaken ==
  \A s \in Starters :
    pc[s] = "exit0" /\ ~DryRun => \A i \in Scripts(s) : job[<<s, i>>] # "unsent"

\* Interactive jobs: success means that every job ran and succeeded; failure is
\* reported only once every job has run (main.py:639-640).
InteractiveVerdict ==
  \A s \in Starters :
    Mode[s] \in {"interactive", "concurrent"} /\ ~DryRun =>
      /\ pc[s] = "exit0" => \A i \in Scripts(s) : job[<<s, i>>] = "ok"
      /\ pc[s] = "exit1" => \A i \in Scripts(s) : job[<<s, i>>] \in Over

\* Every invocation ends: the throttle never starves a script, the interactive
\* modes wait for nothing that does not come.
StartJobsEnds == \A s \in Starters : pc[s] # "absent" ~> pc[s] \in Ended
================================================================================
