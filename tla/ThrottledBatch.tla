----------------------------- MODULE ThrottledBatch -----------------------------
(***************************************************************************)
(* The throttled submission loop of the Perl tools: start_jobs of cbench.pl *)
(* with --throttledbatch, run by tools/cbench_start_jobs.pl.               *)
(*                                                                         *)
(* Every script is submitted Repeat times, in rounds over the sorted list. *)
(* A poll may stop in the middle of a round, and the next one resumes      *)
(* after the script submitted last: it walks the list from the top, skips  *)
(* until it finds that script, and may need several passes over the list.  *)
(* Script i is the i-th in the order of sort_by_numprocs.                  *)
(***************************************************************************)
EXTENDS Integers, FiniteSets

CONSTANTS
  N,         \* matched job scripts
  Repeat,    \* --repeat
  Width,     \* --throttledbatch
  MayMiss,   \* scripts whose job directory may be removed during the run
  WaitAll,   \* --waitall
  MaxFailures \* bound: how often the query fails while jobs of ours are there

ASSUME ThrottledAssumption ==
  /\ N \in Nat \ {0}
  /\ Repeat \in Nat \ {0}
  /\ Width \in Int
  /\ MayMiss \subseteq 1..N
  /\ WaitAll \in BOOLEAN
  /\ MaxFailures \in Nat

Scripts == 1..N
NADA == 0           \* nothing submitted yet
BACKTOTOP == N + 1  \* resume at the top of the list

VARIABLES
  pc,      \* poll, pass, check, waitall, done
  left,    \* %scripts: submissions left per script
  total,   \* $total_jobs: submissions left
  last,    \* $last_job_script
  delta,   \* $delta: submissions left in this poll
  found,   \* $foundit
  loops,   \* passes over the list left in this poll
  i,       \* the next script of the pass
  missing, \* the scripts whose job directory has been removed
  inq,     \* our jobs queued or running in the batch system
  failures \* history: queries that failed while jobs of ours were there

vars == <<pc, left, total, last, delta, found, loops, i, missing, inq, failures>>

TypeOK ==
  /\ pc \in {"poll", "pass", "check", "waitall", "done"}
  /\ left \in [Scripts -> 0..Repeat]
  /\ total \in 0..(N * Repeat)
  /\ last \in 0..(N + 1)
  /\ delta \in Int /\ found \in BOOLEAN
  /\ loops \in Nat /\ i \in Scripts
  /\ missing \subseteq Scripts
  /\ inq \in Nat
  /\ failures \in 0..MaxFailures

Init ==
  /\ pc = "poll"
  /\ left = [s \in Scripts |-> Repeat] /\ total = N * Repeat
  /\ last = NADA /\ delta = 0 /\ found = FALSE /\ loops = 0 /\ i = 1
  /\ missing = {}    \* the scan before the loop takes only scripts that exist
  /\ inq = 0 /\ failures = 0

\* What batch_query reports: the query counts our jobs, but one that fails prints
\* nothing, which counts as no jobs.
Reports(num) ==
  \/ num = inq /\ UNCHANGED failures
  \/ num = 0 /\ inq # 0 /\ failures < MaxFailures /\ failures' = failures + 1

--------------------------------------------------------------------------------

\* Query; sleep if the width is used up, else start on the list, with as many
\* passes as the free width may need.
Poll ==
  /\ pc = "poll"
  /\ \E num \in {0, inq} :
       /\ Reports(num)
       /\ IF Width - num <= 0 THEN UNCHANGED <<pc, delta, found, loops, i>>
          ELSE /\ delta' = Width - num /\ found' = FALSE /\ i' = 1 /\ pc' = "pass"
               /\ loops' = IF N < Width - num THEN ((Width - num) \div N) + 1 ELSE 1
  /\ UNCHANGED <<left, total, last, missing, inq>>

\* One script further in the pass, or the first of the next pass.
Advance ==
  IF i < N THEN i' = i + 1 /\ UNCHANGED <<pc, loops>>
  ELSE /\ i' = 1 /\ loops' = loops - 1
       /\ pc' = IF loops = 1 THEN "check" ELSE "pass"

Spent     == delta <= 0 \/ total <= 0
AnyStart  == last \in {NADA, BACKTOTOP}
AtLast    == i = last
AtLastEnd == AtLast /\ i = N

\* Variant: resume at the script submitted last instead of after it.
PassResumeAtLast ==
  /\ pc = "pass" /\ ~Spent /\ AtLast /\ i < N
  /\ found' = TRUE /\ last' = NADA
  /\ UNCHANGED <<pc, left, total, delta, loops, i, missing, inq, failures>>

\* The script submitted last, in the middle of the list: found, go on after it.
PassFind ==
  /\ pc = "pass" /\ ~Spent /\ AtLast /\ i < N
  /\ found' = TRUE
  /\ Advance /\ UNCHANGED <<left, total, last, delta, missing, inq, failures>>

\* Found already, or about to start from the top.  The script submitted last,
\* at the end of the list, makes the next start one from the top.
Here == found \/ AnyStart
NextLastKept == last     \* variant: the end of the list is not told apart
NextLast == IF ~AnyStart /\ AtLastEnd THEN BACKTOTOP ELSE last

\* Nothing to do for this script: no width or work left, not found yet,
\* submitted often enough, or no directory to run it in.
PassSkip ==
  /\ pc = "pass"
  /\ \/ Spent /\ UNCHANGED <<found, last>>
     \/ /\ ~Spent /\ (AtLast => i = N)
        /\ ~Here \/ left[i] = 0 \/ i \in missing
        /\ found' = Here /\ last' = NextLast
  /\ Advance /\ UNCHANGED <<left, total, delta, missing, inq, failures>>

\* Variant: every submission of a poll is allowed, the free width is not used up.
PassSubmitUncounted ==
  /\ pc = "pass" /\ ~Spent /\ (AtLast => i = N)
  /\ Here /\ left[i] > 0 /\ i \notin missing
  /\ found' = Here /\ last' = i
  /\ left' = [left EXCEPT ![i] = @ - 1] /\ total' = total - 1
  /\ UNCHANGED delta
  /\ inq' \in {inq, inq + 1} /\ UNCHANGED <<missing, failures>>
  /\ Advance

\* Submit it.  The exit status of the submit command is not looked at: the job
\* is counted whether the batch system took it or not.
PassSubmit ==
  /\ pc = "pass" /\ ~Spent /\ (AtLast => i = N)
  /\ Here /\ left[i] > 0 /\ i \notin missing
  /\ found' = Here /\ last' = i
  /\ left' = [left EXCEPT ![i] = @ - 1] /\ total' = total - 1
  /\ delta' = delta - 1
  /\ inq' \in {inq, inq + 1} /\ UNCHANGED <<missing, failures>>
  /\ Advance

\* Variant: width left over is taken to mean that nothing is left to submit.
CheckWidthLeft ==
  /\ pc = "check"
  /\ pc' = IF total # 0 /\ delta <= 0 THEN "poll" ELSE IF WaitAll THEN "waitall" ELSE "done"
  /\ UNCHANGED <<left, total, last, delta, found, loops, i, missing, inq, failures>>

\* After the passes of a poll: all submitted, or the next poll.
Check ==
  /\ pc = "check"
  /\ pc' = IF total # 0 THEN "poll" ELSE IF WaitAll THEN "waitall" ELSE "done"
  /\ UNCHANGED <<left, total, last, delta, found, loops, i, missing, inq, failures>>

\* --waitall: until no job of ours is in the batch system.
WaitForAll ==
  /\ pc = "waitall"
  /\ \E num \in {0, inq} : Reports(num) /\ pc' = IF num = 0 THEN "done" ELSE "waitall"
  /\ UNCHANGED <<left, total, last, delta, found, loops, i, missing, inq>>

StartJobs == Poll \/ PassFind \/ PassSkip \/ PassSubmit \/ Check \/ WaitForAll

\* The batch system: one of our jobs ends and leaves it.
JobLeaves ==
  /\ inq > 0 /\ inq' = inq - 1
  /\ UNCHANGED <<pc, left, total, last, delta, found, loops, i, missing, failures>>

\* Somebody removes a job directory while the loop is at work.
DirectoryGone(s) ==
  /\ s \in MayMiss \ missing /\ missing' = missing \cup {s}
  /\ UNCHANGED <<pc, left, total, last, delta, found, loops, i, inq, failures>>

Next == StartJobs \/ JobLeaves \/ \E s \in Scripts : DirectoryGone(s)

Spec == Init /\ [][Next]_vars

FairSpec == Spec /\ WF_vars(StartJobs) /\ WF_vars(JobLeaves)

--------------------------------------------------------------------------------
(* What throttled batch mode promises *)

\* --throttledbatch: "the total number of queued and running jobs that Cbench will
\* submit to the batch system" (tools/cbench_start_jobs.pl:188-191) is never
\* exceeded, however jobs leave while the list is walked, as long as the query tells
\* them; each query that fails lets in as many jobs again, and no more.
WidthHeld == Width >= 0 => inq <= (1 + failures) * Width

\* The rounds are kept across polls: a script submitted for the k-th time was
\* preceded by the k-th submission of every earlier script and the (k-1)-th of
\* every later one.  A script whose directory is gone falls out of them.
RoundRobin ==
  \A s, t \in Scripts \ missing : s < t => left[s] <= left[t] /\ left[t] <= left[s] + 1

\* A script is submitted Repeat times before the loop ends.
NoneForgotten == pc \in {"waitall", "done"} => \A s \in Scripts : left[s] = 0

\* Resuming never gets lost: everything is submitted and the command returns, or
\* a directory was removed whose script was not through.
SubmitsAll == Width > 0 => <>(pc = "done" \/ \E s \in missing : left[s] > 0)
================================================================================
