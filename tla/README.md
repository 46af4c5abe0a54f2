# TLA+ models of cbench

This directory holds formal models of cbench, a harness that generates, runs,
watches and parses benchmark jobs on HPC clusters. The modules are written from
the code in `src/`; paths below are relative to `src/cbench/` unless they begin
with `src/`. `PROJECT.json` maps every definition to the lines it stands for,
and lists the runs, the deliberately broken variants ("mutants") used to show
that each property can fail, the hazards and the proved theorems.

## 1. The system

cbench is mostly sequential text processing around a few places where several
processes meet. Those places are what is modelled.

| Component | State it keeps | Operations | Meets others through |
|---|---|---|---|
| Job script runtime (`templates/common_header.in`) | scratch directories, the loop's PID, the heartbeat file | start the heartbeat, register scratch directories, EXIT trap, signal traps | signals from scheduler and terminal; the heartbeat file |
| Job status, `cbench watch` (`python/cbench/watch.py`, `watch_cmd` in `cli/main.py`) | a snapshot of job statuses | scan, judge, redraw, `--follow` | heartbeat and output files of running jobs |
| `cbench start-jobs` (`cli/main.py`, `schedulers.py`) | the scripts left, the free slots | submit, run, poll, wait | the batch system's queue, shared with other invocations |
| Perl `start_jobs` (`cbench.pl`) | submissions left per script, the place to resume at | poll, walk the list, submit, `--waitall` | the batch system |
| Benchmark builds (`cli/build.py`, `builders/`) | `build.lock`, source trees, installed binaries | run, all, update | threads of one process; other processes through the disk |
| Output parsing and results database (`db.py`, `parse` in `cli/main.py`) | SQLite rows | store, delete, query | job output files |
| MCP server (`mcp_server.py`, `mcp_tools.py`) | task files, `cluster.yaml` | start a task, its status, change the configuration | detached cbench processes |
| Node checks, hardware tests (`nodecheck.py`, `cli/nodehwtest.py`, `tools/nodehwtest_start_jobs.pl`) | per-node results | split nodes over offload nodes, judge | remote shells |
| MPI stress programs (`opensource/mpi_tokensmash`, `opensource/mpi_routecheck`) | tokens, posted receives, control status of each rank | deal, bounce, check, report done, shut down; bursts, echoes, kill messages | MPI messages between ranks |
| Job generation, sizing, host lists (`templates.py`, `iosizing.py`, `hplsizing.py`, `hostlist.py`) | none | pure functions | files they write |
| Output parsers, fix-it tools (`src/fixit123`), bundled benchmarks (`opensource/`, `src/openapps`) | none, or site specific | | |

How they interact: `gen-jobs` writes scripts from the templates; `start-jobs`
runs them or hands them to the batch system; each script starts a background
loop that rewrites `<job>.heartbeat`; `watch` reads these files while the jobs
run; afterwards `parse` reads their output into the database. `build` prepares
the binaries the scripts run; two of the programs it builds, `mpi_tokensmash` and
`mpi_routecheck`, are cbench's own protocols over MPI. The MCP server runs the
same commands as detached processes.

What is hard in this code, and what must hold nevertheless:

* Job script: two processes (shell and loop) that share one file, signals at any
  point of either, SIGKILL, node failure, commands that race with the trap. The
  exit status must be the last word of the heartbeat file, scratch data must go
  whenever the trap runs, the trap must end, no loop may survive its job.
* Watch: a snapshot is put together from many reads of files that change; it must
  never report as over what is not, never call a failure a success, and return.
* start-jobs, both versions: poll and submit are apart, jobs leave in between,
  queries and submissions fail. The throttle must hold, nothing may be forgotten
  or counted twice, the verdict must cover all jobs.
* Builds: a cache entry must never vouch for binaries that were not built from
  what is checked out, whatever was killed or failed before; and a build that is
  recorded must not be repeated.

* Results: several processes store and remove rows of one file, in transactions
  that can be cut off from each other; metrics must stay with their row, a
  removed duplicate must not come back, a parse must leave current results.
* MCP tasks: a task outlives the server that started it, its exit code and its
  process are looked at one after the other, and process ids come back.
* MPI stress programs: every rank has up to seven roles with receives of their
  own; messages of different ranks overtake each other, and who shuts down too
  early loses tokens, who counts wrong hangs.

The list `hazards` in `PROJECT.json` names each such place with its line and the
property that covers it, or says why none does yet.

## 2. The modules

| Module | Models | Extends or instantiates |
|---|---|---|
| `HeartbeatStatus` | `job_status`, `all_done`, `succeeded`: operators only | |
| `JobScript` | the script's shell and its loop | `HeartbeatStatus`, `JobLife` |
| `JobLife` | abstract specification: the life of a job as a watcher relies on it | `HeartbeatStatus` |
| `Watch` | `watch --follow` over jobs that follow `JobLife` | `HeartbeatStatus`, `JobLife` |
| `StartJobs` | any number of `start-jobs` invocations over one batch system | |
| `ThrottledBatch` | the Perl throttled loop with `--waitall` | |
| `BuildCache` | `build run`, `all --parallel`, `update` over one prefix | |
| `ResultsDB` | `store`, `deduplicate`, opening, and `parse` over one database | |
| `McpTasks` | `start_task`, the wrapper, `task_status` | |
| `TokenSmash` | `mpi_tokensmash`: tokens, control words, shutdown | |
| `RouteCheck` | `mpi_routecheck`: rounds of dealers and slaves | |
| `MC*` | constants for model checking | the module named |
| `Heartbeat_proofs` | theorems about the two programs at the heartbeat file | `JobScript`, `Watch`, `TLAPS` |
| `*_proofs` | theorems about `StartJobs`, `ThrottledBatch`, `BuildCache`, `ResultsDB`, `McpTasks`, `TokenSmash`, `RouteCheck` | the module named, `TLAPS` |

`JobLife` is what composes the first two components: `JobScript` implements it
under the refinement mapping `Life` (property `ImplementsJobLife`, theorem
`Implements`), and `Watch` uses only its steps. So what `Watch` shows about a
watcher holds beside real job scripts without exploring both at once.

### JobScript

`pc` is the shell's next command, `loop` the loop's. One action is one command
whose effect another process can see or interrupt: the redirection that truncates
the heartbeat file and the `printf` that fills it are two actions
(`OpenExited`/`WriteExited`, `LoopOpen`/`LoopWrite`), so are the fork of the loop,
the assignment of its PID and `disown` (`ForkLoop`, `KeepPid`, `Disown`), and
`mkdir` and the registration of the directory. `Signal` makes a catchable signal
pending; `TakeTrap` takes it between two commands, as bash does. Once the script is
in its EXIT trap a signal ends the shell: its `exit` does not run that trap a second
time, and after `EnterCleanup` has run `trap -` it is fatal. The loop keeps its own
pending TERM (`term`) and can lose one while it sets up its trap. `dirs` and `bg`
hold scratch directories and background benchmark instances that write into them.
Time passes by `Tick`, which cannot pass over a loop that must wake: `MaxLag`
seconds is the longest a loop that is awake takes, `Interval` its sleep. `age` is
the heartbeat file's age, `since` and `orphan` the time since the loop last slept
and since the shell died; ages are counted up to `AgeCap`. `HeartbeatOff` is
possible at any interval, as `CBENCH_HEARTBEAT` in the environment may turn the
heartbeat off: every run of the model includes jobs without a loop.

Not modelled: the IO preflight, the launcher resolution after line 173, and what
the templates do apart from scratch directories and background instances. A node
that dies does so while the shell is alive.

### Watch

`Look` reads a heartbeat file's text (with the check for output files, which the
code makes in the same breath when there is no heartbeat), `Judge` reads its
modification time and gives the status; the job may move in between. `Decide` ends
the snapshot, `Redraw` begins the next. `Rerun` starts a finished job's script
again over its old files, at most `MaxRuns[j]` times per job. `--stale-after` is another value of the window.
The names `WatchInit`, `WatchSpec`, `WatchTypeOK` and so on set the watcher's
specification apart from the script's, as `Heartbeat_proofs` extends both modules.

### StartJobs

`sent`, `slots` and `job` are the list, the slots of the poll and the queue. `Query`
counts the jobs in the batch system whose names match (`Named`; `Counted` leaves out
those an invocation runs itself), `Submit` submits the next script or
the job is refused (`SubmitFails`, which raises), `Nap` ends a poll, `Run`,
`Collect` and `Await` are the interactive modes. The batch system starts and ends
jobs at any moment. `Mode` and `N` say for each invocation which kind it is and how
many scripts it found; the discovery and filtering of scripts is outside the model.
`Together` says which invocations may be made beside each other; the others stay
`absent`.

### ThrottledBatch

One action is one iteration of the inner `foreach` (`PassFind` while it looks for
the place to resume, `PassSkip`, `PassSubmit`), `Advance` its loop control with the
repeated passes (`deltaloops`), `Poll` and `Check` the outer loop around it.
`last` is `$last_job_script` with its markers NADA and BACKTOTOP. `Reports` is what
the query says: the jobs in the queue or, as a failing `squeue` prints nothing, none.
`failures` counts the failing queries (history, at most `MaxFailures`). `missing` is
the set of scripts whose job directory is gone: none to begin with, as the list is made from
the directories that are there (`cbench.pl:961-990`), but those of `MayMiss` can be
removed while the loop runs (`DirectoryGone`). A submission may be
refused (`inq` stays): its exit status is not looked at. The regular expression of
the query can count jobs of other users' runs of the same name; that only makes it
submit less.

### BuildCache

`data` is a process's `BuildLock._data`, read when the command begins; `file` is
`build.lock`; `out` and `owner` are the text being written and the lock. `task`
walks one benchmark of a command through `_run_one` or `_run_update`. `Write`
truncates the file and `Flush` fills it, so a crash in between loses all entries.
Either can fail instead (`WriteRefused`, `WriteFails`): `record` then fails like a
build, `remove` ends a command that runs its tasks one by one (`Unsaved`). `src` is the
version checked out, `bins` what the installed binaries were built from: nothing, a
mixture (installation began and did not end), or one version with one configuration.
A clone or a removal that fails can leave a tree that is not whole (`Partial`), and
`git pull` can fail after it has moved the tree. Nothing looks at a tree before it is
built, so one that is not whole may build and be recorded like any other. `moved` is
history: the benchmarks whose source `update` has moved, or begun to build again,
since their entry was last removed or written.

Assumptions: a build that succeeds builds from the tree as it is and with the
command's configuration (what `make` rebuilds is up to the benchmark); when two
processes write the file at once the later one wins; the source URL of a benchmark
does not change. `--dry-run` and the read-only commands are left out.

### ResultsDB

`runs` and `metrics` are the two tables, `index` whether the unique index exists.
A row is its id, its job (which stands for the five columns of the natural key)
and the run of the job whose output it was parsed from; `MetricsOf` gives what the
parsers find there. One action is one transaction: opening (`OpenDB`, which tries
for the index and does without when there are duplicates or, as the code catches
that error too, when another process has the database locked), `Store` with the
row that `INSERT OR REPLACE` removes and the metrics that go with it by ON DELETE
CASCADE, `DeleteDuplicates`, and `Reinit` after it. `ReadOutput` and `Store` are
two actions, so an older output can be stored over a newer one. `JobRuns` lets a
job leave a new output at any moment, `Ends` ends a process between any two
actions. `Databases` are those to begin with; those with duplicates are from
before the index. `floor` and `alone` are history: what the newest outputs were
when a command began, and whether another command ran beside it.

`index = FALSE` with duplicates is a state that lasts: the warning (`db.py:102`)
advises to parse again or to run `cbench db deduplicate`, but parsing only adds
rows then and the command line has no such command; only a caller of
`ResultsDB.deduplicate` gets rid of them.

### McpTasks

One task is its command (`command`, `code`), the shell wrapper around it (`shell`)
and the file with its exit code (`rcfile`); the shell opens that file and writes to
it in two actions, and either can fail (`RcFails`). The wrapper's process is a zombie, which `kill -0` finds, until
the server that started it starts another process (Python's `subprocess` reaps
then) or ends; `Reaped` and `Over` say so. Then its id may go to another program
(`IdReused`). `LookAtRc` and `LookAtProcess` are the two looks of `task_status`,
with anything in between, as calls run in threads. `Kill` kills the wrapper, with
its command or without. Servers end and are started again at most `MaxServers`
times, with the tasks going on.

So "gone" can be said of a task whose command still runs (only its wrapper was
killed), and "running" of one that is over (a zombie, or the id in use again).
`SettledTrue` is about the answers "finished" and "failed". What is behind "gone" the
theorem `GoneHasCause` says; the run `mcp_tasks_gone` shows one of the two ways in
which the comment on it is wrong.

### TokenSmash

A token is a pair of its dealer and a number from 1. `wire` holds its messages,
`posted` its receives at each rank with the role whose buffer they fill, `got` the
receives that completed and were not handled. `Deliver` matches a message with the
oldest receive of its source and tag, as MPI does. `DealToken` and `FinishToken`
are what a dealer does with a bounce, `BounceToken` and `Repost` what an edge does:
it sends first and posts its receive afterwards, two actions. Neighbours are the
code's `xplus` ... `zminus`, so on a torus two ranks wide the same rank is a
dealer's edge twice. `Corrupt` changes a message on its way; a buffer is then just
bad or not. `ControlOther`, `ControlMesh` and `ControlStar` are the control
coordination of the three kinds of ranks, `LeaveAndTell` rank 0's shutdown with
the control words it sends to everybody.

`REPORT_PERIOD` (4 in the code) and `INTEGRITY_PERIOD` (10) are constants, so that
few cycles are enough to cross both. A dealer's receive, check and send
(1351-1405) are one step: nothing between them waits or looks at what others do. Not
modelled: the statistics messages, which only feed what is printed, the lengths of
messages, the three ways to release send requests (`BufferFree` shows that the loop
that waits for one ends), and failing allocations. Three kinds of command lines that
the program accepts are left out by the assumptions on `Setups`: one long token, with
which rank 0 divides by zero (line 487; `LengthsAssumption`), so also `-t 1` with the
default `-r`; a width of one in the x direction, where `xplus` gives the next rank
instead of the same one, which for the last rank does not exist; and more than 255
tokens, whose tags would run into each other.

### RouteCheck

`phase` is where a rank is in the round of `dealer_node`. `wire` keeps the messages
of each pair of ranks in order and nothing more, since slaves receive from any
source. `SendBurst`, `WaitBurst`, `NextBurst` and `SendKill` are the dealer's loops
over destinations and sizes, `SlaveBurst` and `SlaveRest` the slave's two loops.
`overtaken` is history: a slave received a message of another rank than its
round's dealer. Until then everything is orderly. Afterwards the kill message
of the old round may end the slave's new one, the slave lags behind, and may wait
for ever for a message; how likely that is depends on the network. A message
stands for its length; bursts have at most 16 messages, the size of the program's
arrays, which it does not check, and the smallest size is at least 1, as doubling
never ends at 0.

## 3. What the runs check

Passing runs (every bound is a constant of the module):

| Run | Properties | Bounds and why they are enough |
|---|---|---|
| `job_script` | `ScratchRemoved`, `OrphanEnds`, `DeadJobGoesQuiet`, `LiveJobNotStale`, `ExitLineStays`, `CleanupEnds`, `LoopEnds`, `ImplementsJobLife` | two directories (one made while the other is registered), interval 2, window 6, lag 2 (the boundary where a live job is just not stale), the kill loop capped at 2 so that giving up happens, with the heartbeat on and off; ages up to 8, beyond window and lag |
| `watch` | `OverMeansOver`, `ZeroMeansSuccess`, `FollowReturns`, `WatchTypeOK` | two jobs, so that one can move while the other is looked at; the second is started twice, with the first run's file there before and after the watcher's look |
| `start_jobs` | `CountedThrottleHeld`, `ReportedWereTaken`, `InteractiveVerdict`, `StartJobsEnds` | two throttled invocations with throttle 2 (four scripts and two), so that the throttle binds while another's jobs come and go between poll and submission, and a batch one; or three scripts one after the other and three at once, where the failing one is first, in the middle or last. The query's pattern matches all names but one, so that counted and uncounted jobs are side by side. Interactive invocations are not mixed with the others: they do not use the batch system |
| `throttled_batch` | `RoundRobin`, `WidthHeld`, `NoneForgotten`, `SubmitsAll` | four scripts four times, width 5: polls stop and resume at every place of the list, and some need two passes; the directories of the second and the last can be removed, and two queries may fail, so that the queue can hold the three widths which `WidthHeld` allows |
| `build_cache` | `FileIsMemory`, `CurrentUnlessMoved`, `SkipsInBin`, `CommandEnds` | two benchmarks on two threads (a git clone, and an archive that installs where the cache does not look), three commands (run, `--force` or `update`), two upstream versions: build, failed forced rebuild or update, then the question whether the entry is still there; any write of the file may fail |
| `token_smash` | `MessagesExpected`, `ShutdownMeansDone`, `VisitedAll`, `IntegrityKept`, `AllGone` | stars of two and three ranks, tori of two and three, a 3D one: a dealer's edges all different or the same rank several times; one or two tokens; one to three cycles with a check after two; all three kinds of integrity check; ends by count and by walltime; two corrupted messages, so that one can hide the other |
| `route_check` | `RoutesExercised`, `OneRoundApart`, `EndsUnlessOvertaken` | two to four ranks (three are needed for overtaking, four for two slaves that differ by more than a round), one to three sizes, bursts of one and two, once and in an interval |
| `results_db` | `MetricsMatch`, `ParseCurrent`, `DedupLasts`, `LastRowStays` | two processes, three commands, two jobs with two runs whose metrics differ, databases without and with duplicates |
| `mcp_tasks` | `SettledTrue`, `TaskReported` | two tasks (starting one reaps the other), two servers one after the other, one caller: callers only read, and do not see each other |

Each type invariant is stated in its module; those that a theorem proves for all
constants (`Typing`, and as a part of the inductive invariant of `McpTasks`) are
not checked by a run as well.

Deadlock checking is off where the system really stops: after a job is dead or a
command has returned nothing is left to do.

Disagreements between code and documents that a run shows (each with one shortest
behaviour):

| Run, property | What happens | What is said |
|---|---|---|
| `start_jobs_names`, `OwnThrottleHeld` | the query counts the jobs whose name holds the identifier; the scripts `gen-jobs` writes set no job name with it, so a job is called after its script's file, none is counted, and each poll submits the whole throttle again | `cli/main.py:594`, `src/README.md:235` |
| `build_cache_update`, `CachedMeansCurrent` | `update` keeps the old entry: when anything fails once `git pull` has moved the tree (`git rev-parse` after it, or the rebuild), the old binaries are "up-to-date" | `cli/build.py:76` |
| `mcp_tasks_gone`, `GoneMeansNoCode` | a task ends between the two looks and its wrapper is reaped before the second, by another call of the server that started it: "gone", although its exit code is there | `mcp_tools.py:184`: "killed without an exit code" |

Others are in the models, but no property is about them; the passing properties say
only what holds beside them:

* A signal that arrives once the script is in its EXIT trap ends the shell there and
  leaves the scratch data, be it the first signal and the script at its normal end:
  before line 80 of `templates/common_header.in` the signal's `exit` does not run the
  EXIT trap again, after it the traps are dropped. `src/README.md:327` says that the
  data is removed on a normal exit and on SIGINT, SIGTERM or SIGHUP. `ScratchRemoved`
  is about a trap that ran to its end.
* The exit line is written only if the loop's PID is set: after a signal between the
  first heartbeat line and that assignment the EXIT trap runs to its end and the file
  says "started" for ever. `templates/common_header.in:101-103` says that the trap
  records the exit status, and that a file that says otherwise means SIGKILL.
  `ExitLineStays` is about a line that was written.
* A `squeue` that fails counts as an empty queue for the Perl version
  (`cbench.pl:485`), and the poll submits a whole width beside the jobs that are there,
  against `tools/cbench_start_jobs.pl:188-191`; `schedulers.py:41` says why the rewrite
  refuses it. `WidthHeld` states what is left: one width more for each failing query.
  While `--waitall` waits, the command returns with jobs in the batch system, against
  `tools/cbench_start_jobs.pl:198-200`.
* `stream` and `iozone` install into `bin/hwtests`, where the cache does not look
  (`cli/build.py:87`): every command builds them again, while `src/CHANGELOG.md:465-466`
  says that unchanged builds are skipped. `SkipsInBin` is about the others
  (`Elsewhere` names these).
* The wrapper of an MCP task may be unable to write its file: a task that ended by
  itself is then "gone", and its exit code lost, against the same words
  (`mcp_tools.py:184`). `GoneHasCause` lists it among the causes.
* `--follow` can return while a job has output and no heartbeat line yet, as such a job
  counts as neither running nor waiting (`watch.py:96`), while `src/README.md:321` says
  that it exits when nothing is running or waiting to start. `FollowReturns` says only
  when it must return.

Some hazards are in the models and no property catches them, because a property
leaves out the very case: a second corrupted message that is lost uncounted
(`mpi_tokensmash.c:1377`; `IntegrityKept` is about one), the hang of `mpi_routecheck` once
messages overtake each other (`EndsUnlessOvertaken`), a heartbeat loop that outlives the
kill loop's cap and overwrites the exit line (`ExitLineStays`), and a cleanup that
waits for a loop which lost its only TERM (`CleanupEnds`). The hazards say so.

## 4. Fairness

* `JobScript`: weak fairness of the shell's startup and cleanup, of the loop, of
  time, and of the end of a background instance that was sent a TERM: the kernel
  runs both processes and delivers what was sent. None for the benchmark (it may
  run for ever), for signals, or for new background work.
* `Watch`: the watcher runs, and files grow old. Jobs owe nothing; `FollowReturns`
  supposes that they are gone.
* `StartJobs`, `ThrottledBatch`: the command runs; the batch system starts queued
  jobs and jobs end (they have a time limit). Failures need not happen.
* `McpTasks`: the wrapper and its command run to their end, a server that is up
  finishes the call it is in, and every caller asks about every task again and
  again (strong fairness, as it can only ask one thing at a time). Nobody has to
  kill, end or start anything.
* `TokenSmash`: every rank runs its loop and its control coordination, which looks
  at everything that has arrived; MPI delivers what can be delivered; a walltime
  elapses. `RouteCheck`: every rank runs, and rank 0's look at the clock finds the
  interval over in the end. Messages need not be corrupted.
* `ResultsDB`: none; its properties are safety.
* `BuildCache`: a task's thread runs, and the tools it calls return. No fairness
  for commands being issued, crashes or upstream.

## 5. What is proved

The proofs hold for every value of the constants that satisfies the named
assumptions of the modules.

* `Heartbeat_proofs`, the job script (assumptions `StatusAssumption`, `JobAssumption`).
  `Typing` gives the type invariant. `ExitLine` rests on `LastWord`: once the exit
  line is in the file without the cap being reached, no loop is left to write. It is
  needed because `ExitLineStays` alone says nothing about a loop in the middle of a
  write. `Scratch` rests on `Swept`: when the shell stands after the removal, no
  directory is registered, and only `rm` with no writer left leads there. `Orphans`,
  `Quiet` and `NotStale` share `Beating` (which loop states go with which state of
  shell and file) and `Ages` (bounds on `age`, `since` and `orphan` in each loop
  state): the bound on an orphan's life is the sum of what the loop may still sleep
  and lag, which only holds with the state of the loop spelled out.
* Then, in `Heartbeat_proofs`, `Implements`, for intervals and lags with
  `Interval + 2 * MaxLag <= Window`. Each action is matched with a step of `JobLife`
  or a stutter; the lemmas name the step (`BeatStep`, `RecordedStep`, ...).
* `ThrottledBatch_proofs`: `Typing` with `Walking` (a pass has at least one pass
  left), then `Throttle`, from `Room`: in a pass the jobs in the queue and the
  submissions left of the poll never exceed what is allowed (`Allowed`: the width, and
  once more for each query that failed), however jobs leave. A failing query raises
  what is allowed by just the width that the poll then starts with.
  `Rounds` holds for failing queries and missing directories too. It rests on `Split`
  (the list falls into two parts at the place to resume: the scripts up to it have
  been submitted once more than those after it) and on `NextInRound` (a pass that
  submits stands at the first script behind that place which has its directory);
  `RoundRobin` alone does not say where the next submission goes. `AllSubmitted` counts
  what is left as a set: `Pending` are the pairs of a script and a number up to its
  submissions left, and `Total` says that the loop's counter is their number. Each
  submission takes one pair away, so the counter that ends the loop at 0 leaves none.
  It holds for failing queries too; a missing directory keeps its pairs, and the loop
  then does not end.
* `BuildCache_proofs` (assumption `BuildAssumption`), for one process. `Memory` rests
  on `Locked`: the lock's holder is the one task that is writing, its text is the
  process's copy, and otherwise the file equals that copy, or holds less of it when a
  task failed on the file. `Skips` adds `Kept` (an entry never precedes its binaries, and
  binaries never go away) and is about the builders that install where the cache looks,
  with any configurations and verbs. `Current` adds `Vouched`: an entry, in
  the file or in memory, is that of the source as it is, and a task that may change
  source or binaries has none; both except for a benchmark whose source `update` has
  moved since (`moved`), or that the cache never finds (`Elsewhere`). It supposes one process and one configuration, and both
  are needed: with two processes, one that read `build.lock` before the other's
  `--force` dropped the entry still answers "up-to-date" during the rebuild; with two
  configurations a failed rebuild leaves the other configuration's entry beside a
  mixture of binaries. What `update` does to a benchmark in `moved` the run
  `build_cache_update` shows.

* `StartJobs_proofs` (assumption `StartAssumption`). `ThrottleIsKept` rests on
  `Fits`: while an invocation submits, those of its jobs in the queue that a query
  counts and the slots it has left never exceed the throttle, whatever the others do,
  since only its own submissions add to its jobs. The bound is on the jobs whose names
  the query's pattern matches; scripts as `gen-jobs` writes them have none
  (`start_jobs_names`), and `AllNamedThrottle` draws the conclusion for the case that all
  have. It also rests on `FromTheFront`: the next script is one that
  was never submitted, so a submission adds exactly one. The theorem needs neither
  that submissions succeed nor that jobs ever leave. `Typing` comes with it.
  `AllTaken` and `VerdictOnAll` share `Outcome`: every script in front of the one an
  invocation is at was taken (`Taken`), and in the interactive mode, where each job is
  waited for, it is over (`InTurn`).
* `ResultsDB_proofs` (assumption `ResultsAssumption`). `RowsKeepTheirMetrics` needs
  `Ids`: ids are never used twice and none is above `lastid`, so a new row cannot
  take over metrics of an old one. `IndexHolds` is inductive with it: with the
  index, `Store` removes the job's row before it adds one. `LastRowKept` looks at
  each action: what `Store` and `DeleteDuplicates` remove is below a row that stays
  or comes. (That a job with rows has a last one is the least-number principle,
  from the library's well-founded induction.) `DuplicatesStayAway` needs `Solo`:
  beside a command that was alone no other is at work, so nothing comes between
  the removal and the new index. `ParsedIsCurrent` rests on `Fresh` (what a parse has
  read is not older than what was there when it began) and `Passed` (the jobs it is
  through with have a row that is current; no other row comes after it while the
  parse is alone). `StoredRunsWere` (each row shows a run its job has had) rests on
  `InHand`: what a process has read and not stored yet is of such a run, which stays
  so as runs are only added. `Typing` needs the same. All hold for any database to
  begin with and any number of processes that end anywhere.
* `McpTasks_proofs` (assumption `McpAssumption`). `AnswersHold` rests on
  `FileFollowsCommand` (what is in the file was put there after the command's end,
  and is its code) and `AnswersFromFile` (an answer never outlives what it was based
  on). `GoneHasCause` adds `EndedLeftCode`: a wrapper that is over was killed, could not
  write its file, or has left a code. So "gone" has one of three causes, of which the
  comment in the code names the first. `FinalAnswers`: what was said of the end is never
  taken back.
* `TokenSmash_proofs` (assumptions `TokenSmashAssumption`, `LengthsAssumption`), for every topology, size,
  count and number of tokens. `ShutdownSafe` rests on `Places` (a token is in one
  message or one receive while it is running, and nowhere when it is finished) and
  `Counts` (`tokens_finished` is the number of a dealer's finished tokens,
  `dealers_finished` that of the dealers heard, and a dealer that said it was done
  is): rank 0's comparison of two numbers then means that no token is left.
  `OneCopyAlways` and `BuffersFree` follow from `Places`: a token whose receive has
  completed has no message left, so none that is still being sent from that buffer.
  `TagsDistinct` is arithmetic on the tags' layout.

  `NeighboursAreRanks` is the arithmetic of the torus: in all six directions the code's
  formulas stay inside it. `BouncesExpected` and with it `MessagesSafe` rest on `Routes`:
  a token is between its dealer and the edge it was last sent to, and while it is not
  back the dealer has a receive posted for that edge. It is needed because on a small
  torus one rank is several edges, so that who sent a bounce does not say which edge it
  came from. `AllVisited` rests on `Trips`: a rank has bounced a token once per full cycle
  and edge it is, once more for each of its edges the token has passed in this cycle
  (`Behind`, the part of the ring from the first edge to the present one), and once if
  it is just back from it. Arriving at the first edge again makes a cycle (`Ring`), which is
  where an off-by-one would show. `IntegrityAlways` rests on `Integrity`: the dealer's
  count and the bad tokens it still has under way together never exceed what was
  corrupted, which needs that a counted token is not sent around as bad.

  `Typing` collects the types from these invariants; the bounds of the two counters are
  the sizes of the sets they count. `NobodyHangs` is freedom from deadlock: until all
  ranks are gone, the guard of some step (`CanStep`) holds. The run checks the same as
  absence of deadlock on its instances; the theorem is about every torus. Three
  invariants meet in it. `Edged`: for each role in which a rank is an edge of a dealer,
  the receive of a token is posted, has completed, or is owed by a rank that has just
  sent the token back and not posted yet. `EdgesKnowTheirDealer` adds that a dealer's
  edges are exactly such ranks: one step forward and one back in a direction lead to the
  start, in a row, a plane and the space. So a message always finds its receive, also where
  a rank is its own neighbour. `Words`: the ranks pass the barriers together, every rank
  that rank 0 left behind has its word on the way, and a dealer that is done has said so
  or has been heard, so rank 0's count arrives at the number of ranks. `Going`: a token
  that is not finished has cycles left, so no dealer refuses it.
* `RouteCheck_proofs` (assumption `RouteCheckAssumption`), for any number of ranks,
  sizes and bursts, once and in an interval. `AllExercised` rests on `Dealing`, which
  says what a dealer has had echoed of each size from each rank, by comparing with the
  destination and the size it is at: all, part of, or nothing of a burst. It holds
  whatever overtakes what, as a dealer receives from one named rank. It takes that the
  sizes are a chain in which each is the double of the one before (`NoSizeBetween`): for
  that `Sizes` is defined as the least set closed under doubling, which is what the
  loop goes through.
  `RoundsApart` rests on `RInv`: until a message overtakes, there is a hindmost round, of
  dealer b, and everybody is in it or in the next one (`Near`). `Exchange` counts the
  messages between a busy dealer and each slave, so the burst is all back when the
  dealer goes on; `Heard` says who has answered belongs to its round, so a dealer that
  goes on to the kill messages has everybody in its round; `Kills` says that any other
  message under way is a kill message of b to a rank still in b's round, the only one b
  sends it (`Told`). The last rank that leaves the round makes the next one
  the hindmost, or ends the program.

  `Typing` adds `Placed`: the dealer a rank works with is a rank until all rounds are over.
  `NobodyWaitsForNothing` and `KillsComeLast` rest on `SInv`, which adds to `RInv` what
  each side still waits for. `Starts` takes the receives a slave's burst has had as
  echoes that the dealer has counted or that are on their way, so a dealer does
  not pass that burst before the slave has; `Final` says that whoever is told is at rest
  with the kill message on its way. A wait that nothing will end would need a
  dealer without echo and a slave without message at once, and the counts of `Exchange`
  leave no such state. A kill message that falls into a burst would keep its slave
  for ever; that a slave is through with its bursts before its dealer is excludes it.
* `Heartbeat_proofs`, the watcher (assumptions `StatusAssumption`, `WatchAssumption`), for any jobs run
  any number of times. What the watcher knows is old when it uses it: the text it
  read, then the status it concluded. `ToldOver` and `ToldSuccess` say of each stage
  what it still implies about the job: that it is over, or will leave no other
  outcome than success. Each of these facts stays true under every step of `JobLife`
  that a job which ran once can take, which is what `LifeStep` is for. `ReportedAreOver`
  and `ZeroIsSuccess` are what is left of them when `--follow` returns. A job that
  was started again shows its first run's exit line and is rightly left out.

Only model checked: all liveness (`CleanupEnds`, `LoopEnds`, `FollowReturns`,
`StartJobsEnds`, `SubmitsAll`, `CommandEnds`, `AllGone`, `EndsUnlessOvertaken`,
`TaskReported`), which is out of the prover's reach; of `AllGone` and
`EndsUnlessOvertaken`, the safety half is proved: until the end some step is possible
(`NobodyHangs`, `NobodyWaitsForNothing`). Every invariant that a run checks
is a theorem, in a few cases under conditions that the theorem's statement names: one
process for `BuildCache`, and one configuration as well for `CurrentUnlessMoved`;
`Interval + 2 * MaxLag` within the window for `ImplementsJobLife`. Outside these
conditions there is only what the runs show.

## 6. Not modelled, and the plan

1. `OffloadMap`: how nodes are split over offload nodes
   (`tools/nodehwtest_start_jobs.pl:235`), and the node hardware test's verdict.
2. Pure algorithms as operators against reference definitions: IO and HPL sizing,
   host list compression and expansion, selection of process counts.
3. `set_config` by concurrent calls, and `rm-failed` beside running jobs.
4. Perl `start_jobs`: batch, interactive and combobatch modes.
5. Proofs: what remains true of `BuildCache` with several configurations or processes.

Left out for good: output parsers and templates (text in, text out), rendering of
reports (`serve`, `snb`), the site-specific repair scripts under `src/fixit123`, and
the bundled benchmarks. Most of the C code under `opensource/` is the last: HPL,
netperf, IOR, b_eff and others are third-party programs that cbench unpacks, builds
and runs, and whose logic is not cbench's. What is cbench's own there beside the two
programs modelled (`mpi_malloc`, `mpi_overhead`, `mpi_latency`, memory and CPU tests)
is one loop of measurements each.
