------------------------------- MODULE JobScript -------------------------------
(***************************************************************************)
(* One run of a generated job script: the part every job shares            *)
(* (templates/common_header.in), around the benchmark a template adds.     *)
(*                                                                         *)
(* Two processes run concurrently: the job shell, whose traps clean up     *)
(* and record how the job ended, and the heartbeat loop it forks, which    *)
(* rewrites the heartbeat file every Interval seconds.  Signals reach the  *)
(* shell at any moment; SIGKILL and a node failure give it no say.         *)
(*                                                                         *)
(* The shell's pc names the command it is about to run:                    *)
(*   queued  not started yet            exit      about to run the EXIT trap*)
(*   cd      cd to the job directory    stop      kill loop of              *)
(*   header  traps set, header output             cbench_heartbeat_stop     *)
(*   opened  heartbeat file truncated   gone      write the exit line       *)
(*   noted   "started" line written     reopened  file truncated again      *)
(*   forked  loop forked, PID not kept  reap      kill background jobs      *)
(*   kept    PID kept, not disowned     wait      wait for them             *)
(*   body    the benchmark runs         rm        remove scratch dirs       *)
(*   mkdir   scratch dir made, not      dead      the shell is gone         *)
(*           registered yet                                                *)
(***************************************************************************)
EXTENDS HeartbeatStatus

CONSTANTS
  Dirs,      \* scratch directories the template may ask for
  KillCap,   \* kill attempts of cbench_heartbeat_stop before it gives up (20 in the code)
  MaxLag,    \* seconds a woken (or starting) loop may take to its next sleep
  AgeCap     \* ages are counted up to this bound

ASSUME JobAssumption ==
  /\ KillCap \in Nat
  /\ MaxLag \in Nat
  /\ AgeCap \in Nat
  /\ Interval + 2 * MaxLag < AgeCap

VARIABLES
  pc,        \* the shell's next command
  rc,        \* exit status of the shell: 0, or 1 for any other
  pend,      \* a trapped signal is pending at the shell
  pid,       \* CBENCH_HEARTBEAT_PID is set
  owned,     \* the loop is in the shell's job table (not disowned)
  loop,      \* the heartbeat loop's next command, "none" before the fork
  term,      \* a TERM is pending at the loop
  kills,     \* attempts made by cbench_heartbeat_stop
  file,      \* the heartbeat file
  dirs,      \* per scratch directory: none, made, registered, removed, left
  bg,        \* background benchmark instance: off, on, termed
  age,       \* seconds since the heartbeat file changed
  since,     \* seconds since the loop's last sleep began (or since the fork)
  orphan,    \* seconds since the shell died
  death,     \* what the shell died of without its EXIT trap finishing: none, signal, kill
  capped     \* cbench_heartbeat_stop gave up on the loop

history   == <<death, capped>>
shellVars == <<pc, rc, pend, pid, owned, kills, history>>
loopVars  == <<loop, term>>
work      == <<dirs, bg>>
timeVars  == <<age, since, orphan>>
vars == <<shellVars, loopVars, file, work, timeVars>>

Before   == {"queued", "cd"}
\* Positions where a pending trap can run: between two commands, traps set.
Trapped  == {"header", "noted", "forked", "kept", "body", "mkdir"}
\* Commands of cbench_scratch_cleanup.
Cleaning == {"stop", "gone", "reopened", "reap", "wait", "rm"}
ShellPCs == Before \cup Trapped \cup {"opened", "exit"} \cup Cleaning \cup {"dead"}
LoopPCs  == {"none", "setup", "sleep", "check", "render", "write", "gone"}
NoLoop   == {"none", "gone"}

TypeOK ==
  /\ pc \in ShellPCs /\ rc \in {0, 1} /\ loop \in LoopPCs /\ file \in Files
  /\ pend \in BOOLEAN /\ pid \in BOOLEAN /\ owned \in BOOLEAN /\ term \in BOOLEAN
  /\ capped \in BOOLEAN /\ death \in {"none", "signal", "kill"}
  /\ kills \in 0..KillCap
  /\ dirs \in [Dirs -> {"none", "made", "registered", "removed", "left"}]
  /\ bg \in {"off", "on", "termed"}
  /\ age \in 0..AgeCap /\ orphan \in 0..AgeCap
  /\ since \in 0..(Interval + MaxLag)

Init ==
  /\ pc = "queued" /\ rc = 0 /\ pend = FALSE /\ pid = FALSE /\ owned = FALSE
  /\ loop = "none" /\ term = FALSE /\ kills = 0
  /\ file = "absent"
  /\ dirs = [d \in Dirs |-> "none"] /\ bg = "off"
  /\ age = 0 /\ since = 0 /\ orphan = 0
  /\ death = "none" /\ capped = FALSE

\* The file is truncated or rewritten: its mtime is now.
Put(content) == file' = content /\ age' = 0

Goto(from, to) == pc = from /\ pc' = to

--------------------------------------------------------------------------------
(* The shell: start-up *)

\* The batch system (or start-jobs) runs the script; its output file exists
\* from then on.
Launch ==
  /\ Goto("queued", "cd")
  /\ UNCHANGED <<rc, pend, pid, owned, kills, history, loopVars, file, work, timeVars>>

\* cd to the job directory; on failure exit 1, with no trap set yet.
ChangeDir ==
  /\ \/ Goto("cd", "header") /\ rc' = rc
     \/ Goto("cd", "dead") /\ rc' = 1
  /\ UNCHANGED <<pend, pid, owned, kills, history, loopVars, file, work, timeVars>>

\* cbench_heartbeat_start with the heartbeat off: the interval, or CBENCH_HEARTBEAT
\* of the environment in its place, is 0 or not a number.
HeartbeatOff ==
  /\ ~pend /\ Goto("header", "body")
  /\ UNCHANGED <<rc, pend, pid, owned, kills, history, loopVars, file, work, timeVars>>

\* cbench_heartbeat_line "started" > file: the shell truncates the file ...
OpenStarted ==
  /\ Interval > 0 /\ ~pend /\ Goto("header", "opened") /\ Put("empty")
  /\ UNCHANGED <<rc, pend, pid, owned, kills, history, loopVars, work, since, orphan>>

\* ... and the function, having run date twice, prints the line into it.
WriteStarted ==
  /\ Goto("opened", "noted") /\ Put("started")
  /\ UNCHANGED <<rc, pend, pid, owned, kills, history, loopVars, work, since, orphan>>

ForkLoop ==
  /\ ~pend /\ Goto("noted", "forked")
  /\ loop' = "setup" /\ owned' = TRUE /\ since' = 0
  /\ UNCHANGED <<rc, pend, pid, kills, history, term, file, work, age, orphan>>

KeepPid ==
  /\ ~pend /\ Goto("forked", "kept") /\ pid' = TRUE
  /\ UNCHANGED <<rc, pend, owned, kills, history, loopVars, file, work, timeVars>>

Disown ==
  /\ ~pend /\ Goto("kept", "body") /\ owned' = FALSE
  /\ UNCHANGED <<rc, pend, pid, kills, history, loopVars, file, work, timeVars>>

Startup == ChangeDir \/ HeartbeatOff \/ OpenStarted \/ WriteStarted \/ ForkLoop \/ KeepPid \/ Disown

--------------------------------------------------------------------------------
(* The shell: the benchmark a template puts in the body *)

\* cbench_scratch_dir: mkdir -p, then (another command) register it.
MakeDir(d) ==
  /\ ~pend /\ Goto("body", "mkdir") /\ dirs[d] = "none"
  /\ dirs' = [dirs EXCEPT ![d] = "made"]
  /\ UNCHANGED <<rc, pend, pid, owned, kills, history, loopVars, file, bg, timeVars>>

RegisterDir(d) ==
  /\ ~pend /\ Goto("mkdir", "body") /\ dirs[d] = "made"
  /\ dirs' = [dirs EXCEPT ![d] = "registered"]
  /\ UNCHANGED <<rc, pend, pid, owned, kills, history, loopVars, file, bg, timeVars>>

\* A template starts benchmark instances in the background, in its scratch dir.
StartBackground ==
  /\ pc = "body" /\ ~pend /\ bg = "off" /\ \E d \in Dirs : dirs[d] = "registered"
  /\ bg' = "on"
  /\ UNCHANGED <<shellVars, loopVars, file, dirs, timeVars>>

\* The body ends or exits: the benchmark's status, a failed preflight or a
\* refused scratch dir (exit 1), or the end of the script.
BodyEnd(status) ==
  /\ ~pend /\ Goto("body", "exit") /\ rc' = status
  /\ UNCHANGED <<pend, pid, owned, kills, history, loopVars, file, work, timeVars>>

\* The trap of a caught signal: exit 129, 130 or 143.
TakeTrap ==
  /\ pend /\ pc \in Trapped
  /\ pc' = "exit" /\ rc' = 1 /\ pend' = FALSE
  /\ UNCHANGED <<pid, owned, kills, history, loopVars, file, work, timeVars>>

--------------------------------------------------------------------------------
(* The shell: cbench_scratch_cleanup, the EXIT trap *)

\* Save the status, drop the traps, enter cbench_heartbeat_stop.
EnterCleanup ==
  /\ Goto("exit", IF pid THEN "stop" ELSE "reap")
  /\ UNCHANGED <<rc, pend, pid, owned, kills, history, loopVars, file, work, timeVars>>

\* What a TERM does to the loop: a loop still setting up its trap dies of it or
\* loses it, a later one keeps it pending until its current command is done.
TermLoop ==
  \/ loop \in NoLoop /\ UNCHANGED <<loop, term>>
  \/ loop = "setup" /\ loop' \in {"setup", "gone"} /\ UNCHANGED term
  \/ loop \notin NoLoop \cup {"setup"} /\ term' = TRUE /\ UNCHANGED loop

\* while kill $PID && [ $n -lt 20 ]: once more, ...
KillAgain ==
  /\ pc = "stop" /\ loop # "gone" /\ kills < KillCap
  /\ TermLoop /\ kills' = kills + 1
  /\ UNCHANGED <<pc, rc, pend, pid, owned, history, file, work, timeVars>>

\* Variant: one kill, without waiting for the loop to be gone.
KillOnce ==
  /\ kills > 0 /\ Goto("stop", "gone") /\ pid' = FALSE
  /\ UNCHANGED <<rc, pend, owned, kills, history, loopVars, file, work, timeVars>>

\* ... or the loop is gone, ...
KillDone ==
  /\ loop = "gone" /\ Goto("stop", "gone") /\ pid' = FALSE
  /\ UNCHANGED <<rc, pend, owned, kills, history, loopVars, file, work, timeVars>>

\* Variant: no cap on the wait for the loop.
KillNeverGivesUp == FALSE

\* ... or about two seconds have passed.
KillGivesUp ==
  /\ loop # "gone" /\ kills = KillCap /\ Goto("stop", "gone")
  /\ TermLoop /\ pid' = FALSE /\ capped' = TRUE
  /\ UNCHANGED <<rc, pend, owned, kills, death, file, work, timeVars>>

\* cbench_heartbeat_line "exited rc=N" > file.
OpenExited ==
  /\ Goto("gone", "reopened") /\ Put("empty")
  /\ UNCHANGED <<rc, pend, pid, owned, kills, history, loopVars, work, since, orphan>>

\* Variant: the saved status is that of a later command.
WriteExitedZero ==
  /\ Goto("reopened", "reap") /\ Put("exit0")
  /\ UNCHANGED <<rc, pend, pid, owned, kills, history, loopVars, work, since, orphan>>

WriteExited ==
  /\ Goto("reopened", "reap") /\ Put(IF rc = 0 THEN "exit0" ELSE "exitN")
  /\ UNCHANGED <<rc, pend, pid, owned, kills, history, loopVars, work, since, orphan>>

\* kill $(jobs -p): the benchmark instances, and the loop when not disowned.
KillJobs ==
  /\ Goto("reap", "wait")
  /\ bg' = IF bg = "on" THEN "termed" ELSE bg
  /\ IF owned THEN TermLoop ELSE UNCHANGED <<loop, term>>
  /\ UNCHANGED <<rc, pend, pid, owned, kills, history, file, dirs, timeVars>>

\* Variant: the killed instances are not waited for.
WaitNothing ==
  /\ Goto("wait", "rm")
  /\ UNCHANGED <<rc, pend, pid, owned, kills, history, loopVars, file, work, timeVars>>

WaitJobs ==
  /\ bg = "off" /\ (owned => loop \in NoLoop) /\ Goto("wait", "rm")
  /\ UNCHANGED <<rc, pend, pid, owned, kills, history, loopVars, file, work, timeVars>>

\* rm -rf of one registered directory; an instance still writing into it can
\* make rm fail and leave it.
RemoveDir(d) ==
  /\ pc = "rm" /\ dirs[d] = "registered"
  /\ \/ dirs' = [dirs EXCEPT ![d] = "removed"]
     \/ bg # "off" /\ dirs' = [dirs EXCEPT ![d] = "left"]
  /\ UNCHANGED <<shellVars, loopVars, file, bg, timeVars>>

\* return $rc: the shell ends.
Finish ==
  /\ \A d \in Dirs : dirs[d] # "registered"
  /\ Goto("rm", "dead")
  /\ UNCHANGED <<rc, pend, pid, owned, kills, history, loopVars, file, work, timeVars>>

Cleanup ==
  \/ EnterCleanup \/ KillAgain \/ KillDone \/ KillGivesUp \/ OpenExited \/ WriteExited
  \/ KillJobs \/ WaitJobs \/ Finish \/ \E d \in Dirs : RemoveDir(d)

--------------------------------------------------------------------------------
(* The heartbeat loop *)

LoopStep(from, to) == loop = from /\ loop' = to

LoopReady ==
  /\ LoopStep("setup", "sleep") /\ since' = 0
  /\ UNCHANGED <<shellVars, term, file, work, age, orphan>>

LoopWake ==
  /\ ~term /\ since >= Interval /\ LoopStep("sleep", "check")
  /\ UNCHANGED <<shellVars, term, file, work, timeVars>>

\* Variant: kill -0 on the parent, which succeeds on a zombie.
LoopCheckKill0 ==
  /\ ~term /\ LoopStep("check", "render")
  /\ UNCHANGED <<shellVars, term, file, work, timeVars>>

\* ps -o stat= -p $parent: gone, or a zombie, ends the loop.
LoopCheck ==
  /\ ~term /\ LoopStep("check", IF pc = "dead" THEN "gone" ELSE "render")
  /\ UNCHANGED <<shellVars, term, file, work, timeVars>>

\* echo "$line" > file.
LoopOpen ==
  /\ ~term /\ LoopStep("render", "write") /\ Put("empty")
  /\ UNCHANGED <<shellVars, term, work, since, orphan>>

LoopWrite ==
  /\ LoopStep("write", "sleep") /\ Put("running") /\ since' = 0
  /\ UNCHANGED <<shellVars, term, work, orphan>>

\* trap 'kill $sp; exit 0' TERM, between two commands of the loop.
LoopTerm ==
  /\ term /\ loop \in {"sleep", "check", "render"} /\ loop' = "gone"
  /\ UNCHANGED <<shellVars, term, file, work, timeVars>>

Loop == LoopReady \/ LoopWake \/ LoopCheck \/ LoopOpen \/ LoopWrite \/ LoopTerm

--------------------------------------------------------------------------------
(* The environment *)

\* A background instance ends by itself or of the TERM it was sent.
BackgroundEnds ==
  /\ bg # "off" /\ bg' = "off"
  /\ UNCHANGED <<shellVars, loopVars, file, dirs, timeVars>>

\* HUP, INT or TERM: kept pending where the traps are set (a second one adds
\* nothing), fatal before they are and after cbench_scratch_cleanup drops them.
Signal ==
  /\ pc \notin {"queued", "dead"} /\ ~pend
  /\ \/ /\ pc \in Trapped \cup {"opened"}
        /\ pend' = TRUE /\ UNCHANGED <<pc, rc, death>>
     \/ /\ pc \in {"cd", "exit"} \cup Cleaning
        /\ pc' = "dead" /\ rc' = 1 /\ death' = "signal" /\ UNCHANGED pend
  /\ UNCHANGED <<pid, owned, kills, capped, loopVars, file, work, timeVars>>

\* SIGKILL at the shell alone.
Kill9 ==
  /\ pc \notin {"queued", "dead"}
  /\ pc' = "dead" /\ rc' = 1 /\ death' = "kill" /\ pend' = FALSE
  /\ UNCHANGED <<pid, owned, kills, capped, loopVars, file, work, timeVars>>

\* The node dies, or the scheduler kills every process of the job.
NodeDies ==
  /\ pc \notin {"queued", "dead"}
  /\ pc' = "dead" /\ rc' = 1 /\ death' = "kill" /\ pend' = FALSE
  /\ loop' = (IF loop = "none" THEN "none" ELSE "gone") /\ bg' = "off"
  /\ UNCHANGED <<pid, owned, kills, capped, term, file, dirs, timeVars>>

\* One second passes.  The shell's consecutive start-up commands take no time
\* of their own, and a loop that is awake is back asleep within MaxLag.
OneMore(n) == IF n < AgeCap THEN n + 1 ELSE n

Tick ==
  /\ pc \notin {"opened", "noted", "forked", "kept", "mkdir"}
  /\ loop = "setup" => since < MaxLag
  /\ loop \in {"sleep", "check", "render", "write"} => since < Interval + MaxLag
  /\ age' = OneMore(age)
  /\ since' = IF loop \in NoLoop THEN since ELSE since + 1
  /\ orphan' = IF pc = "dead" THEN OneMore(orphan) ELSE orphan
  /\ UNCHANGED <<shellVars, loopVars, file, work>>

Next ==
  \/ Launch \/ Startup \/ TakeTrap \/ Cleanup \/ Loop
  \/ \E d \in Dirs : MakeDir(d) \/ RegisterDir(d)
  \/ StartBackground \/ \E status \in {0, 1} : BodyEnd(status)
  \/ BackgroundEnds \/ Signal \/ Kill9 \/ NodeDies \/ Tick

Spec == Init /\ [][Next]_vars

\* The kernel keeps running both processes and delivers what was sent.  The
\* benchmark need not end, and nobody needs to send a signal.
Fairness ==
  /\ WF_vars(Startup) /\ WF_vars(Cleanup) /\ WF_vars(Loop)
  /\ WF_vars(bg = "termed" /\ BackgroundEnds) /\ WF_vars(Tick)

FairSpec == Spec /\ Fairness

--------------------------------------------------------------------------------
(* What the job script promises *)

\* Once the exit line is in the file it stays there: the loop is gone before
\* the line is written (common_header.in:154-156), unless cbench_heartbeat_stop
\* gave up on it.
ExitLineStays == [][~capped /\ file \in Exited => file' = file]_vars

\* A script that reached the end of its EXIT trap removed every directory a
\* template registered, also under background instances that were still
\* writing into them (common_header.in:53-55, 82-93).  A signal that arrives in the
\* trap ends the shell there and leaves the data.
ScratchRemoved ==
  pc = "dead" /\ death = "none" => \A d \in Dirs : dirs[d] \in {"none", "made", "removed"}

\* A job shell that disappeared, however it did, takes its heartbeat loop with
\* it within one interval and the time the loop needs to look
\* (common_header.in:104-105).
OrphanEnds == pc = "dead" /\ loop \notin NoLoop => orphan <= Interval + 2 * MaxLag

\* The heartbeat file of a dead job is last changed at most MaxLag after its
\* death, so its age tells how long the job has been dead (watch.py:102-113).
DeadJobGoesQuiet == pc = "dead" /\ file # "absent" => orphan <= age + MaxLag

\* cbench watch never calls a job stale whose shell is running its benchmark,
\* if a loop that is awake takes no longer than the window leaves it.
LiveJobNotStale ==
  /\ pc \in Trapped /\ Interval + 2 * MaxLag <= Window
  => StatusOf(file, TRUE, age) # "stale"

\* The exit trap ends: the kill loop is bounded and every background job it
\* waits for has been sent a TERM (common_header.in:83-87, 161).  Except with a
\* loop still in the job table, its PID not kept yet: that can lose the only
\* TERM it is sent.
CleanupEnds == pc \in Cleaning /\ ~owned ~> pc = "dead"

\* No heartbeat loop survives its job for ever.
LoopEnds == pc = "dead" ~> loop \in NoLoop

\* The job as a watcher sees it; JobScript implements JobLife.
Life == [phase  |-> CASE pc = "queued" -> "waiting"
                      [] pc \in Trapped \cup {"cd", "opened"} -> "up"
                      [] pc = "dead" -> "gone"
                      [] OTHER -> "ending",
         beats  |-> loop \notin NoLoop,
         file   |-> file,
         output |-> pc # "queued",
         rc     |-> rc,
         quiet  |-> file \in Alive /\ age > Window]

JL == INSTANCE JobLife WITH job <- Life

\* Every step of the script is a step of JobLife or changes nothing a watcher
\* can see: the exit line only after the benchmark is over, no beat without a
\* loop, and no stale file while benchmark or loop are alive.
ImplementsJobLife == JL!Spec
================================================================================
