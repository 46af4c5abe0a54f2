------------------------------- MODULE BuildCache -------------------------------
(***************************************************************************)
(* `cbench build run | all | update` (python/cbench/cli/build.py) and the  *)
(* cache of finished builds it keeps in <prefix>/build.lock.               *)
(*                                                                         *)
(* A process runs one command after the other; each command handles some   *)
(* benchmarks, `build all --parallel` several of them at once on threads    *)
(* that share the process's copy of the cache and one threading.Lock.      *)
(* Processes share the file, the sources and the installed binaries.  A    *)
(* process can be killed at any moment.                                    *)
(*                                                                         *)
(* A task is one benchmark in one command:                                 *)
(*   off      not part of the command     install  copying the binaries    *)
(*   todo     waits for a thread          built    about to record         *)
(*   drop     writing the file without    flush    writing the file with   *)
(*            its entry (--force)                  its new entry           *)
(*   fetch    looks at its source         cached   answered "up-to-date"   *)
(*   clone    git clone, download         ok, failed                       *)
(*   build    about to compile            unsaved  failed: the file could  *)
(*                                                 not be written          *)
(***************************************************************************)
EXTENDS Integers, FiniteSets

CONSTANTS
  Procs,       \* processes that run build commands
  Names,       \* benchmarks
  Archives,    \* those whose source is an archive of a fixed version, not a git clone
  Configs,     \* compiler configurations
  NoConfig,    \* no entry
  Verbs,       \* the commands used: run (or all), force, update
  Parallel,    \* --parallel
  Elsewhere,   \* benchmarks whose builder does not install into <prefix>/bin
  MaxVersion,  \* bound: upstream versions of a source
  MaxRuns      \* bound: commands per process

Free == "free"    \* nobody holds the lock

ASSUME BuildAssumption ==
  /\ Free \notin Names
  /\ NoConfig \notin Configs
  /\ Verbs \subseteq {"run", "force", "update"}
  /\ Parallel \in Nat \ {0}
  /\ Elsewhere \subseteq Names /\ Archives \subseteq Names
  /\ MaxVersion \in Nat \ {0} /\ MaxRuns \in Nat

VARIABLES
  cmd,       \* per process: its command's verb and configuration
  runs,      \* per process: commands begun
  task,      \* per process and benchmark
  data,      \* per process: BuildLock._data, the configuration recorded per benchmark
  owner,     \* per process: the task that holds BuildLock._lock
  out,       \* per process and task: the text it is about to write
  file,      \* build.lock; one that is truncated or unreadable holds no entry
  src,       \* per benchmark: the version checked out
  bins,      \* per benchmark: what the installed binaries were built from
  upstream,  \* per benchmark: the newest version upstream
  moved      \* history: the benchmarks whose source build update has moved, or begun to
             \* build again, since their entry was last removed or written

vars == <<cmd, runs, task, data, owner, out, file, src, bins, upstream, moved>>
disk == <<file, src, bins, upstream, moved>>
lockVars == <<data, owner, out, file, moved>>

None    == 0     \* no source tree, no binaries
Partial == -1    \* a source tree or a set of binaries that is not whole
Empty   == [n \in Names |-> NoConfig]
Caches  == [Names -> Configs \cup {NoConfig}]
Built(v, c) == [version |-> v, config |-> c]
Nothing == Built(None, NoConfig)
Mixed   == Built(Partial, NoConfig)
Idle    == [verb |-> "idle", config |-> NoConfig]

Over   == {"cached", "ok", "failed", "unsaved"}
Active == {"drop", "fetch", "clone", "build", "install", "built", "flush"}

TypeOK ==
  /\ cmd \in [Procs -> [verb : Verbs \cup {"idle"}, config : Configs \cup {NoConfig}]]
  /\ runs \in [Procs -> 0..MaxRuns]
  /\ task \in [Procs -> [Names -> {"off", "todo"} \cup Active \cup Over]]
  /\ data \in [Procs -> Caches] /\ file \in Caches
  /\ owner \in [Procs -> Names \cup {Free}]
  /\ out \in [Procs -> [Names -> Caches]]
  /\ src \in [Names -> Partial..MaxVersion]
  /\ bins \in [Names -> [version : Partial..MaxVersion, config : Configs \cup {NoConfig}]]
  /\ upstream \in [Names -> 1..MaxVersion]
  /\ moved \subseteq Names

Init ==
  /\ cmd = [p \in Procs |-> Idle] /\ runs = [p \in Procs |-> 0]
  /\ task = [p \in Procs |-> [n \in Names |-> "off"]]
  /\ data = [p \in Procs |-> Empty] /\ file = Empty
  /\ owner = [p \in Procs |-> Free]
  /\ out = [p \in Procs |-> [n \in Names |-> Empty]]
  /\ src = [n \in Names |-> None] /\ bins = [n \in Names |-> Nothing]
  /\ upstream = [n \in Names |-> 1] /\ moved = {}

Step(p, n, from, to) == task[p][n] = from /\ task' = [task EXCEPT ![p][n] = to]

--------------------------------------------------------------------------------
(* The command *)

\* BuildLock.__init__ reads the file; build run and build update name one
\* benchmark, build all and build update all of them.
Begin(p) ==
  /\ cmd[p] = Idle /\ runs[p] < MaxRuns
  /\ \E verb \in Verbs, c \in Configs, S \in {Names} \cup {{n} : n \in Names} :
       /\ cmd' = [cmd EXCEPT ![p] = [verb |-> verb, config |-> c]]
       /\ task' = [task EXCEPT ![p] = [n \in Names |-> IF n \in S THEN "todo" ELSE "off"]]
  /\ runs' = [runs EXCEPT ![p] = @ + 1]
  /\ data' = [data EXCEPT ![p] = file]
  /\ UNCHANGED <<owner, out, disk>>

\* All tasks are over: the summary, and the process ends.
Finish(p) ==
  /\ cmd[p] # Idle /\ \A n \in Names : task[p][n] \in Over \cup {"off"}
  /\ cmd' = [cmd EXCEPT ![p] = Idle]
  /\ task' = [task EXCEPT ![p] = [n \in Names |-> "off"]]
  /\ data' = [data EXCEPT ![p] = Empty]
  /\ UNCHANGED <<runs, owner, out, disk>>

\* The process is killed.  What it was doing to the disk stays half done.
Crash(p) ==
  /\ cmd[p] # Idle
  /\ cmd' = [cmd EXCEPT ![p] = Idle]
  /\ task' = [task EXCEPT ![p] = [n \in Names |-> "off"]]
  /\ data' = [data EXCEPT ![p] = Empty]
  /\ owner' = [owner EXCEPT ![p] = Free]
  /\ out' = [out EXCEPT ![p] = [n \in Names |-> Empty]]
  /\ UNCHANGED <<runs, disk>>

--------------------------------------------------------------------------------
(* One benchmark: the cache *)

\* A thread is free; build run and build update have but one.
ThreadFree(p) ==
  Cardinality({n \in Names : task[p][n] \in Active})
    < (IF cmd[p].verb = "update" THEN 1 ELSE Parallel)

\* Variant: the binaries are looked for where only the other builders put them.
CachedInOtherDir(p, n) ==
  /\ data[p][n] = cmd[p].config
  /\ n \in Elsewhere /\ bins[n] # Nothing

\* is_cached: an entry for this configuration, and its binaries in <prefix>/bin.
Cached(p, n) ==
  /\ data[p][n] = cmd[p].config
  /\ n \notin Elsewhere /\ bins[n] # Nothing

\* check_requires names something that is missing.
Refuse(p, n) ==
  /\ ThreadFree(p) /\ Step(p, n, "todo", "failed")
  /\ UNCHANGED <<cmd, runs, lockVars, src, bins, upstream>>

Hit(p, n) ==
  /\ ThreadFree(p) /\ cmd[p].verb = "run" /\ Cached(p, n) /\ Step(p, n, "todo", "cached")
  /\ UNCHANGED <<cmd, runs, lockVars, src, bins, upstream>>

Miss(p, n) ==
  /\ ThreadFree(p)
  /\ cmd[p].verb = "update" \/ (cmd[p].verb = "run" /\ ~Cached(p, n))
  /\ Step(p, n, "todo", "fetch")
  /\ UNCHANGED <<cmd, runs, lockVars, src, bins, upstream>>

\* write_text of a new entry or of none, with the lock held: the text is made,
\* the file truncated.
Write(p, n, entry) ==
  /\ owner[p] = Free /\ owner' = [owner EXCEPT ![p] = n]
  /\ data' = [data EXCEPT ![p][n] = entry]
  /\ out' = [out EXCEPT ![p][n] = data'[p]]
  /\ file' = Empty /\ moved' = moved \ {n}

\* Variant: --force leaves the old entry in place.
DropNothing(p, n) ==
  /\ ThreadFree(p) /\ cmd[p].verb = "force" /\ Step(p, n, "todo", "fetch")
  /\ UNCHANGED <<cmd, runs, lockVars, src, bins, upstream>>

\* --force: the old entry is removed before anything else happens.
Drop(p, n) ==
  /\ ThreadFree(p) /\ cmd[p].verb = "force" /\ Step(p, n, "todo", "drop")
  /\ Write(p, n, NoConfig)
  /\ UNCHANGED <<cmd, runs, src, bins, upstream>>

\* Variant: record does not take the lock.
RecordUnlocked(p, n) ==
  /\ Step(p, n, "built", "flush")
  /\ data' = [data EXCEPT ![p][n] = cmd[p].config]
  /\ out' = [out EXCEPT ![p][n] = data'[p]]
  /\ file' = Empty /\ moved' = moved \ {n}
  /\ UNCHANGED <<cmd, runs, owner, src, bins, upstream>>

\* record, once the binaries are installed.
Record(p, n) ==
  /\ Step(p, n, "built", "flush") /\ Write(p, n, cmd[p].config)
  /\ UNCHANGED <<cmd, runs, src, bins, upstream>>

\* Variant: the lock is not released.
FlushKeepsLock(p, n) ==
  /\ Step(p, n, "drop", "fetch") \/ Step(p, n, "flush", "ok")
  /\ file' = out[p][n] /\ out' = [out EXCEPT ![p][n] = Empty]
  /\ UNCHANGED <<cmd, runs, data, owner, src, bins, upstream, moved>>

\* The text is in the file; the lock is released.
Flush(p, n) ==
  /\ Step(p, n, "drop", "fetch") \/ Step(p, n, "flush", "ok")
  /\ file' = out[p][n] /\ out' = [out EXCEPT ![p][n] = Empty]
  /\ owner' = [owner EXCEPT ![p] = Free]
  /\ UNCHANGED <<cmd, runs, data, src, bins, upstream, moved>>

\* The task failed on the file.  In record the error is caught like that of a build;
\* in remove it ends the command, unless it runs the tasks on a pool of threads.
Unsaved(p, n) ==
  LET aborts == Parallel = 1 /\ task[p][n] \in {"todo", "drop"} IN
  task' = [task EXCEPT ![p] = [m \in Names |->
             IF m = n THEN "unsaved"
             ELSE IF aborts /\ task[p][m] = "todo" THEN "off" ELSE task[p][m]]]

\* write_text cannot open the file: the process has changed its copy already.
WriteRefused(p, n) ==
  /\ owner[p] = Free
  /\ \/ /\ ThreadFree(p) /\ cmd[p].verb = "force" /\ task[p][n] = "todo"
        /\ data' = [data EXCEPT ![p][n] = NoConfig]
     \/ task[p][n] = "built" /\ data' = [data EXCEPT ![p][n] = cmd[p].config]
  /\ Unsaved(p, n)
  /\ UNCHANGED <<cmd, runs, owner, out, disk>>

\* write_text fails once the file is truncated; `with` releases the lock.
WriteFails(p, n) ==
  /\ task[p][n] \in {"drop", "flush"} /\ Unsaved(p, n)
  /\ out' = [out EXCEPT ![p][n] = Empty] /\ owner' = [owner EXCEPT ![p] = Free]
  /\ UNCHANGED <<cmd, runs, data, disk>>

--------------------------------------------------------------------------------
(* One benchmark: source and binaries *)

\* What git pull makes of a source tree: one that is not whole stays so.
Pulled(n) == [src EXCEPT ![n] = IF src[n] = Partial THEN Partial ELSE upstream[n]]

\* build update: no source or no .git in it, nothing to do; git pull fails, or git
\* cannot tell the new HEAD after it; or HEAD has moved, or it has not.
Pull(p, n) ==
  /\ cmd[p].verb = "update"
  /\ \/ /\ n \in Archives \/ src[n] \in {None, Partial}
        /\ Step(p, n, "fetch", "ok") /\ UNCHANGED src
     \/ /\ n \notin Archives /\ src[n] # None
        /\ Step(p, n, "fetch", "failed") /\ src' \in {src, Pulled(n)}
     \/ /\ n \notin Archives /\ src[n] # None /\ src' = Pulled(n)
        /\ Step(p, n, "fetch", IF src'[n] = src[n] /\ src[n] # Partial THEN "ok" ELSE "build")
  /\ moved' = IF src' # src \/ task'[p][n] = "build" THEN moved \cup {n} ELSE moved
  /\ UNCHANGED <<cmd, runs, data, owner, out, file, bins, upstream>>

\* git_clone, wget_tarball: a source tree that is there is kept, whatever is in it ...
Keep(p, n) ==
  /\ cmd[p].verb = "run" /\ src[n] # None /\ Step(p, n, "fetch", "build")
  /\ UNCHANGED <<cmd, runs, lockVars, src, bins, upstream>>

\* ... unless --force: it is replaced.  A download can be refused at once.
CloneStarts(p, n) ==
  /\ cmd[p].verb = "force" \/ (cmd[p].verb = "run" /\ src[n] = None)
  /\ \/ Step(p, n, "fetch", "clone") /\ src' = [src EXCEPT ![n] = Partial]
     \/ n \in Archives /\ Step(p, n, "fetch", "failed") /\ UNCHANGED src
  /\ UNCHANGED <<cmd, runs, lockVars, bins, upstream>>

\* git removes what a failed clone had, but the tree stays half there when removing
\* the old one fails or git itself is killed; so it does after a failed download or
\* extraction.
CloneEnds(p, n) ==
  /\ \/ Step(p, n, "clone", "build") /\ src' = [src EXCEPT ![n] = upstream[n]]
     \/ /\ Step(p, n, "clone", "failed")
        /\ \E left \in {Partial} \cup (IF n \in Archives THEN {} ELSE {None}) :
             src' = [src EXCEPT ![n] = left]
  /\ UNCHANGED <<cmd, runs, lockVars, bins, upstream>>

\* configure and make: they fail, or leave nothing to install, which counts as a
\* success, or the first binary is copied.  Nothing looks whether the tree is whole.
Compile(p, n) ==
  /\ \/ Step(p, n, "build", "failed") /\ UNCHANGED bins
     \/ Step(p, n, "build", "ok") /\ UNCHANGED bins
     \/ Step(p, n, "build", "install") /\ bins' = [bins EXCEPT ![n] = Mixed]
  /\ UNCHANGED <<cmd, runs, lockVars, src, upstream>>

\* The other binaries; some builders compile one after the other and can still fail.
Install(p, n) ==
  /\ \/ Step(p, n, "install", "failed") /\ UNCHANGED bins
     \/ /\ Step(p, n, "install", "built")
        /\ bins' = [bins EXCEPT ![n] = Built(src[n], cmd[p].config)]
  /\ UNCHANGED <<cmd, runs, lockVars, src, upstream>>

UpstreamMoves(n) ==
  /\ n \notin Archives /\ upstream[n] < MaxVersion /\ upstream' = [upstream EXCEPT ![n] = @ + 1]
  /\ UNCHANGED <<cmd, runs, task, lockVars, src, bins>>

Task(p, n) ==
  \/ Refuse(p, n) \/ Hit(p, n) \/ Miss(p, n) \/ Drop(p, n) \/ Record(p, n) \/ Flush(p, n)
  \/ Pull(p, n) \/ Keep(p, n) \/ CloneStarts(p, n) \/ CloneEnds(p, n)
  \/ Compile(p, n) \/ Install(p, n) \/ WriteRefused(p, n) \/ WriteFails(p, n)

Next ==
  \/ \E p \in Procs : Begin(p) \/ Finish(p) \/ Crash(p) \/ \E n \in Names : Task(p, n)
  \/ \E n \in Names : UpstreamMoves(n)

Spec == Init /\ [][Next]_vars

\* The threads run, and so do the commands they wait for.
FairSpec ==
  /\ Spec
  /\ \A p \in Procs : WF_vars(Finish(p)) /\ \A n \in Names : WF_vars(Task(p, n))

--------------------------------------------------------------------------------
(* What the build cache promises *)

\* is_cached: "True if this benchmark is up-to-date and all binaries exist"
\* (build.py:76).  A benchmark is passed over as up-to-date only if its binaries
\* were all installed from the source tree as it is, with this configuration.
CachedMeansCurrent ==
  [][\A p \in Procs, n \in Names :
       task[p][n] = "todo" /\ task'[p][n] = "cached"
         => bins[n] = Built(src[n], cmd[p].config)]_vars

\* The same, where it holds: after crashes, failed builds, failed writes of the file
\* and --force, and after updates too, as long as build update has not moved the
\* source without the entry being removed or written again since (build.py:509-534).
CurrentUnlessMoved ==
  [][\A p \in Procs, n \in Names \ moved :
       task[p][n] = "todo" /\ task'[p][n] = "cached"
         => bins[n] = Built(src[n], cmd[p].config)]_vars

\* With one process, threads never undo each other's entries: when none of them
\* is writing, the file holds exactly what the process knows (build.py:89-106),
\* unless it was told that the file could not be written.
FileIsMemory ==
  Cardinality(Procs) = 1 =>
    \A p \in Procs :
      cmd[p] # Idle /\ (\A n \in Names : task[p][n] \notin {"drop", "flush", "unsaved"})
        => file = data[p]

\* "unchanged builds are skipped on subsequent runs" (CHANGELOG.md:465-466): what is
\* recorded, in the file the command began with or by one of its threads, is passed
\* over by build run, also when builds failed or were killed in between.  This is not
\* so for builders that install elsewhere than is_cached looks, <prefix>/bin
\* (build.py:87): their binaries are never found, and they are built again.
SkipsInBin ==
  [][\A p \in Procs, n \in Names \ Elsewhere :
       cmd[p].verb = "run" /\ task[p][n] = "todo" /\ task'[p][n] = "fetch"
         => file[n] # cmd[p].config]_vars

\* Every command ends: no thread waits for the lock for ever.
CommandEnds == \A p \in Procs : cmd[p] # Idle ~> cmd[p] = Idle
================================================================================
