--------------------------- MODULE BuildCache_proofs ---------------------------
(***************************************************************************)
(* Proofs about BuildCache, for any benchmarks, versions, commands and     *)
(* number of threads.                                                      *)
(***************************************************************************)
EXTENDS BuildCache, TLAPS

\* The constants of the tasks' states and verbs are distinct strings; a command
\* that is under way is not idle, and no configuration is the empty one.
LEMMA Begun ==
  ASSUME NEW verb \in Verbs, NEW c \in Configs
  PROVE  [verb |-> verb, config |-> c] # Idle /\ c # NoConfig /\ verb # "idle"
  BY BuildAssumption DEF Idle

Tasks   == {"off", "todo"} \cup Active \cup Over
Version == Partial..MaxVersion

\* Versions that occur: none, a part of one, the one upstream, and the one there.
LEMMA Versions ==
  ASSUME TypeOK, NEW n \in Names
  PROVE  None \in Version /\ Partial \in Version /\ upstream[n] \in Version /\ src[n] \in Version
  BY BuildAssumption DEF TypeOK, Version, None, Partial

\* One task's step keeps the tasks' type.
LEMMA TaskType ==
  ASSUME TypeOK, NEW p \in Procs, NEW n \in Names, NEW from, NEW to \in Tasks, Step(p, n, from, to)
  PROVE  task' \in [Procs -> [Names -> Tasks]]
  BY DEF TypeOK, Step, Tasks

\* Writing an entry keeps the types of the cache's copies.
LEMMA WriteType ==
  ASSUME TypeOK, NEW p \in Procs, NEW n \in Names,
         NEW entry \in Configs \cup {NoConfig}, Write(p, n, entry)
  PROVE  /\ data' \in [Procs -> Caches] /\ file' \in Caches
         /\ owner' \in [Procs -> Names \cup {Free}]
         /\ out' \in [Procs -> [Names -> Caches]]
         /\ moved' \subseteq Names
<1>1. data' \in [Procs -> Caches]
  BY DEF TypeOK, Write, Caches
<1>2. data'[p] \in Caches
  BY <1>1
<1>3. out' \in [Procs -> [Names -> Caches]]
  BY <1>2 DEF TypeOK, Write
<1>4. QED
  BY <1>1, <1>3 DEF TypeOK, Write, Empty, Caches

\* A task that fails on the file keeps the tasks' type; those it ends stay alone
\* with it, the others keep their states.
LEMMA UnsavedType ==
  ASSUME TypeOK, NEW p \in Procs, NEW n \in Names, Unsaved(p, n)
  PROVE  /\ task' \in [Procs -> [Names -> Tasks]]
         /\ task'[p][n] = "unsaved"
         /\ \A m \in Names \ {n} : \/ task'[p][m] = task[p][m]
                                   \/ task[p][m] = "todo" /\ task'[p][m] = "off"
         /\ \A q \in Procs \ {p} : task'[q] = task[q]
<1> DEFINE aborts == Parallel = 1 /\ task[p][n] \in {"todo", "drop"}
           row == [m \in Names |-> IF m = n THEN "unsaved"
                                   ELSE IF aborts /\ task[p][m] = "todo" THEN "off" ELSE task[p][m]]
<1>1. task' = [task EXCEPT ![p] = row]
  BY DEF Unsaved
<1>2. task \in [Procs -> [Names -> Tasks]]
  BY DEF TypeOK, Tasks
<1>3. row \in [Names -> Tasks]
  BY <1>2 DEF Tasks, Over
<1>4. task' \in [Procs -> [Names -> Tasks]] /\ task'[p] = row /\ \A q \in Procs \ {p} : task'[q] = task[q]
  BY <1>1, <1>2, <1>3
<1>5. /\ row[n] = "unsaved"
      /\ \A m \in Names \ {n} : row[m] = task[p][m] \/ (task[p][m] = "todo" /\ row[m] = "off")
  OBVIOUS
<1> QED BY <1>4, <1>5

\* Every reachable state has its type.
THEOREM Typing == Spec => []TypeOK
<1>1. Init => TypeOK
  BY BuildAssumption DEF Init, TypeOK, Idle, Free, Nothing, Built, None, Partial, Empty, Caches
<1>2. TypeOK /\ [Next]_vars => TypeOK'
  <2> SUFFICES ASSUME TypeOK, [Next]_vars PROVE TypeOK'
    OBVIOUS
  <2> USE BuildAssumption DEF TypeOK, disk, lockVars
  <2>1. ASSUME NEW p \in Procs, Begin(p) PROVE TypeOK'
    BY <2>1 DEF Begin, Caches
  <2>2. ASSUME NEW p \in Procs, Finish(p) PROVE TypeOK'
    BY <2>2 DEF Finish, Idle, Empty, Caches
  <2>3. ASSUME NEW p \in Procs, Crash(p) PROVE TypeOK'
    BY <2>3 DEF Crash, Idle, Empty, Caches, Free
  <2>4. ASSUME NEW p \in Procs, NEW n \in Names, Task(p, n) PROVE TypeOK'
    <3>1. CASE Refuse(p, n)
      BY <3>1 DEF Refuse, Step, Over
    <3>2. CASE Hit(p, n)
      BY <3>2 DEF Hit, Step, Over
    <3>3. CASE Miss(p, n)
      BY <3>3 DEF Miss, Step, Active
    <3>4. CASE Drop(p, n)
      <4>1. NoConfig \in Configs \cup {NoConfig} /\ "drop" \in Tasks
        BY DEF Tasks, Active
      <4>2. QED
        BY <3>4, <4>1, TaskType, WriteType DEF Drop, Tasks
    <3>5. CASE Record(p, n)
      <4>1. cmd[p].config \in Configs \cup {NoConfig} /\ "flush" \in Tasks
        BY DEF Tasks, Active
      <4>2. QED
        BY <3>5, <4>1, TaskType, WriteType DEF Record, Tasks
    <3>6. CASE Flush(p, n)
      <4>1. task' \in [Procs -> [Names -> Tasks]]
        BY <3>6, TaskType DEF Flush, Tasks, Active, Over
      <4>2. out[p][n] \in Caches /\ Empty \in Caches
        BY DEF Empty, Caches
      <4>3. out' \in [Procs -> [Names -> Caches]]
        BY <3>6, <4>2 DEF Flush
      <4>4. QED
        BY <3>6, <4>1, <4>2, <4>3 DEF Flush, Tasks
    <3>7. CASE Pull(p, n)
      <4>1. task' \in [Procs -> [Names -> Tasks]]
        BY <3>7, TaskType DEF Pull, Tasks, Active, Over
      <4>2. src' \in [Names -> Version]
        <5>1. Pulled(n) \in [Names -> Version]
          BY Versions DEF Pulled, Version
        <5>2. src' \in {src, Pulled(n)}
          BY <3>7 DEF Pull
        <5>3. src \in [Names -> Version]
          BY DEF Version
        <5> QED BY <5>1, <5>2, <5>3
      <4>3. QED
        BY <3>7, <4>1, <4>2 DEF Pull, Tasks, Version
    <3>8. CASE Keep(p, n)
      BY <3>8 DEF Keep, Step, Active
    <3>9. CASE CloneStarts(p, n)
      <4>1. task' \in [Procs -> [Names -> Tasks]]
        BY <3>9, TaskType DEF CloneStarts, Tasks, Active, Over
      <4>2. src' \in [Names -> Version]
        BY <3>9, Versions DEF CloneStarts, Version
      <4>3. QED
        BY <3>9, <4>1, <4>2 DEF CloneStarts, Tasks, Version
    <3>10. CASE CloneEnds(p, n)
      <4>1. task' \in [Procs -> [Names -> Tasks]]
        BY <3>10, TaskType DEF CloneEnds, Tasks, Active, Over
      <4>2. src' \in [Names -> Version]
        <5>1. PICK v \in Version : src' = [src EXCEPT ![n] = v]
          BY <3>10, Versions DEF CloneEnds
        <5> QED BY <5>1 DEF Version
      <4>3. QED
        BY <3>10, <4>1, <4>2 DEF CloneEnds, Tasks, Version
    <3>11. CASE Compile(p, n)
      <4>1. task' \in [Procs -> [Names -> Tasks]]
        BY <3>11, TaskType DEF Compile, Tasks, Active, Over
      <4>2. bins' \in [Names -> [version : Version, config : Configs \cup {NoConfig}]]
        <5>1. Mixed \in [version : Version, config : Configs \cup {NoConfig}]
          BY Versions DEF Mixed, Built
        <5>2. QED
          BY <3>11, <5>1 DEF Compile, Version
      <4>3. QED
        BY <3>11, <4>1, <4>2 DEF Compile, Tasks, Version
    <3>12. CASE Install(p, n)
      <4>1. task' \in [Procs -> [Names -> Tasks]]
        BY <3>12, TaskType DEF Install, Tasks, Active, Over
      <4>2. bins' \in [Names -> [version : Version, config : Configs \cup {NoConfig}]]
        <5>1. Built(src[n], cmd[p].config) \in [version : Version, config : Configs \cup {NoConfig}]
          <6>1. src[n] \in Version
            BY Versions
          <6>2. cmd[p].config \in Configs \cup {NoConfig}
            BY <3>12 DEF Install, Step, TypeOK
          <6> QED BY <6>1, <6>2 DEF Built
        <5>2. bins' = bins \/ bins' = [bins EXCEPT ![n] = Built(src[n], cmd[p].config)]
          BY <3>12 DEF Install
        <5>3. bins \in [Names -> [version : Version, config : Configs \cup {NoConfig}]]
          BY DEF TypeOK, Version
        <5> DEFINE b == Built(src[n], cmd[p].config)
                   B == [version : Version, config : Configs \cup {NoConfig}]
        <5> HIDE DEF TypeOK, b, B
        <5>4. bins \in [Names -> B] /\ b \in B => [bins EXCEPT ![n] = b] \in [Names -> B]
          OBVIOUS
        <5> QED BY <5>1, <5>2, <5>3, <5>4 DEF b, B
      <4>3. QED
        BY <3>12, <4>1, <4>2 DEF Install, Tasks, Version
    <3>13. CASE WriteRefused(p, n)
      <4>1. cmd[p].config \in Configs \cup {NoConfig} /\ data[p] \in Caches
        OBVIOUS
      <4>2. data' \in [Procs -> Caches]
        <5>1. PICK c \in Configs \cup {NoConfig} : data' = [data EXCEPT ![p][n] = c]
          BY <3>13, <4>1 DEF WriteRefused
        <5>2. [data[p] EXCEPT ![n] = c] \in Caches
          BY <4>1 DEF Caches
        <5> QED BY <5>1, <5>2
      <4>3. QED
        BY <3>13, <4>2, UnsavedType DEF WriteRefused, Tasks
    <3>14. CASE WriteFails(p, n)
      <4>1. Empty \in Caches
        BY DEF Empty, Caches
      <4>2. out' \in [Procs -> [Names -> Caches]]
        BY <3>14, <4>1 DEF WriteFails
      <4>3. QED
        BY <3>14, <4>2, UnsavedType DEF WriteFails, Tasks, Free
    <3>15. QED
      BY <2>4, <3>1, <3>2, <3>3, <3>4, <3>5, <3>6, <3>7, <3>8, <3>9, <3>10, <3>11, <3>12, <3>13,
         <3>14 DEF Task
  <2>5. ASSUME NEW n \in Names, UpstreamMoves(n) PROVE TypeOK'
    BY <2>5 DEF UpstreamMoves
  <2>6. CASE UNCHANGED vars
    BY <2>6 DEF vars
  <2>7. QED
    BY <2>1, <2>2, <2>3, <2>4, <2>5, <2>6 DEF Next
<1>3. QED
  BY <1>1, <1>2, PTL DEF Spec
--------------------------------------------------------------------------------
(* One process *)

One == \A p, q \in Procs : p = q

\* Who holds the lock, and what the file holds: the process's copy, except while
\* a thread that holds the lock is about to write it, and nothing that was not in
\* that copy except the old entries of tasks that could not write.
LockedAt(p) ==
  /\ cmd[p] = Idle => owner[p] = Free /\ \A n \in Names : task[p][n] = "off"
  /\ \A n \in Names : owner[p] = n <=> task[p][n] \in {"drop", "flush"}
  /\ \A n \in Names : owner[p] = n => file = Empty /\ out[p][n] = data[p]
  /\ cmd[p] # Idle /\ owner[p] = Free /\ (\A n \in Names : task[p][n] # "unsaved") => file = data[p]
  /\ cmd[p] # Idle => \A n \in Names : \/ file[n] \in {NoConfig, data[p][n]}
                                       \/ task[p][n] = "unsaved"

Locked == \A p \in Procs : LockedAt(p)

\* A step of a task that leaves the lock and the cache alone.
LEMMA LockedQuiet ==
  ASSUME TypeOK, NEW p \in Procs, LockedAt(p), NEW n \in Names,
         NEW from, NEW to \in Tasks \ {"drop", "flush"}, from \notin {"off", "drop", "flush", "unsaved"},
         Step(p, n, from, to), UNCHANGED <<cmd, data, owner, out, file>>
  PROVE  LockedAt(p)'
  BY DEF TypeOK, LockedAt, Step, Tasks

\* A step that takes the lock and truncates the file.
LEMMA LockedWrite ==
  ASSUME TypeOK, NEW p \in Procs, LockedAt(p), NEW n \in Names, NEW entry \in Configs \cup {NoConfig},
         NEW from, NEW to \in {"drop", "flush"}, from \notin {"off", "drop", "flush"},
         Step(p, n, from, to), Write(p, n, entry), UNCHANGED cmd
  PROVE  LockedAt(p)'
<1>1. cmd[p] # Idle
  BY DEF LockedAt, Step
<1>2. task'[p][n] = to /\ \A m \in Names \ {n} : task'[p][m] = task[p][m]
  BY DEF Step, TypeOK
<1>3. owner'[p] = n /\ file' = Empty /\ \A m \in Names : task[p][m] \notin {"drop", "flush"}
  BY BuildAssumption DEF Write, TypeOK, LockedAt
<1>4. out'[p][n] = data'[p]
  BY DEF Write, TypeOK
<1>5. QED
  BY <1>1, <1>2, <1>3, <1>4, BuildAssumption DEF LockedAt, Empty

\* A step in which a task fails on the file, which keeps what it has or is empty.
LEMMA LockedUnsaved ==
  ASSUME TypeOK, NEW p \in Procs, LockedAt(p), NEW n \in Names, task[p][n] # "off",
         Unsaved(p, n), WriteRefused(p, n) \/ WriteFails(p, n)
  PROVE  LockedAt(p)'
<1>1. /\ task'[p][n] = "unsaved"
      /\ \A m \in Names \ {n} : \/ task'[p][m] = task[p][m]
                                \/ task[p][m] = "todo" /\ task'[p][m] = "off"
  BY UnsavedType
<1>2. cmd[p] # Idle /\ cmd' = cmd /\ file' = file
  BY DEF LockedAt, WriteRefused, WriteFails, disk
<1>3. /\ owner'[p] = Free /\ \A m \in Names \ {n} : task[p][m] \notin {"drop", "flush"}
      /\ \A m \in Names \ {n} : data'[p][m] = data[p][m]
  BY BuildAssumption DEF LockedAt, WriteRefused, WriteFails, TypeOK, Caches
<1>4. \A m \in Names : task'[p][m] \notin {"drop", "flush"}
  BY <1>1, <1>3
<1>5. \A m \in Names : file'[m] \in {NoConfig, data'[p][m]} \/ task'[p][m] = "unsaved"
  BY <1>1, <1>2, <1>3 DEF LockedAt
<1> QED BY <1>1, <1>2, <1>3, <1>4, <1>5, BuildAssumption DEF LockedAt

\* The other steps: Flush releases the lock, a command begins and ends without it.
LEMMA LockedStep ==
  ASSUME One
  PROVE  TypeOK /\ Locked /\ [Next]_vars => Locked'
<1> SUFFICES ASSUME TypeOK, Locked, [Next]_vars, NEW p \in Procs PROVE LockedAt(p)'
  BY DEF Locked
<1>0. LockedAt(p) /\ \A q \in Procs : q = p
  BY DEF Locked, One
<1>1. ASSUME Begin(p) PROVE LockedAt(p)'
  <2>1. owner[p] = Free /\ owner' = owner /\ file' = file /\ out' = out /\ data'[p] = file
    BY <1>0, <1>1 DEF Begin, LockedAt, TypeOK, disk
  <2>2. cmd'[p] # Idle /\ \A n \in Names : task'[p][n] \in {"todo", "off"}
    BY <1>1, Begun DEF Begin, TypeOK
  <2>3. QED
    BY <2>1, <2>2, BuildAssumption DEF LockedAt
<1>2. ASSUME Finish(p) PROVE LockedAt(p)'
  <2>1. owner[p] = Free
    BY <1>0, <1>2 DEF Finish, LockedAt, TypeOK, Over
  <2>2. owner'[p] = Free /\ cmd'[p] = Idle /\ \A n \in Names : task'[p][n] = "off"
    BY <2>1, <1>2 DEF Finish, TypeOK
  <2>3. QED
    BY <2>2, BuildAssumption DEF LockedAt
<1>3. ASSUME Crash(p) PROVE LockedAt(p)'
  <2>1. owner'[p] = Free /\ cmd'[p] = Idle /\ \A n \in Names : task'[p][n] = "off"
    BY <1>3 DEF Crash, TypeOK
  <2>2. QED
    BY <2>1, BuildAssumption DEF LockedAt
<1>4. ASSUME NEW n \in Names, Task(p, n) PROVE LockedAt(p)'
  <2> USE <1>0, LockedQuiet DEF Tasks, Active, Over, lockVars
  <2>1. CASE Refuse(p, n)
    BY <2>1 DEF Refuse
  <2>2. CASE Hit(p, n)
    BY <2>2 DEF Hit
  <2>3. CASE Miss(p, n)
    BY <2>3 DEF Miss
  <2>4. CASE Drop(p, n)
    BY <2>4, LockedWrite DEF Drop
  <2>5. CASE Record(p, n)
    <3>1. cmd[p].config \in Configs \cup {NoConfig}
      BY DEF TypeOK
    <3>2. QED
      BY <2>5, <3>1, LockedWrite DEF Record
  <2>6. CASE Flush(p, n)
    <3>1. owner[p] = n /\ file' = data[p] /\ owner'[p] = Free /\ UNCHANGED <<cmd, data>>
      BY <2>6 DEF Flush, Step, LockedAt, TypeOK
    <3>2. \A m \in Names : task'[p][m] \notin {"drop", "flush"}
      BY <2>6, <3>1 DEF Flush, Step, LockedAt, TypeOK
    <3>3. cmd[p] # Idle
      BY <2>6 DEF Flush, Step, LockedAt
    <3>4. QED
      BY <3>1, <3>2, <3>3, BuildAssumption DEF LockedAt
  <2>7. CASE Pull(p, n)
    BY <2>7 DEF Pull
  <2>8. CASE Keep(p, n)
    BY <2>8 DEF Keep
  <2>9. CASE CloneStarts(p, n)
    BY <2>9 DEF CloneStarts
  <2>10. CASE CloneEnds(p, n)
    BY <2>10 DEF CloneEnds
  <2>11. CASE Compile(p, n)
    BY <2>11 DEF Compile
  <2>12. CASE Install(p, n)
    BY <2>12 DEF Install
  <2>13. CASE WriteRefused(p, n) \/ WriteFails(p, n)
    BY <2>13, LockedUnsaved DEF WriteRefused, WriteFails
  <2>14. QED
    BY <1>4, <2>1, <2>2, <2>3, <2>4, <2>5, <2>6, <2>7, <2>8, <2>9, <2>10, <2>11, <2>12, <2>13 DEF Task
<1>5. ASSUME NEW n \in Names, UpstreamMoves(n) PROVE LockedAt(p)'
  BY <1>0, <1>5 DEF UpstreamMoves, LockedAt, lockVars
<1>6. CASE UNCHANGED vars
  BY <1>0, <1>6 DEF vars, LockedAt
<1>7. QED
  BY <1>0, <1>1, <1>2, <1>3, <1>4, <1>5, <1>6 DEF Next

\* Nothing is under way at first.
LEMMA LockedInit == Init => Locked
  BY BuildAssumption DEF Init, Locked, LockedAt

\* With one process, threads never undo each other's entries.
THEOREM Memory ==
  ASSUME One
  PROVE  Spec => []FileIsMemory
<1>1. Locked /\ TypeOK => FileIsMemory
  <2> SUFFICES ASSUME Locked, TypeOK, NEW p \in Procs, cmd[p] # Idle,
                      \A n \in Names : task[p][n] \notin {"drop", "flush", "unsaved"}
               PROVE  file = data[p]
    BY DEF FileIsMemory
  <2>1. owner[p] = Free
    BY DEF Locked, LockedAt, TypeOK
  <2>2. QED
    BY <2>1 DEF Locked, LockedAt
<1>2. QED
  BY <1>1, LockedInit, LockedStep, Typing, PTL DEF Spec
--------------------------------------------------------------------------------
(* What an entry vouches for *)

\* A benchmark with an entry, and one about to get one, has installed binaries.
Kept ==
  \A n \in Names :
    /\ file[n] # NoConfig => bins[n] # Nothing
    /\ \A p \in Procs : data[p][n] # NoConfig \/ task[p][n] \in {"install", "built"} => bins[n] # Nothing

\* A benchmark whose source or binaries may change: of those that build update looks
\* at, only one that it moves.
Changing(p, n) ==
  \/ task[p][n] \in {"drop", "clone", "build", "install", "built"}
  \/ task[p][n] = "fetch" /\ cmd[p].verb # "update"

\* An entry, in the file or in a process, is that of the source as it is, and a
\* benchmark that changes has none, unless build update moved it; what is about to
\* be recorded is installed, even so.
Vouched ==
  /\ \A n \in Names \ (Elsewhere \cup moved) :
       /\ file[n] # NoConfig => bins[n] = Built(src[n], file[n])
       /\ \A p \in Procs :
            /\ data[p][n] # NoConfig => bins[n] = Built(src[n], data[p][n])
            /\ Changing(p, n) => data[p][n] = NoConfig
  /\ \A n \in Names, p \in Procs :
       task[p][n] = "built" => bins[n] = Built(src[n], cmd[p].config)

\* A build is not Nothing: neither a mixed one nor one with a configuration.
LEMMA NotNothing ==
  /\ Mixed # Nothing
  /\ \A v, c : c # NoConfig => Built(v, c) # Nothing
  BY DEF Mixed, Nothing, Built, Partial, None

\* While a command runs the file holds of a benchmark what its process knows, or
\* nothing, or the benchmark's task could not write.
LEMMA FileOf ==
  ASSUME TypeOK, Locked, NEW p \in Procs, cmd[p] # Idle, NEW n \in Names
  PROVE  file[n] \in {NoConfig, data[p][n]} \/ task[p][n] = "unsaved"
  BY DEF Locked, LockedAt

\* A process with a task has a command, and the command a configuration.
LEMMA Commanded ==
  ASSUME TypeOK, Locked, NEW p \in Procs, NEW n \in Names, task[p][n] # "off"
  PROVE  cmd[p] # Idle
  BY DEF Locked, LockedAt

\* The command of a process that has one: a verb in use and a configuration.
Bid == \A p \in Procs : cmd[p] = Idle \/ (cmd[p].verb \in Verbs /\ cmd[p].config \in Configs)

LEMMA BidStep == TypeOK /\ Bid /\ [Next]_vars => Bid'
<1> SUFFICES ASSUME TypeOK, Bid, [Next]_vars PROVE Bid'
  OBVIOUS
<1>1. ASSUME NEW p \in Procs, Begin(p) PROVE Bid'
  BY <1>1 DEF Begin, Bid, TypeOK
<1>2. ASSUME NEW p \in Procs, Finish(p) \/ Crash(p) PROVE Bid'
  BY <1>2 DEF Finish, Crash, Bid, TypeOK
<1>3. ASSUME NEW p \in Procs, NEW n \in Names, Task(p, n) PROVE cmd' = cmd
  BY <1>3 DEF Task, Refuse, Hit, Miss, Drop, Record, Flush, Pull, Keep, CloneStarts, CloneEnds, Compile, Install,
              WriteRefused, WriteFails
<1>4. ASSUME NEW n \in Names, UpstreamMoves(n) PROVE cmd' = cmd
  BY <1>4 DEF UpstreamMoves
<1>5. CASE UNCHANGED vars
  BY <1>5 DEF vars, Bid
<1>6. QED
  BY <1>1, <1>2, <1>3, <1>4, <1>5 DEF Next, Bid

\* A step that leaves cache and binaries alone and installs nothing.
LEMMA KeptQuiet ==
  ASSUME TypeOK, Kept, NEW p \in Procs, NEW n \in Names, NEW from,
         NEW to \in Tasks \ {"install", "built"}, Step(p, n, from, to), UNCHANGED <<data, file, bins>>
  PROVE  Kept'
  BY DEF TypeOK, Kept, Step

\* Binaries are there before the entry is, and never go away.
LEMMA KeptStep ==
  ASSUME One
  PROVE  TypeOK /\ Locked /\ Bid /\ Kept /\ [Next]_vars => Kept'
<1> SUFFICES ASSUME TypeOK, Locked, Bid, Kept, [Next]_vars PROVE Kept'
  OBVIOUS
<1>1. ASSUME NEW p \in Procs, Begin(p) PROVE Kept'
  BY <1>1 DEF Begin, Kept, TypeOK, disk
<1>2. ASSUME NEW p \in Procs, Finish(p) PROVE Kept'
  BY <1>2 DEF Finish, Kept, TypeOK, disk, Empty
<1>3. ASSUME NEW p \in Procs, Crash(p) PROVE Kept'
  BY <1>3 DEF Crash, Kept, TypeOK, disk, Empty
<1>4. ASSUME NEW p \in Procs, NEW n \in Names, Task(p, n) PROVE Kept'
  <2> USE KeptQuiet DEF Tasks, Active, Over, lockVars
  <2>1. CASE Refuse(p, n)
    BY <2>1 DEF Refuse
  <2>2. CASE Hit(p, n)
    BY <2>2 DEF Hit
  <2>3. CASE Miss(p, n)
    BY <2>3 DEF Miss
  <2>4. CASE Drop(p, n)
    BY <2>4 DEF Drop, Write, Step, Kept, TypeOK, Caches, Empty
  <2>5. CASE Record(p, n)
    BY <2>5 DEF Record, Write, Step, Kept, TypeOK, Caches, Empty
  <2>6. CASE Flush(p, n)
    <3>1. file' = data[p] /\ UNCHANGED <<data, bins>>
      BY <2>6 DEF Flush, Step, Locked, LockedAt, TypeOK
    <3>0. PICK to \in {"fetch", "ok"} : task' = [task EXCEPT ![p][n] = to]
      BY <2>6 DEF Flush, Step
    <3>2. \A q \in Procs, m \in Names : task'[q][m] \in {"install", "built"} => task[q][m] = task'[q][m]
      BY <3>0 DEF TypeOK
    <3>3. QED
      BY <3>1, <3>2 DEF Kept
  <2>7. CASE Pull(p, n)
    BY <2>7 DEF Pull
  <2>8. CASE Keep(p, n)
    BY <2>8 DEF Keep
  <2>9. CASE CloneStarts(p, n)
    BY <2>9 DEF CloneStarts
  <2>10. CASE CloneEnds(p, n)
    BY <2>10 DEF CloneEnds
  <2>11. CASE Compile(p, n)
    <3>1. CASE UNCHANGED bins /\ \E to \in {"failed", "ok"} : Step(p, n, "build", to)
      BY <2>11, <3>1 DEF Compile
    <3>2. CASE bins' = [bins EXCEPT ![n] = Mixed] /\ Step(p, n, "build", "install")
      BY <2>11, <3>2, NotNothing DEF Compile, Step, Kept, TypeOK, lockVars
    <3>3. QED
      BY <2>11, <3>1, <3>2 DEF Compile
  <2>12. CASE Install(p, n)
    <3>1. CASE UNCHANGED bins /\ Step(p, n, "install", "failed")
      BY <2>12, <3>1 DEF Install
    <3>2. CASE bins' = [bins EXCEPT ![n] = Built(src[n], cmd[p].config)] /\ Step(p, n, "install", "built")
      <4>1. cmd[p].config # NoConfig
        BY <3>2, Commanded, BuildAssumption DEF Bid, Step
      <4>2. bins'[n] # Nothing
        BY <3>2, <4>1, NotNothing DEF TypeOK
      <4>3. QED
        BY <2>12, <3>2, <4>2 DEF Install, Step, Kept, TypeOK, lockVars
    <3>3. QED
      BY <2>12, <3>1, <3>2 DEF Install
  <2>13. CASE WriteRefused(p, n) \/ WriteFails(p, n)
    <3>1. \A q \in Procs, m \in Names : task'[q][m] \in {"install", "built"} => task[q][m] = task'[q][m]
      BY <2>13, UnsavedType DEF WriteRefused, WriteFails
    <3>2. \A q \in Procs, m \in Names :
            data'[q][m] # NoConfig => data[q][m] # NoConfig \/ task[q][m] = "built"
      <4>1. CASE task[p][n] = "built" /\ data' = [data EXCEPT ![p][n] = cmd[p].config]
        BY <4>1 DEF TypeOK, Caches
      <4>2. CASE data' = [data EXCEPT ![p][n] = NoConfig]
        BY <4>2 DEF TypeOK, Caches
      <4>3. CASE data' = data
        BY <4>3
      <4> QED BY <2>13, <4>1, <4>2, <4>3 DEF WriteRefused, WriteFails
    <3>3. UNCHANGED <<file, bins>>
      BY <2>13 DEF WriteRefused, WriteFails, disk
    <3> QED BY <3>1, <3>2, <3>3 DEF Kept
  <2>14. QED
    BY <1>4, <2>1, <2>2, <2>3, <2>4, <2>5, <2>6, <2>7, <2>8, <2>9, <2>10, <2>11, <2>12, <2>13 DEF Task
<1>5. ASSUME NEW n \in Names, UpstreamMoves(n) PROVE Kept'
  BY <1>5 DEF UpstreamMoves, Kept, lockVars
<1>6. CASE UNCHANGED vars
  BY <1>6 DEF vars, Kept
<1>7. QED
  BY <1>1, <1>2, <1>3, <1>4, <1>5, <1>6 DEF Next

\* Neither entries nor binaries at first, nor a command.
LEMMA FirstEntries == Init => Bid /\ Kept /\ Vouched
  BY DEF Init, Bid, Kept, Vouched, Changing, Empty

\* A task under way moved by a step of its own.
LEMMA TaskMoves ==
  ASSUME TypeOK, [Next]_vars, NEW p \in Procs, NEW n \in Names,
         task'[p][n] # task[p][n], task'[p][n] \notin {"off", "todo"}
  PROVE  Task(p, n)
<1>1. ASSUME NEW q \in Procs, Begin(q) \/ Finish(q) \/ Crash(q) PROVE FALSE
  BY <1>1 DEF Begin, Finish, Crash, TypeOK
<1>2. ASSUME NEW q \in Procs, NEW m \in Names, Task(q, m) PROVE q = p /\ m = n
  <2>1. CASE WriteRefused(q, m) \/ WriteFails(q, m)
    BY <2>1, UnsavedType DEF WriteRefused, WriteFails
  <2>2. CASE \E from, to : Step(q, m, from, to)
    BY <2>2 DEF Step, TypeOK
  <2>3. QED
    BY <1>2, <2>1, <2>2 DEF Task, Refuse, Hit, Miss, Drop, Record, Flush, Pull, Keep, CloneStarts, CloneEnds,
                Compile, Install
<1>3. ASSUME NEW m \in Names, UpstreamMoves(m) PROVE FALSE
  BY <1>3 DEF UpstreamMoves
<1>4. CASE UNCHANGED vars
  BY <1>4 DEF vars
<1>5. QED
  BY <1>1, <1>2, <1>3, <1>4 DEF Next

\* A benchmark's turn came: it is looked for in the cache, missed, or found.
LEMMA TodoStep ==
  ASSUME TypeOK, [Next]_vars, NEW p \in Procs, NEW n \in Names, task[p][n] = "todo"
  PROVE  /\ task'[p][n] = "fetch" => Miss(p, n)
         /\ task'[p][n] = "cached" => Hit(p, n)
<1>1. task'[p][n] \in {"fetch", "cached"} => Task(p, n)
  BY TaskMoves
<1>2. Refuse(p, n) => task'[p][n] = "failed"
  BY DEF Refuse, Step, TypeOK
<1>3. Drop(p, n) => task'[p][n] = "drop"
  BY DEF Drop, Step, TypeOK
<1>4. Miss(p, n) => task'[p][n] = "fetch"
  BY DEF Miss, Step, TypeOK
<1>5. Hit(p, n) => task'[p][n] = "cached"
  BY DEF Hit, Step, TypeOK
<1>6. Task(p, n) => Refuse(p, n) \/ Drop(p, n) \/ Miss(p, n) \/ Hit(p, n) \/ WriteRefused(p, n)
  BY DEF Task, Record, Flush, Pull, Keep, CloneStarts, CloneEnds, Compile, Install, WriteFails, Step
<1>7. WriteRefused(p, n) => task'[p][n] = "unsaved"
  BY UnsavedType DEF WriteRefused
<1>8. QED
  BY <1>1, <1>2, <1>3, <1>4, <1>5, <1>6, <1>7

\* With one process, what is recorded is not built again unless it is forced, for
\* any configurations, with updates and whatever failed or was killed before, where
\* the builder installs into <prefix>/bin.
THEOREM Skips ==
  ASSUME One
  PROVE  Spec => SkipsInBin
<1>1. TypeOK /\ Locked /\ Bid /\ Kept /\ [Next]_vars
        => [\A p \in Procs, n \in Names \ Elsewhere :
              cmd[p].verb = "run" /\ task[p][n] = "todo" /\ task'[p][n] = "fetch"
                => file[n] # cmd[p].config]_vars
  <2> SUFFICES ASSUME TypeOK, Locked, Bid, Kept, [Next]_vars, NEW p \in Procs,
                      NEW n \in Names \ Elsewhere,
                      cmd[p].verb = "run", task[p][n] = "todo", task'[p][n] = "fetch",
                      file[n] = cmd[p].config
               PROVE  FALSE
    OBVIOUS
  <2>1. cmd[p] # Idle /\ cmd[p].config # NoConfig
    BY Commanded, BuildAssumption DEF Bid
  <2>2. data[p][n] = cmd[p].config /\ bins[n] # Nothing
    BY <2>1, FileOf DEF Kept
  <2>3. Miss(p, n)
    BY TodoStep
  <2>4. QED
    BY <2>2, <2>3 DEF Miss, Cached
<1>2. QED
  BY <1>1, FirstEntries, LockedInit, LockedStep, BidStep, KeptStep, Typing, PTL DEF Spec, SkipsInBin

\* A step that leaves cache, source and binaries alone and takes a task to where
\* nothing need be known of it, or on to where the same is known.
LEMMA VouchedQuiet ==
  ASSUME TypeOK, Vouched, NEW p \in Procs, NEW n \in Names, NEW from, NEW to \in Tasks \ {"built"},
         \/ to \notin {"drop", "fetch", "clone", "build", "install"}
         \/ Changing(p, n)
         \/ to = "fetch" /\ cmd[p].verb = "update"
         \/ n \notin Elsewhere \cup moved => data[p][n] = NoConfig,
         Step(p, n, from, to), UNCHANGED <<cmd, data, file, src, bins, moved>>
  PROVE  Vouched'
<1>1. task'[p][n] = to /\ \A q \in Procs, m \in Names : <<q, m>> # <<p, n>> => task'[q][m] = task[q][m]
  BY DEF TypeOK, Step
<1>2. Changing(p, n)' => Changing(p, n) \/ (n \notin Elsewhere \cup moved => data[p][n] = NoConfig)
  BY <1>1 DEF Changing, Step
<1>3. \A q \in Procs, m \in Names : <<q, m>> # <<p, n>> => (Changing(q, m)' <=> Changing(q, m))
  BY <1>1 DEF Changing
<1> QED BY <1>1, <1>2, <1>3 DEF Vouched

\* A step that changes source or binaries of a benchmark without an entry.
LEMMA VouchedChange ==
  ASSUME TypeOK, Locked, Vouched, NEW p \in Procs, One, NEW n \in Names,
         NEW from, NEW to \in Tasks, Step(p, n, from, to), from # "off",
         Changing(p, n) \/ n \in moved',
         to = "built" => bins'[n] = Built(src'[n], cmd'[p].config),
         \A m \in Names \ {n} : src'[m] = src[m] /\ bins'[m] = bins[m],
         moved' \in {moved, moved \cup {n}}, UNCHANGED <<cmd, data, file>>
  PROVE  Vouched'
<1>1. \A q \in Procs : q = p
  BY DEF One
<1>2. cmd[p] # Idle
  BY Commanded DEF Step
<1>3. task[p][n] # "unsaved" => n \in Elsewhere \cup moved' \/ (data[p][n] = NoConfig /\ file[n] = NoConfig)
  BY <1>2, FileOf DEF Vouched
<1>4. task'[p][n] = to /\ \A m \in Names \ {n} : task'[p][m] = task[p][m]
  BY DEF Step, TypeOK
<1>5. Changing(p, n) => task[p][n] # "unsaved"
  BY DEF Changing
<1>6. ASSUME NEW m \in Names \ (Elsewhere \cup moved')
      PROVE  /\ file[m] # NoConfig => bins'[m] = Built(src'[m], file[m])
             /\ data[p][m] # NoConfig => bins'[m] = Built(src'[m], data[p][m])
             /\ Changing(p, m)' => data[p][m] = NoConfig
  <2>1. CASE m = n
    BY <1>3, <1>5, <1>6, <2>1
  <2>2. CASE m # n
    <3>1. Changing(p, m)' <=> Changing(p, m)
      BY <1>4, <2>2 DEF Changing
    <3> QED BY <1>6, <2>2, <3>1 DEF Vouched
  <2>3. QED
    BY <2>1, <2>2
<1>7. ASSUME NEW m \in Names, task'[p][m] = "built" PROVE bins'[m] = Built(src'[m], cmd'[p].config)
  BY <1>4, <1>7 DEF Vouched
<1>8. QED
  BY <1>1, <1>6, <1>7 DEF Vouched

\* With one configuration, a benchmark that build run looks for and misses has no
\* entry: were there one, its binaries would be there.
LEMMA MissedIsUnknown ==
  ASSUME TypeOK, Locked, Bid, Vouched, \A c, d \in Configs : c = d,
         NEW p \in Procs, NEW n \in Names \ (Elsewhere \cup moved), Miss(p, n), cmd[p].verb # "update"
  PROVE  data[p][n] = NoConfig
<1>1. cmd[p] # Idle /\ cmd[p].config \in Configs
  BY Commanded DEF Miss, Step, Bid
<1>2. ~Cached(p, n)
  BY DEF Miss
<1>3. CASE data[p][n] # NoConfig
  <2>1. data[p][n] = cmd[p].config
    BY <1>1, <1>3 DEF TypeOK, Caches
  <2>2. bins[n] # Nothing
    BY <1>3, NotNothing DEF Vouched
  <2>3. QED
    BY <1>2, <2>1, <2>2 DEF Cached
<1>4. QED
  BY <1>3

\* A step that writes an entry for what is installed, or none.
LEMMA WrittenVouches ==
  ASSUME One, TypeOK, Vouched, NEW p \in Procs, NEW n \in Names,
         NEW entry \in Configs \cup {NoConfig}, NEW to \in {"drop", "flush"},
         task' = [task EXCEPT ![p][n] = to], Write(p, n, entry), UNCHANGED <<cmd, src, bins>>,
         entry = NoConfig \/ (to = "flush" /\ bins[n] = Built(src[n], entry))
  PROVE  Vouched'
<1>1. /\ task'[p][n] = to /\ \A m \in Names \ {n} : task'[p][m] = task[p][m]
      /\ data'[p][n] = entry /\ \A m \in Names \ {n} : data'[p][m] = data[p][m]
      /\ file' = Empty /\ moved' = moved \ {n} /\ \A q \in Procs : q = p
  BY DEF Write, TypeOK, Caches, One
<1>2. \A m \in Names : Changing(p, m)' => Changing(p, m) \/ (m = n /\ to = "drop")
  BY <1>1 DEF Changing
<1> QED BY <1>1, <1>2 DEF Vouched, Empty, Changing

\* Entries vouch for what is installed: they go before it changes, and come
\* after it is whole.
LEMMA VouchedStep ==
  ASSUME One, \A c, d \in Configs : c = d
  PROVE  TypeOK /\ Locked /\ Bid /\ Vouched /\ [Next]_vars => Vouched'
<1> SUFFICES ASSUME TypeOK, Locked, Bid, Vouched, [Next]_vars PROVE Vouched'
  OBVIOUS
<1>1. ASSUME NEW p \in Procs, Begin(p) PROVE Vouched'
  BY <1>1 DEF Begin, Vouched, Changing, TypeOK, disk
<1>2. ASSUME NEW p \in Procs, Finish(p) PROVE Vouched'
  BY <1>2 DEF Finish, Vouched, Changing, TypeOK, disk, Empty
<1>3. ASSUME NEW p \in Procs, Crash(p) PROVE Vouched'
  BY <1>3 DEF Crash, Vouched, Changing, TypeOK, disk, Empty
<1>4. ASSUME NEW p \in Procs, NEW n \in Names, Task(p, n) PROVE Vouched'
  <2> USE DEF Tasks, Active, Over
  <2>1. CASE Refuse(p, n)
    BY <2>1, VouchedQuiet DEF Refuse, lockVars
  <2>2. CASE Hit(p, n)
    BY <2>2, VouchedQuiet DEF Hit, lockVars
  <2>3. CASE Miss(p, n)
    <3>1. cmd[p].verb = "update" \/ (n \notin Elsewhere \cup moved => data[p][n] = NoConfig)
      BY <2>3, MissedIsUnknown
    <3>2. QED
      BY <2>3, <3>1, VouchedQuiet DEF Miss, lockVars
  <2>4. CASE Drop(p, n)
    BY <2>4, WrittenVouches DEF Drop, Step
  <2>5. CASE Record(p, n)
    <3>1. cmd[p].config \in Configs \cup {NoConfig} /\ bins[n] = Built(src[n], cmd[p].config)
      BY <2>5 DEF Record, Step, Vouched, TypeOK
    <3> QED BY <2>5, <3>1, WrittenVouches DEF Record, Step
  <2>6. CASE Flush(p, n)
    <3>1. file' = data[p] /\ UNCHANGED <<cmd, data, src, bins, moved>>
      BY <2>6 DEF Flush, Step, Locked, LockedAt, TypeOK
    <3>2. task[p][n] \in {"drop", "flush"} /\ \A m \in Names \ {n} : task'[p][m] = task[p][m]
      BY <2>6 DEF Flush, Step, TypeOK
    <3>3. task'[p][n] = "fetch" => task[p][n] = "drop"
      BY <2>6 DEF Flush, Step, TypeOK
    <3>4. task'[p][n] \in {"fetch", "ok"} /\ \A q \in Procs : q = p
      BY <2>6 DEF Flush, Step, TypeOK, One
    <3>5. \A m \in Names : Changing(p, m)' => Changing(p, m)
      BY <3>1, <3>2, <3>3, <3>4 DEF Changing
    <3>6. QED
      BY <3>1, <3>2, <3>4, <3>5 DEF Vouched
  <2>7. CASE Pull(p, n)
    <3>1. PICK to \in {"ok", "failed", "build"} : Step(p, n, "fetch", to)
      BY <2>7 DEF Pull
    <3>2. cmd[p].verb = "update" /\ UNCHANGED <<cmd, data, file, bins>>
      BY <2>7 DEF Pull
    <3>3. src' = src \/ src' = Pulled(n)
      BY <2>7 DEF Pull
    <3>4. \A m \in Names \ {n} : src'[m] = src[m]
      BY <3>3 DEF Pulled, TypeOK
    <3>5. moved' = IF src' # src \/ to = "build" THEN moved \cup {n} ELSE moved
      BY <2>7, <3>1 DEF Pull, Step, TypeOK
    <3>6. CASE src' # src \/ to = "build"
      BY <3>1, <3>2, <3>4, <3>5, <3>6, VouchedChange
    <3>7. CASE ~(src' # src \/ to = "build")
      BY <3>1, <3>2, <3>5, <3>7, VouchedQuiet
    <3> QED BY <3>6, <3>7
  <2>8. CASE Keep(p, n)
    <3>1. Changing(p, n)
      BY <2>8 DEF Keep, Step, Changing
    <3> QED BY <2>8, <3>1, VouchedQuiet DEF Keep, lockVars
  <2>9. CASE CloneStarts(p, n)
    <3>1. PICK to \in {"clone", "failed"} : Step(p, n, "fetch", to)
      BY <2>9 DEF CloneStarts
    <3>2. \A m \in Names \ {n} : src'[m] = src[m]
      BY <2>9 DEF CloneStarts, TypeOK
    <3>3. Changing(p, n)
      BY <2>9, <3>1 DEF CloneStarts, Step, Changing
    <3>4. QED
      BY <2>9, <3>1, <3>2, <3>3, VouchedChange DEF CloneStarts, lockVars
  <2>10. CASE CloneEnds(p, n)
    <3>1. PICK to \in {"build", "failed"} : Step(p, n, "clone", to)
      BY <2>10 DEF CloneEnds
    <3>2. \A m \in Names \ {n} : src'[m] = src[m]
      BY <2>10 DEF CloneEnds, TypeOK
    <3>3. Changing(p, n)
      BY <3>1 DEF Step, Changing
    <3>4. QED
      BY <2>10, <3>1, <3>2, <3>3, VouchedChange DEF CloneEnds, lockVars
  <2>11. CASE Compile(p, n)
    <3>1. PICK to \in {"failed", "ok", "install"} : Step(p, n, "build", to)
      BY <2>11 DEF Compile
    <3>2. \A m \in Names \ {n} : bins'[m] = bins[m]
      BY <2>11 DEF Compile, TypeOK
    <3>3. Changing(p, n)
      BY <3>1 DEF Step, Changing
    <3>4. QED
      BY <2>11, <3>1, <3>2, <3>3, VouchedChange DEF Compile, lockVars
  <2>12. CASE Install(p, n)
    <3>1. CASE Step(p, n, "install", "failed") /\ UNCHANGED bins
      BY <2>12, <3>1, VouchedQuiet DEF Install, lockVars
    <3>2. CASE Step(p, n, "install", "built") /\ bins' = [bins EXCEPT ![n] = Built(src[n], cmd[p].config)]
      <4>1. bins'[n] = Built(src[n], cmd[p].config) /\ \A m \in Names \ {n} : bins'[m] = bins[m]
        BY <3>2 DEF TypeOK
      <4>2. Changing(p, n)
        BY <3>2 DEF Step, Changing
      <4>3. QED
        BY <2>12, <3>2, <4>1, <4>2, VouchedChange DEF Install, lockVars
    <3>3. QED
      BY <2>12, <3>1, <3>2 DEF Install
  <2>13. CASE WriteRefused(p, n) \/ WriteFails(p, n)
    <3>1. UNCHANGED <<cmd, file, src, bins, moved>>
      BY <2>13 DEF WriteRefused, WriteFails, disk
    <3>2. /\ task'[p][n] = "unsaved" /\ \A q \in Procs : q = p
          /\ \A m \in Names \ {n} : task'[p][m] = task[p][m] \/ task'[p][m] = "off"
      BY <2>13, UnsavedType DEF WriteRefused, WriteFails, One
    <3>3. /\ \A m \in Names \ {n} : data'[p][m] = data[p][m]
          /\ \/ data'[p][n] \in {data[p][n], NoConfig}
             \/ task[p][n] = "built" /\ data'[p][n] = cmd[p].config
      BY <2>13 DEF WriteRefused, WriteFails, TypeOK, Caches
    <3>4. \A m \in Names : Changing(p, m)' => m # n /\ Changing(p, m)
      BY <3>1, <3>2 DEF Changing
    <3> QED BY <3>1, <3>2, <3>3, <3>4 DEF Vouched
  <2>14. QED
    BY <1>4, <2>1, <2>2, <2>3, <2>4, <2>5, <2>6, <2>7, <2>8, <2>9, <2>10, <2>11, <2>12, <2>13 DEF Task
<1>5. ASSUME NEW n \in Names, UpstreamMoves(n) PROVE Vouched'
  BY <1>5 DEF UpstreamMoves, Vouched, Changing, lockVars
<1>6. CASE UNCHANGED vars
  BY <1>6 DEF vars, Vouched, Changing
<1>7. QED
  BY <1>1, <1>2, <1>3, <1>4, <1>5, <1>6 DEF Next

\* With one process and one configuration, what is passed over as up-to-date was
\* built from the source as it is, whatever failed or was killed before, unless build
\* update has moved the source since the entry was written.
THEOREM Current ==
  ASSUME One, \A c, d \in Configs : c = d
  PROVE  Spec => CurrentUnlessMoved
<1>1. TypeOK /\ Locked /\ Bid /\ Vouched /\ [Next]_vars
        => [\A p \in Procs, n \in Names \ moved :
              task[p][n] = "todo" /\ task'[p][n] = "cached"
                => bins[n] = Built(src[n], cmd[p].config)]_vars
  <2> SUFFICES ASSUME TypeOK, Locked, Bid, Vouched, [Next]_vars, NEW p \in Procs, NEW n \in Names \ moved,
                      task[p][n] = "todo", task'[p][n] = "cached"
               PROVE  bins[n] = Built(src[n], cmd[p].config)
    OBVIOUS
  <2>1. Cached(p, n)
    BY TodoStep DEF Hit
  <2>2. cmd[p].config # NoConfig
    BY Commanded, BuildAssumption DEF Bid
  <2>3. QED
    BY <2>1, <2>2 DEF Cached, Vouched
<1>2. QED
  BY <1>1, FirstEntries, LockedInit, LockedStep, BidStep, VouchedStep, Typing, PTL
     DEF Spec, CurrentUnlessMoved
================================================================================
