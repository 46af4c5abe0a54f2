----------------------------- MODULE Heartbeat_proofs -----------------------------
(***************************************************************************)
(* Proofs about the two programs that meet at the heartbeat file, the job  *)
(* script that writes it (JobScript) and the watcher that reads it         *)
(* (Watch): for every Interval, StaleFactor, KillCap, MaxLag, AgeCap and   *)
(* set of scratch directories, the invariants of JobScript and that it     *)
(* implements JobLife; for any set of jobs run any number of times, that   *)
(* what --follow reports of a job that ran once is true of its one run.    *)
(*                                                                         *)
(* The argument for the script: where each process can be while the other  *)
(* one is at a given command (LastWord, Swept, Beating), and how far the   *)
(* ages are apart while the loop is at a given command (Ages).             *)
(*                                                                         *)
(* The argument for the watcher: its knowledge is old when it uses it; what *)
(* it has read (text), and what it has concluded (seen), must imply        *)
(* something about the job that the job's own steps keep true.             *)
(***************************************************************************)
EXTENDS JobScript, Watch, TLAPS

--------------------------------------------------------------------------------
(* Types *)

\* A TERM leaves the loop at one of its commands.
LEMMA TermLoopType ==
  ASSUME TypeOK, TermLoop
  PROVE  loop' \in LoopPCs /\ term' \in BOOLEAN
  BY DEF TypeOK, TermLoop, NoLoop, LoopPCs

\* The variables stay in their types; in particular the attempts of the kill
\* loop stay below its cap and a loop never sleeps past its interval and lag.
THEOREM Typing == Spec => []TypeOK
<1>1. Init => TypeOK
  <2> SUFFICES ASSUME Init PROVE TypeOK
    OBVIOUS
  <2>1. pend \in BOOLEAN /\ pid \in BOOLEAN /\ owned \in BOOLEAN /\ term \in BOOLEAN /\ capped \in BOOLEAN
    BY DEF Init
  <2>2. kills \in 0..KillCap /\ age \in 0..AgeCap /\ orphan \in 0..AgeCap /\ since \in 0..(Interval + MaxLag)
    BY JobAssumption, StatusAssumption DEF Init
  <2>3. QED
    BY <2>1, <2>2 DEF Init, TypeOK, ShellPCs, Before, LoopPCs, Files
<1>2. TypeOK /\ [Next]_vars => TypeOK'
  <2> SUFFICES ASSUME TypeOK, [Next]_vars PROVE TypeOK'
    OBVIOUS
  <2> USE JobAssumption, StatusAssumption
      DEF ShellPCs, Before, Trapped, Cleaning, LoopPCs, Files, Alive, Exited
  <2>1. CASE Launch
    BY <2>1 DEF Launch, TypeOK, Goto, history, loopVars, work, timeVars
  <2>2. CASE Startup
    <3>1. owned' \in BOOLEAN /\ pid' \in BOOLEAN
      BY <2>2 DEF Startup, ChangeDir, HeartbeatOff, OpenStarted, WriteStarted, ForkLoop, KeepPid,
                  Disown, TypeOK
    <3>2. QED
      BY <2>2, <3>1 DEF Startup, ChangeDir, HeartbeatOff, OpenStarted, WriteStarted, ForkLoop, KeepPid,
                Disown, Put, TypeOK, Goto, history, loopVars, work, timeVars
  <2>3. CASE TakeTrap
    <3>1. pend' \in BOOLEAN
      BY <2>3 DEF TakeTrap
    <3>2. QED
      BY <2>3, <3>1 DEF TakeTrap, TypeOK, history, loopVars, work, timeVars
  <2>4. ASSUME NEW d \in Dirs, MakeDir(d) \/ RegisterDir(d) PROVE TypeOK'
    BY <2>4 DEF MakeDir, RegisterDir, TypeOK, Goto, history, loopVars, work, timeVars
  <2>5. CASE StartBackground
    BY <2>5 DEF StartBackground, TypeOK, shellVars, history, loopVars, timeVars
  <2>6. ASSUME NEW status \in {0, 1}, BodyEnd(status) PROVE TypeOK'
    BY <2>6 DEF BodyEnd, TypeOK, Goto, history, loopVars, work, timeVars
  <2>7. CASE Cleanup
    <3>1. CASE EnterCleanup
      BY <3>1 DEF EnterCleanup, TypeOK, Goto, history, loopVars, work, timeVars
    <3>2. CASE KillAgain
      BY <3>2, TermLoopType DEF KillAgain, TypeOK, history, loopVars, work, timeVars
    <3>3. CASE KillDone
      <4>1. pc' \in ShellPCs /\ pid' \in BOOLEAN
        BY <3>3 DEF KillDone, Goto
      <4>2. UNCHANGED <<rc, pend, owned, kills, death, capped, loop, term, file, dirs, bg, age, since, orphan>>
        BY <3>3 DEF KillDone, history, loopVars, work, timeVars
      <4> HIDE DEF ShellPCs, LoopPCs, Files
      <4> QED BY <4>1, <4>2 DEF TypeOK
    <3>4. CASE KillGivesUp
      <4>1. loop' \in LoopPCs /\ term' \in BOOLEAN
        BY <3>4, TermLoopType DEF KillGivesUp
      <4>2. pc' \in ShellPCs /\ pid' \in BOOLEAN /\ capped' \in BOOLEAN
        BY <3>4 DEF KillGivesUp, Goto
      <4>3. UNCHANGED <<rc, pend, owned, kills, death, file, dirs, bg, age, since, orphan>>
        BY <3>4 DEF KillGivesUp, work, timeVars
      <4> HIDE DEF ShellPCs, LoopPCs, Files
      <4> QED BY <4>1, <4>2, <4>3 DEF TypeOK
    <3>5. CASE OpenExited \/ WriteExited
      BY <3>5 DEF OpenExited, WriteExited, Put, TypeOK, Goto, history, loopVars, work, timeVars
    <3>6. CASE KillJobs
      BY <3>6, TermLoopType DEF KillJobs, TypeOK, Goto, history, work, timeVars
    <3>7. CASE WaitJobs \/ Finish
      BY <3>7 DEF WaitJobs, Finish, TypeOK, Goto, history, loopVars, work, timeVars
    <3>8. ASSUME NEW d \in Dirs, RemoveDir(d) PROVE TypeOK'
      BY <3>8 DEF RemoveDir, TypeOK, shellVars, history, loopVars, timeVars
    <3>9. QED BY <2>7, <3>1, <3>2, <3>3, <3>4, <3>5, <3>6, <3>7, <3>8 DEF Cleanup
  <2>8. CASE Loop
    BY <2>8 DEF Loop, LoopReady, LoopWake, LoopCheck, LoopOpen, LoopWrite, LoopTerm, LoopStep, Put,
                TypeOK, shellVars, history, work, timeVars
  <2>9. CASE BackgroundEnds
    BY <2>9 DEF BackgroundEnds, TypeOK, shellVars, history, loopVars, timeVars
  <2>10. CASE Signal \/ Kill9 \/ NodeDies
    <3>1. pend' \in BOOLEAN
      BY <2>10 DEF Signal, Kill9, NodeDies, TypeOK
    <3>2. QED
      BY <2>10, <3>1 DEF Signal, Kill9, NodeDies, TypeOK, history, loopVars, work, timeVars
  <2>11. CASE Tick
    BY <2>11 DEF Tick, OneMore, NoLoop, TypeOK, shellVars, history, loopVars, work
  <2>12. CASE UNCHANGED vars
    BY <2>12 DEF TypeOK, vars, shellVars, history, loopVars, work, timeVars
  <2>13. QED
    BY <2>1, <2>2, <2>3, <2>4, <2>5, <2>6, <2>7, <2>8, <2>9, <2>10, <2>11, <2>12 DEF Next
<1>3. QED
  BY <1>1, <1>2, PTL DEF Spec

--------------------------------------------------------------------------------
(* The exit line stays *)

\* Past the kill loop the heartbeat loop is gone, unless the shell gave up on
\* it, and an exit line is in the file only from there on.  Inductive.
LastWord ==
  /\ file \in Exited => pc \in {"reap", "wait", "rm", "dead"}
  /\ ~capped /\ (pc \in {"gone", "reopened"} \/ file \in Exited) => loop = "gone"

\* Every step of shell, loop and environment keeps LastWord.
LEMMA LastWordStep == LastWord /\ [Next]_vars => LastWord'
<1> SUFFICES ASSUME LastWord, [Next]_vars PROVE LastWord'
  OBVIOUS
<1> USE DEF Exited
<1>1. CASE Launch \/ Startup
  BY <1>1 DEF Launch, Startup, ChangeDir, HeartbeatOff, OpenStarted, WriteStarted, ForkLoop,
              KeepPid, Disown, Put, LastWord, Goto, history, loopVars
<1>2. CASE TakeTrap
  BY <1>2 DEF TakeTrap, Trapped, LastWord, history, loopVars
<1>3. ASSUME NEW d \in Dirs, MakeDir(d) \/ RegisterDir(d) PROVE LastWord'
  BY <1>3 DEF MakeDir, RegisterDir, LastWord, Goto, history, loopVars
<1>4. ASSUME NEW status \in {0, 1}, BodyEnd(status) PROVE LastWord'
  BY <1>4 DEF BodyEnd, LastWord, Goto, history, loopVars
<1>5. CASE StartBackground \/ BackgroundEnds \/ Tick
  BY <1>5 DEF StartBackground, BackgroundEnds, Tick, LastWord, shellVars, history, loopVars
<1>6. CASE Cleanup
  <2>1. CASE EnterCleanup \/ KillDone \/ WaitJobs \/ Finish
    BY <2>1 DEF EnterCleanup, KillDone, WaitJobs, Finish, LastWord, Goto, history, loopVars
  <2>2. CASE KillAgain \/ KillGivesUp \/ KillJobs
    BY <2>2 DEF KillAgain, KillGivesUp, KillJobs, TermLoop, NoLoop, LastWord, Goto, history, loopVars
  <2>3. CASE OpenExited \/ WriteExited
    BY <2>3 DEF OpenExited, WriteExited, Put, LastWord, Goto, history, loopVars
  <2>4. ASSUME NEW d \in Dirs, RemoveDir(d) PROVE LastWord'
    BY <2>4 DEF RemoveDir, LastWord, shellVars, history, loopVars
  <2>5. QED BY <1>6, <2>1, <2>2, <2>3, <2>4 DEF Cleanup
<1>7. CASE Loop
  BY <1>7 DEF Loop, LoopReady, LoopWake, LoopCheck, LoopOpen, LoopWrite, LoopTerm, LoopStep, Put,
              LastWord, shellVars, history
<1>8. CASE Signal \/ Kill9 \/ NodeDies
  BY <1>8 DEF Signal, Kill9, NodeDies, Trapped, Cleaning, LastWord, loopVars
<1>9. CASE UNCHANGED vars
  BY <1>9 DEF LastWord, vars, shellVars, history, loopVars
<1>10. QED
  BY <1>1, <1>2, <1>3, <1>4, <1>5, <1>6, <1>7, <1>8, <1>9 DEF Next

\* No interleaving of the shell's cleanup with the heartbeat loop, no signal and
\* no kill overwrites an exit line, as long as the kill loop did not give up
\* (common_header.in:154-168).
THEOREM ExitLine == Spec => ExitLineStays
<1>1. Init => LastWord
  BY DEF Init, LastWord, Exited
<1>2. LastWord /\ [Next]_vars => [~capped /\ file \in Exited => file' = file]_vars
  <2> SUFFICES ASSUME LastWord, Next, ~capped, file \in Exited PROVE file' = file
    BY DEF vars, shellVars, history, loopVars, work, timeVars
  <2>1. loop = "gone" /\ pc \in {"reap", "wait", "rm", "dead"}
    BY DEF LastWord
  <2>2. CASE Cleanup
    BY <2>1, <2>2 DEF Cleanup, EnterCleanup, KillAgain, KillDone, KillGivesUp, OpenExited, WriteExited,
                      KillJobs, WaitJobs, RemoveDir, Finish, Goto
  <2>3. CASE Launch \/ Startup
    BY <2>1, <2>3 DEF Launch, Startup, ChangeDir, HeartbeatOff, OpenStarted, WriteStarted, ForkLoop,
                      KeepPid, Disown, Goto
  <2>4. CASE Loop
    BY <2>1, <2>4 DEF Loop, LoopReady, LoopWake, LoopCheck, LoopOpen, LoopWrite, LoopTerm, LoopStep
  <2>5. QED
    BY <2>2, <2>3, <2>4 DEF Next, TakeTrap, MakeDir, RegisterDir, StartBackground, BodyEnd,
                            BackgroundEnds, Signal, Kill9, NodeDies, Tick
<1>3. QED
  BY <1>1, <1>2, LastWordStep, PTL DEF Spec, ExitLineStays

--------------------------------------------------------------------------------
(* Scratch directories *)

\* Before its removal starts nobody is writing into a directory any more, so
\* no removal fails.  Inductive.
Swept ==
  /\ pc \in Before => \A d \in Dirs : dirs[d] = "none"
  /\ pc = "rm" => bg = "off"
  /\ \A d \in Dirs : dirs[d] # "left"
  /\ pc = "dead" /\ death = "none" => \A d \in Dirs : dirs[d] # "registered"

\* Every step keeps Swept.
LEMMA SweptStep == TypeOK /\ Swept /\ [Next]_vars => Swept'
<1> SUFFICES ASSUME TypeOK, Swept, [Next]_vars PROVE Swept'
  OBVIOUS
<1> USE DEF Before
<1>1. CASE Launch \/ Startup
  BY <1>1 DEF Launch, Startup, ChangeDir, HeartbeatOff, OpenStarted, WriteStarted, ForkLoop,
              KeepPid, Disown, Swept, Goto, history, work
<1>2. CASE TakeTrap
  BY <1>2 DEF TakeTrap, Swept, history, work
<1>3. ASSUME NEW d \in Dirs, MakeDir(d) \/ RegisterDir(d) PROVE Swept'
  BY <1>3 DEF MakeDir, RegisterDir, TypeOK, Swept, Goto, history
<1>4. ASSUME NEW status \in {0, 1}, BodyEnd(status) PROVE Swept'
  BY <1>4 DEF BodyEnd, Swept, Goto, history, work
<1>5. CASE StartBackground \/ BackgroundEnds \/ Tick
  BY <1>5 DEF StartBackground, BackgroundEnds, Tick, Swept, shellVars, history, work
<1>6. CASE Cleanup
  <2>1. ASSUME NEW d \in Dirs, RemoveDir(d) PROVE Swept'
    BY <2>1 DEF RemoveDir, TypeOK, Swept, shellVars, history
  <2>2. CASE Finish
    BY <2>2 DEF Finish, Swept, Goto, history, work
  <2>3. CASE WaitJobs
    BY <2>3 DEF WaitJobs, Swept, Goto, history, work
  <2>4. CASE EnterCleanup \/ KillAgain \/ KillDone \/ KillGivesUp \/ OpenExited \/ WriteExited \/ KillJobs
    BY <2>4 DEF EnterCleanup, KillAgain, KillDone, KillGivesUp, OpenExited, WriteExited, KillJobs,
                Swept, Goto, history, work
  <2>5. QED BY <1>6, <2>1, <2>2, <2>3, <2>4 DEF Cleanup
<1>7. CASE Loop
  BY <1>7 DEF Loop, LoopReady, LoopWake, LoopCheck, LoopOpen, LoopWrite, LoopTerm, Swept,
              shellVars, history, work
<1>8. CASE Signal \/ Kill9 \/ NodeDies
  BY <1>8 DEF Signal, Kill9, NodeDies, Swept, work
<1>9. CASE UNCHANGED vars
  BY <1>9 DEF Swept, vars, shellVars, history, work
<1>10. QED
  BY <1>1, <1>2, <1>3, <1>4, <1>5, <1>6, <1>7, <1>8, <1>9 DEF Next

\* A script that reached the end of its EXIT trap left no registered directory
\* behind, whatever ran in the background (common_header.in:77-95).
THEOREM Scratch == Spec => []ScratchRemoved
<1>1. Init => Swept
  BY DEF Init, Swept
<1>2. TypeOK /\ Swept => ScratchRemoved
  BY DEF TypeOK, Swept, ScratchRemoved
<1>3. QED
  BY <1>1, <1>2, Typing, SweptStep, PTL DEF Spec

--------------------------------------------------------------------------------
(* Where the two processes are *)

\* Until its benchmark is over the shell has a loop unless the heartbeat is
\* off, and has sent it no TERM.  Inductive.
Beating ==
  /\ pc \in Before \cup {"header"} => file = "absent"
  /\ pc \in Before \cup {"header", "opened", "noted"} => loop = "none"
  /\ pc = "noted" => age = 0
  /\ pc \in Before \cup Trapped \cup {"opened", "exit"} => ~term /\ loop # "gone"
  /\ pc \in {"forked", "kept"} => loop # "none"
  /\ pc \in {"body", "mkdir"} /\ loop = "none" => file = "absent"

\* Every step keeps Beating.
LEMMA BeatingStep == TypeOK /\ Beating /\ [Next]_vars => Beating'
<1> SUFFICES ASSUME TypeOK, Beating, [Next]_vars PROVE Beating'
  OBVIOUS
<1> USE DEF Before, Trapped
<1>1. CASE Launch \/ Startup
  BY <1>1 DEF Launch, Startup, ChangeDir, HeartbeatOff, OpenStarted, WriteStarted, ForkLoop,
              KeepPid, Disown, Put, Beating, Goto, history, loopVars, timeVars
<1>2. CASE TakeTrap
  BY <1>2 DEF TakeTrap, Beating, history, loopVars, timeVars
<1>3. ASSUME NEW d \in Dirs, MakeDir(d) \/ RegisterDir(d) PROVE Beating'
  BY <1>3 DEF MakeDir, RegisterDir, Beating, Goto, history, loopVars, timeVars
<1>4. ASSUME NEW status \in {0, 1}, BodyEnd(status) PROVE Beating'
  BY <1>4 DEF BodyEnd, Beating, Goto, history, loopVars, timeVars
<1>5. CASE StartBackground \/ BackgroundEnds \/ Tick
  BY <1>5 DEF StartBackground, BackgroundEnds, Tick, Beating, shellVars, history, loopVars, timeVars
<1>6. CASE Cleanup
  <2>1. pc \in Cleaning \cup {"exit"} /\ pc' \in Cleaning \cup {"dead"}
    BY <1>6 DEF Cleanup, EnterCleanup, KillAgain, KillDone, KillGivesUp, OpenExited, WriteExited,
                KillJobs, WaitJobs, RemoveDir, Finish, Goto, Cleaning, shellVars
  <2>2. QED BY <2>1 DEF Cleaning, Beating
<1>7. CASE Loop
  BY <1>7 DEF Loop, LoopReady, LoopWake, LoopCheck, LoopOpen, LoopWrite, LoopTerm, LoopStep, Put,
              Beating, shellVars, history
<1>8. CASE Signal \/ Kill9 \/ NodeDies
  BY <1>8 DEF Signal, Kill9, NodeDies, Cleaning, Beating, loopVars, timeVars
<1>9. CASE UNCHANGED vars
  BY <1>9 DEF Beating, vars, shellVars, history, loopVars, timeVars
<1>10. QED
  BY <1>1, <1>2, <1>3, <1>4, <1>5, <1>6, <1>7, <1>8, <1>9 DEF Next

\* How far the ages are apart at each command of the loop.  Inductive.
Ages ==
  /\ pc # "dead" => orphan = 0
  /\ loop = "setup" => since <= MaxLag /\ orphan <= since /\ age <= since
  /\ loop \in {"sleep", "check", "render"} => age <= since + MaxLag
  /\ loop \in {"sleep", "check"} => orphan <= since + MaxLag
  /\ loop \in {"check", "render", "write"} => since >= Interval
  /\ loop \in {"render", "write"} => orphan + Interval <= since
  /\ loop = "write" => file \notin Alive
  /\ file # "absent" => orphan <= age + MaxLag

\* Every step keeps Ages, given where the loop can be.
LEMMA AgesStep == TypeOK /\ Beating /\ Ages /\ [Next]_vars => Ages'
<1> SUFFICES ASSUME TypeOK, Beating, Ages, [Next]_vars PROVE Ages'
  OBVIOUS
<1> USE DEF Before, Trapped, Alive
<1>a. /\ age \in Nat /\ since \in Nat /\ orphan \in Nat
      /\ since <= Interval + MaxLag
      /\ Interval \in Nat /\ MaxLag \in Nat /\ AgeCap \in Nat
  BY JobAssumption, StatusAssumption DEF TypeOK
<1>1. CASE Launch \/ Startup
  BY <1>1, <1>a DEF Launch, Startup, ChangeDir, HeartbeatOff, OpenStarted, WriteStarted, ForkLoop,
              KeepPid, Disown, Put, Beating, Ages, Goto, history, loopVars, timeVars
<1>2. CASE TakeTrap
  BY <1>2 DEF TakeTrap, Ages, history, loopVars, timeVars
<1>3. ASSUME NEW d \in Dirs, MakeDir(d) \/ RegisterDir(d) PROVE Ages'
  BY <1>3 DEF MakeDir, RegisterDir, Ages, Goto, history, loopVars, timeVars
<1>4. ASSUME NEW status \in {0, 1}, BodyEnd(status) PROVE Ages'
  BY <1>4 DEF BodyEnd, Ages, Goto, history, loopVars, timeVars
<1>5. CASE StartBackground \/ BackgroundEnds
  BY <1>5 DEF StartBackground, BackgroundEnds, Ages, shellVars, history, loopVars, timeVars
<1>6. CASE Cleanup
  <2>1. CASE EnterCleanup \/ KillDone \/ WaitJobs \/ Finish
    BY <2>1 DEF EnterCleanup, KillDone, WaitJobs, Finish, Ages, Goto, history, loopVars, timeVars
  <2>2. CASE KillAgain \/ KillGivesUp \/ KillJobs
    BY <2>2 DEF KillAgain, KillGivesUp, KillJobs, TermLoop, NoLoop, Ages, Goto, history, loopVars, timeVars
  <2>3. CASE OpenExited \/ WriteExited
    BY <2>3, <1>a DEF OpenExited, WriteExited, Put, Ages, Goto, history, loopVars
  <2>4. ASSUME NEW d \in Dirs, RemoveDir(d) PROVE Ages'
    BY <2>4 DEF RemoveDir, Ages, shellVars, history, loopVars, timeVars
  <2>5. QED BY <1>6, <2>1, <2>2, <2>3, <2>4 DEF Cleanup
<1>7. CASE Loop
  <2>1. CASE LoopReady \/ LoopWake \/ LoopCheck \/ LoopTerm
    BY <1>a, <2>1 DEF LoopReady, LoopWake, LoopCheck, LoopTerm, LoopStep, Ages, shellVars, history, timeVars
  <2>2. CASE LoopOpen \/ LoopWrite
    BY <1>a, <2>2 DEF LoopOpen, LoopWrite, LoopStep, Put, Ages, shellVars, history
  <2>3. QED BY <1>7, <2>1, <2>2 DEF Loop
<1>8. CASE Signal \/ Kill9 \/ NodeDies
  BY <1>8 DEF Signal, Kill9, NodeDies, Cleaning, Ages, loopVars, timeVars
<1>9. CASE Tick
  <2>1. /\ age' <= age + 1 /\ (age' = age + 1 \/ age' = AgeCap)
        /\ orphan' \in Nat /\ orphan' <= orphan + 1 /\ (pc # "dead" => orphan' = orphan)
        /\ orphan' <= AgeCap
        /\ age' \in Nat
    BY <1>9, <1>a DEF Tick, OneMore, TypeOK
  <2>2. loop \notin NoLoop => since' = since + 1
    BY <1>9 DEF Tick
  <2>3. pc' = pc /\ loop' = loop /\ file' = file
    BY <1>9 DEF Tick, shellVars, loopVars
  <2>4. (loop = "setup" => since < MaxLag)
    BY <1>9 DEF Tick
  <2>5. ASSUME file # "absent" PROVE orphan' <= age' + MaxLag
    <3>1. orphan <= age + MaxLag
      BY <2>5 DEF Ages
    <3>2. CASE age' = age + 1
      BY <1>a, <2>1, <3>1, <3>2
    <3>3. CASE age' = AgeCap
      BY <1>a, <2>1, <3>3
    <3>4. QED BY <2>1, <3>2, <3>3
  <2>6. CASE loop = "setup"
    <3>1. since' = since + 1 /\ since < MaxLag
      BY <2>2, <2>4, <2>6 DEF NoLoop
    <3>2. age' <= since' /\ orphan' <= since' /\ since' <= MaxLag
      BY <1>a, <2>1, <2>6, <3>1 DEF Ages
    <3>3. QED BY <2>1, <2>3, <2>5, <2>6, <3>2 DEF Ages
  <2>7. CASE loop \in {"sleep", "check"}
    <3>1. age' <= since' + MaxLag /\ orphan' <= since' + MaxLag
      BY <1>a, <2>1, <2>2, <2>7 DEF Ages, NoLoop
    <3>2. loop = "check" => since' >= Interval
      BY <1>a, <2>2, <2>7 DEF Ages, NoLoop
    <3>3. QED BY <2>1, <2>3, <2>5, <2>7, <3>1, <3>2 DEF Ages
  <2>8. CASE loop \in {"render", "write"}
    <3>1. since' >= Interval /\ orphan' + Interval <= since'
      BY <1>a, <2>1, <2>2, <2>8 DEF Ages, NoLoop
    <3>2. loop = "render" => age' <= since' + MaxLag
      BY <1>a, <2>1, <2>2, <2>8 DEF Ages, NoLoop
    <3>3. QED BY <2>1, <2>3, <2>5, <2>8, <3>1, <3>2 DEF Ages
  <2>9. CASE loop \notin {"setup", "sleep", "check", "render", "write"}
    BY <2>1, <2>3, <2>5, <2>9 DEF Ages
  <2>10. QED BY <2>6, <2>7, <2>8, <2>9
<1>10. CASE UNCHANGED vars
  BY <1>10 DEF Ages, vars, shellVars, history, loopVars, timeVars
<1>11. QED
  BY <1>1, <1>2, <1>3, <1>4, <1>5, <1>6, <1>7, <1>8, <1>9, <1>10 DEF Next

\* The inductive invariant of the theorems on time.
LEMMA Invariants == Spec => [](TypeOK /\ Beating /\ Ages)
<1>1. Init => Beating /\ Ages
  BY JobAssumption, StatusAssumption DEF Init, Beating, Ages, Before, Trapped, Alive
<1>2. QED
  BY <1>1, Typing, BeatingStep, AgesStep, PTL DEF Spec

\* A heartbeat loop outlives a dead job shell by at most its interval and twice
\* its lag, however the shell died (common_header.in:104-105, 138-142).
THEOREM Orphans == Spec => []OrphanEnds
<1>1. TypeOK /\ Ages => OrphanEnds
  BY JobAssumption, StatusAssumption DEF TypeOK, Ages, OrphanEnds, LoopPCs, NoLoop
<1>2. QED
  BY <1>1, Invariants, PTL

\* The age of a dead job's heartbeat file tells, up to the lag, how long the job
\* has been dead (watch.py:102-113).
THEOREM Quiet == Spec => []DeadJobGoesQuiet
<1>1. TypeOK /\ Ages => DeadJobGoesQuiet
  BY DEF TypeOK, Ages, DeadJobGoesQuiet
<1>2. QED
  BY <1>1, Invariants, PTL

\* cbench watch calls no job stale whose benchmark runs, if the window leaves
\* room for an interval and twice the lag (watch.py:109-113).
THEOREM NotStale == Spec => []LiveJobNotStale
<1>1. TypeOK /\ Beating /\ Ages => LiveJobNotStale
  <2> SUFFICES ASSUME TypeOK, Beating, Ages, pc \in Trapped, Interval + 2 * MaxLag <= Window,
                      file \in Alive
               PROVE  StatusOf(file, TRUE, age) # "stale"
    BY DEF LiveJobNotStale, StatusOf, TypeOK, Files, Exited
  <2>0. Window \in Nat
    BY StatusAssumption DEF Window
  <2>1. age <= Window
    BY <2>0, JobAssumption, StatusAssumption DEF TypeOK, Beating, Ages, Before, Trapped, Alive, LoopPCs
  <2>2. ~(age > Window)
    BY <2>0, <2>1 DEF TypeOK
  <2>3. QED
    BY <2>2 DEF StatusOf, Alive
<1>2. QED
  BY <1>1, Invariants, PTL

--------------------------------------------------------------------------------
\* JobScript implements JobLife: what a watcher may rely on about a job, for
\* every value of the constants that leaves the stale window room for an interval
\* and twice the loop's lag.  Each step of the script is matched with one step of
\* JobLife by what it does to the fields of the abstract job.

Phase == CASE pc = "queued" -> "waiting"
           [] pc \in Trapped \cup {"cd", "opened"} -> "up"
           [] pc = "dead" -> "gone"
           [] OTHER -> "ending"
Beats == loop \notin NoLoop
Old   == file \in Alive /\ age > Window

\* The abstract job, with its fields named.
LEMMA LifeFields ==
  Life = [phase |-> Phase, beats |-> Beats, file |-> file, output |-> pc # "queued",
          rc |-> rc, quiet |-> Old]
  BY DEF Life, Phase, Beats, Old

PhaseTable ==
  /\ pc = "queued" => Phase = "waiting"
  /\ pc \in {"cd", "opened", "header", "noted", "forked", "kept", "body", "mkdir"} => Phase = "up"
  /\ pc = "dead" => Phase = "gone"
  /\ pc \in {"exit", "stop", "gone", "reopened", "reap", "wait", "rm"} => Phase = "ending"

\* The phase at each command of the shell.
LEMMA PhaseOf == TypeOK => PhaseTable
  BY DEF PhaseTable, Phase, Trapped, TypeOK

\* The abstract job is a state of JobLife.
LEMMA LifeType == TypeOK => Life \in JL!States
<1> SUFFICES ASSUME TypeOK PROVE Life \in JL!States
  OBVIOUS
<1>1. Phase \in {"waiting", "up", "ending", "gone"}
  BY PhaseOf DEF PhaseTable, TypeOK, ShellPCs, Before, Trapped, Cleaning
<1>2. Beats \in BOOLEAN /\ Old \in BOOLEAN /\ (pc # "queued") \in BOOLEAN
  BY DEF Beats, Old
<1>3. QED
  BY <1>1, <1>2, LifeFields DEF TypeOK, JL!States, JL!Files, Files, Alive, Exited, JL!Alive, JL!Exited

\* What a step of JobLife is recognised by.
LifeTyped == Life \in JL!States
LifeIs ==
  /\ Life.phase = Phase /\ Life.beats = Beats /\ Life.file = file
  /\ Life.output = (pc # "queued") /\ Life.rc = rc /\ Life.quiet = Old

\* What is known of the abstract job in a state ...
LEMMA LifeNow == TypeOK => LifeTyped /\ LifeIs /\ PhaseTable
  BY LifeType, LifeFields, PhaseOf DEF LifeTyped, LifeIs

\* ... and in the next one.
LEMMA LifeNext == TypeOK' => LifeTyped' /\ LifeIs' /\ PhaseTable'
  BY LifeNow, PTL

--------------------------------------------------------------------------------
(* The steps of JobLife, by what they do to each field *)

\* Two jobs with the same fields are the same job.
LEMMA SameJob ==
  ASSUME NEW s \in JL!States, NEW t \in JL!States,
         t.phase = s.phase, t.beats = s.beats, t.file = s.file, t.output = s.output,
         t.rc = s.rc, t.quiet = s.quiet
  PROVE  t = s
  BY DEF JL!States

\* A job that differs in the file's contents and its silence only was rewritten.
LEMMA RewrittenJob ==
  ASSUME NEW s \in JL!States, NEW t \in JL!States,
         t.phase = s.phase, t.beats = s.beats, t.output = s.output, t.rc = s.rc, t.quiet = FALSE
  PROVE  t = [s EXCEPT !.file = t.file, !.quiet = FALSE]
<1> DEFINE u == [s EXCEPT !.file = t.file, !.quiet = FALSE]
<1>1. t.file \in JL!Files
  BY DEF JL!States
<1>2. u \in JL!States
  BY <1>1 DEF JL!States
<1>3. u.phase = s.phase /\ u.beats = s.beats /\ u.output = s.output /\ u.rc = s.rc
  BY DEF JL!States
<1>4. u.file = t.file /\ u.quiet = FALSE
  BY DEF JL!States
<1> HIDE DEF u
<1>5. u = t
  BY <1>2, <1>3, <1>4, SameJob
<1> QED BY <1>5 DEF u

\* The script starts.
LEMMA StartedStep ==
  ASSUME NEW s \in JL!States, NEW t \in JL!States,
         s.phase = "waiting", t.phase = "up", t.output = TRUE,
         t.beats = s.beats, t.file = s.file, t.rc = s.rc, t.quiet = s.quiet
  PROVE  t \in JL!Succ(s)
<1>1. t = [s EXCEPT !.phase = "up", !.output = TRUE]
  BY DEF JL!States
<1>2. QED BY <1>1 DEF JL!Succ, JL!Started

\* The "started" line is being written.
LEMMA NotedStep ==
  ASSUME NEW s \in JL!States, NEW t \in JL!States,
         s.phase = "up", s.beats = FALSE, t.phase = "up", t.beats = FALSE,
         t.file \in {"empty", "started"}, t.quiet = FALSE,
         t.output = s.output, t.rc = s.rc
  PROVE  t \in JL!Succ(s)
<1>1. t = [s EXCEPT !.file = t.file, !.quiet = FALSE]
  BY RewrittenJob
<1>2. QED BY <1>1 DEF JL!Succ, JL!Noted, JL!Rewrite

\* The loop is forked.
LEMMA ForkedStep ==
  ASSUME NEW s \in JL!States, NEW t \in JL!States,
         s.phase = "up", s.beats = FALSE, t.phase = "up", t.beats = TRUE,
         t.file = s.file, t.quiet = s.quiet, t.output = s.output, t.rc = s.rc
  PROVE  t \in JL!Succ(s)
<1>1. t = [s EXCEPT !.beats = TRUE]
  BY DEF JL!States
<1>2. QED BY <1>1 DEF JL!Succ, JL!Noted

\* The loop truncates or writes the file.
LEMMA BeatStep ==
  ASSUME NEW s \in JL!States, NEW t \in JL!States,
         s.beats = TRUE, t.beats = TRUE, t.phase = s.phase,
         t.file \in {"empty", "running"}, t.quiet = FALSE,
         t.output = s.output, t.rc = s.rc
  PROVE  t \in JL!Succ(s)
<1>1. t = [s EXCEPT !.file = t.file, !.quiet = FALSE]
  BY RewrittenJob
<1>2. t \in JL!Rewrite(s, {"empty", "running"})
  BY <1>1 DEF JL!Rewrite
<1>3. QED BY <1>2 DEF JL!Succ, JL!Beat

\* The exit line is being written.
LEMMA RecordedStep ==
  ASSUME NEW s \in JL!States, NEW t \in JL!States,
         s.phase = "ending", t.phase = "ending", t.beats = s.beats,
         t.file \in {"empty", JL!ExitLine(s.rc)}, t.quiet = FALSE,
         t.output = s.output, t.rc = s.rc
  PROVE  t \in JL!Succ(s)
<1>1. t = [s EXCEPT !.file = t.file, !.quiet = FALSE]
  BY RewrittenJob
<1>2. QED BY <1>1 DEF JL!Succ, JL!Recorded, JL!Rewrite

\* The loop ends.
LEMMA SilencedStep ==
  ASSUME NEW s \in JL!States, NEW t \in JL!States,
         s.phase \in {"ending", "gone"}, t.phase = s.phase, t.beats = FALSE,
         t.file = s.file, t.quiet = s.quiet, t.output = s.output, t.rc = s.rc
  PROVE  t \in JL!Succ(s)
<1>1. t = [s EXCEPT !.beats = FALSE]
  BY DEF JL!States
<1>2. QED BY <1>1 DEF JL!Succ, JL!Silenced

\* The benchmark is over.
LEMMA EndedStep ==
  ASSUME NEW s \in JL!States, NEW t \in JL!States,
         s.phase = "up", t.phase = "ending", t.beats = s.beats,
         t.file = s.file, t.quiet = s.quiet, t.output = s.output
  PROVE  t \in JL!Succ(s)
<1>1. t = [s EXCEPT !.phase = "ending", !.rc = t.rc] /\ t.rc \in {0, 1}
  BY DEF JL!States
<1>2. QED BY <1>1 DEF JL!Succ, JL!Ended

\* The shell ends or dies, with its loop or without it.
LEMMA DiedStep ==
  ASSUME NEW s \in JL!States, NEW t \in JL!States,
         s.phase \in {"up", "ending"}, t.phase = "gone", t.beats \in {s.beats, FALSE},
         t.file = s.file, t.quiet = s.quiet, t.output = s.output, t.rc \in {s.rc, 1}
  PROVE  t \in JL!Succ(s)
<1>1. t = [s EXCEPT !.phase = "gone", !.rc = t.rc, !.beats = t.beats]
  BY DEF JL!States
<1>2. t \in JL!Gone(s, t.beats)
  BY <1>1 DEF JL!Gone
<1>3. QED BY <1>2 DEF JL!Succ, JL!Died

\* The file grows older than the window.
LEMMA GrewOldStep ==
  ASSUME NEW s \in JL!States, NEW t \in JL!States,
         s.phase \in {"ending", "gone"}, s.beats = FALSE, s.file \in Alive, t.quiet = TRUE,
         t.phase = s.phase, t.beats = s.beats, t.file = s.file, t.output = s.output, t.rc = s.rc
  PROVE  t \in JL!Succ(s)
<1>1. t = [s EXCEPT !.quiet = TRUE]
  BY DEF JL!States
<1>2. QED BY <1>1 DEF JL!Succ, JL!GrewOld, JL!Alive, Alive

--------------------------------------------------------------------------------
(* Each step of the script *)

\* A step of the script that changes no field of the abstract job stutters.
LEMMA Stutter ==
  ASSUME TypeOK, TypeOK', Phase' = Phase, Beats' = Beats, file' = file,
         (pc' = "queued") = (pc = "queued"), rc' = rc, Old' = Old
  PROVE  Life' = Life
  BY LifeNow, LifeNext, SameJob DEF LifeTyped, LifeIs

\* Start-up: cd, the "started" line, the fork.
LEMMA StartupStep ==
  ASSUME TypeOK, Beating, TypeOK', Launch \/ Startup
  PROVE  Life' \in JL!Succ(Life) \/ Life' = Life
<1> USE StatusAssumption DEF PhaseTable
<1>1. LifeTyped /\ LifeIs /\ PhaseTable /\ LifeTyped' /\ LifeIs' /\ PhaseTable'
  BY LifeNow, LifeNext
<1>2. Window \in Nat
  BY DEF Window
<1>3. CASE Launch
  <2>1. Beats' = Beats /\ Old' = Old
    BY <1>3 DEF Launch, Beats, Old, loopVars, timeVars
  <2>2. QED
    BY <1>1, <1>3, <2>1, StartedStep DEF Launch, Goto, LifeTyped, LifeIs
<1>4. CASE ChangeDir
  <2>1. Beats' = Beats /\ Old' = Old
    BY <1>4 DEF ChangeDir, Beats, Old, loopVars, timeVars
  <2>2. CASE pc' = "header"
    BY <1>1, <1>4, <2>1, <2>2, Stutter DEF ChangeDir, Goto
  <2>3. CASE pc' = "dead"
    BY <1>1, <1>4, <2>1, <2>3, DiedStep DEF ChangeDir, Goto, LifeTyped, LifeIs
  <2>4. QED BY <1>4, <2>2, <2>3 DEF ChangeDir, Goto
<1>5. CASE HeartbeatOff \/ KeepPid \/ Disown
  <2>1. Beats' = Beats /\ Old' = Old
    BY <1>5 DEF HeartbeatOff, KeepPid, Disown, Beats, Old, loopVars, timeVars
  <2>2. QED
    BY <1>1, <1>5, <2>1, Stutter DEF HeartbeatOff, KeepPid, Disown, Goto
<1>6. CASE OpenStarted \/ WriteStarted
  <2>1. Beats = FALSE /\ Beats' = FALSE
    BY <1>6 DEF OpenStarted, WriteStarted, Goto, Beating, Beats, NoLoop, loopVars
  <2>2. Old' = FALSE
    BY <1>2, <1>6 DEF OpenStarted, WriteStarted, Put, Old, Alive
  <2>3. QED
    BY <1>1, <1>6, <2>1, <2>2, NotedStep DEF OpenStarted, WriteStarted, Put, Goto, LifeTyped, LifeIs
<1>7. CASE ForkLoop
  <2>1. Beats = FALSE /\ Beats' = TRUE /\ Old' = Old
    BY <1>7 DEF ForkLoop, Goto, Beating, Beats, Old, NoLoop
  <2>2. QED
    BY <1>1, <1>7, <2>1, ForkedStep DEF ForkLoop, Goto, LifeTyped, LifeIs
<1>8. QED
  BY <1>3, <1>4, <1>5, <1>6, <1>7 DEF Startup

\* The EXIT trap: the loop is stopped, the exit line is written, the shell ends.
LEMMA CleanupStep ==
  ASSUME TypeOK, TypeOK', Cleanup
  PROVE  Life' \in JL!Succ(Life) \/ Life' = Life
<1> USE DEF PhaseTable
<1>1. LifeTyped /\ LifeIs /\ PhaseTable /\ LifeTyped' /\ LifeIs' /\ PhaseTable'
  BY LifeNow, LifeNext
<1>2. CASE EnterCleanup \/ KillDone \/ WaitJobs
  <2>1. Beats' = Beats /\ Old' = Old
    BY <1>2 DEF EnterCleanup, KillDone, WaitJobs, Beats, Old, loopVars, timeVars
  <2>2. QED
    BY <1>1, <1>2, <2>1, Stutter DEF EnterCleanup, KillDone, WaitJobs, Goto
<1>3. CASE KillAgain \/ KillGivesUp \/ KillJobs
  <2>1. Beats' \in {Beats, FALSE} /\ Old' = Old
    BY <1>3 DEF KillAgain, KillGivesUp, KillJobs, TermLoop, Beats, NoLoop, Old, loopVars, timeVars
  <2>2. /\ pc \in {"stop", "reap"} /\ pc' \in {"stop", "gone", "wait"}
        /\ file' = file /\ rc' = rc
    BY <1>3 DEF KillAgain, KillGivesUp, KillJobs, Goto
  <2>3. CASE Beats' = Beats
    BY <1>1, <2>1, <2>2, <2>3, Stutter
  <2>4. CASE Beats' = FALSE
    BY <1>1, <2>1, <2>2, <2>4, SilencedStep DEF LifeTyped, LifeIs
  <2>5. QED BY <2>1, <2>3, <2>4
<1>4. CASE OpenExited \/ WriteExited
  <2>1. Beats' = Beats
    BY <1>4 DEF OpenExited, WriteExited, Beats, loopVars
  <2>2. Old' = FALSE
    BY <1>4 DEF OpenExited, WriteExited, Put, Old, Alive
  <2>3. file' \in {"empty", JL!ExitLine(rc)}
    BY <1>4 DEF OpenExited, WriteExited, Put, JL!ExitLine
  <2>4. QED
    BY <1>1, <1>4, <2>1, <2>2, <2>3, RecordedStep DEF OpenExited, WriteExited, Put, Goto, LifeTyped, LifeIs
<1>5. ASSUME NEW d \in Dirs, RemoveDir(d) PROVE Life' = Life
  <2>1. Beats' = Beats /\ Old' = Old
    BY <1>5 DEF RemoveDir, Beats, Old, loopVars, timeVars
  <2>2. pc' = pc /\ rc' = rc /\ file' = file
    BY <1>5 DEF RemoveDir, shellVars
  <2>3. Phase' = Phase
    BY <2>2 DEF Phase
  <2>4. QED BY <2>1, <2>2, <2>3, Stutter
<1>6. CASE Finish
  <2>1. Beats' = Beats /\ Old' = Old
    BY <1>6 DEF Finish, Beats, Old, loopVars, timeVars
  <2>2. QED
    BY <1>1, <1>6, <2>1, DiedStep DEF Finish, Goto, LifeTyped, LifeIs
<1>7. QED
  BY <1>2, <1>3, <1>4, <1>5, <1>6 DEF Cleanup

\* The heartbeat loop beats, or sees its parent gone and ends.
LEMMA LoopLifeStep ==
  ASSUME TypeOK, Beating, TypeOK', Loop
  PROVE  Life' \in JL!Succ(Life) \/ Life' = Life
<1> USE StatusAssumption DEF PhaseTable
<1>1. LifeTyped /\ LifeIs /\ PhaseTable /\ LifeTyped' /\ LifeIs' /\ PhaseTable'
  BY LifeNow, LifeNext
<1>2. pc' = pc /\ rc' = rc /\ Phase' = Phase
  BY DEF Loop, LoopReady, LoopWake, LoopCheck, LoopOpen, LoopWrite, LoopTerm, shellVars, Phase
<1>3. CASE LoopReady \/ LoopWake
  <2>1. Beats' = Beats /\ Old' = Old /\ file' = file
    BY <1>3 DEF LoopReady, LoopWake, LoopStep, Beats, NoLoop, Old, timeVars
  <2>2. QED BY <1>2, <2>1, Stutter
<1>4. CASE LoopCheck
  <2>1. Beats' = (pc # "dead") /\ Beats = TRUE /\ Old' = Old /\ file' = file
    BY <1>4 DEF LoopCheck, LoopStep, Beats, NoLoop, Old, timeVars
  <2>2. CASE pc = "dead"
    BY <1>1, <1>2, <2>1, <2>2, SilencedStep DEF LifeTyped, LifeIs
  <2>3. CASE pc # "dead"
    BY <1>2, <2>1, <2>3, Stutter
  <2>4. QED BY <2>2, <2>3
<1>5. CASE LoopOpen \/ LoopWrite
  <2>1. Beats = TRUE /\ Beats' = TRUE /\ file' \in {"empty", "running"}
    BY <1>5 DEF LoopOpen, LoopWrite, LoopStep, Put, Beats, NoLoop
  <2>2. Window \in Nat
    BY DEF Window
  <2>3. Old' = FALSE
    BY <1>5, <2>2 DEF LoopOpen, LoopWrite, Put, Old, Alive
  <2>4. QED
    BY <1>1, <1>2, <2>1, <2>3, BeatStep DEF LifeTyped, LifeIs
<1>6. CASE LoopTerm
  <2>1. Beats' = FALSE /\ Old' = Old /\ file' = file
    BY <1>6 DEF LoopTerm, Beats, NoLoop, Old, timeVars
  <2>2. pc \in {"stop", "gone", "reopened", "reap", "wait", "rm", "dead"}
    BY <1>6 DEF LoopTerm, Beating, Before, Trapped, TypeOK, ShellPCs, Cleaning
  <2>3. QED
    BY <1>1, <1>2, <2>1, <2>2, SilencedStep DEF LifeTyped, LifeIs
<1>7. QED
  BY <1>3, <1>4, <1>5, <1>6 DEF Loop

\* The benchmark and its scratch directories.
LEMMA BodyStep ==
  ASSUME TypeOK, TypeOK',
         \/ TakeTrap \/ StartBackground \/ BackgroundEnds
         \/ \E d \in Dirs : MakeDir(d) \/ RegisterDir(d)
         \/ \E status \in {0, 1} : BodyEnd(status)
  PROVE  Life' \in JL!Succ(Life) \/ Life' = Life
<1> USE DEF PhaseTable
<1>1. LifeTyped /\ LifeIs /\ PhaseTable /\ LifeTyped' /\ LifeIs' /\ PhaseTable'
  BY LifeNow, LifeNext
<1>2. Beats' = Beats /\ Old' = Old /\ file' = file
  BY DEF TakeTrap, MakeDir, RegisterDir, StartBackground, BodyEnd, BackgroundEnds, Beats, Old,
         loopVars, timeVars
<1>3. ASSUME NEW d \in Dirs, MakeDir(d) \/ RegisterDir(d) PROVE Life' = Life
  BY <1>1, <1>2, <1>3, Stutter DEF MakeDir, RegisterDir, Goto
<1>4. CASE StartBackground \/ BackgroundEnds
  <2>1. pc' = pc /\ rc' = rc /\ Phase' = Phase
    BY <1>4 DEF StartBackground, BackgroundEnds, shellVars, Phase
  <2>2. QED BY <1>2, <2>1, Stutter
<1>5. CASE TakeTrap \/ \E status \in {0, 1} : BodyEnd(status)
  BY <1>1, <1>2, <1>5, EndedStep DEF TakeTrap, BodyEnd, Goto, Trapped, LifeTyped, LifeIs
<1>6. QED
  BY <1>3, <1>4, <1>5

\* A signal that is not trapped, SIGKILL, a node failure.
LEMMA KilledStep ==
  ASSUME TypeOK, TypeOK', Signal \/ Kill9 \/ NodeDies
  PROVE  Life' \in JL!Succ(Life) \/ Life' = Life
<1> USE DEF PhaseTable
<1>1. LifeTyped /\ LifeIs /\ PhaseTable /\ LifeTyped' /\ LifeIs' /\ PhaseTable'
  BY LifeNow, LifeNext
<1>2. Beats' \in {Beats, FALSE} /\ Old' = Old /\ file' = file
  BY DEF Signal, Kill9, NodeDies, Beats, NoLoop, Old, loopVars, timeVars
<1>3. CASE pc' = "dead"
  <2>1. pc \notin {"queued", "dead"} /\ rc' \in {rc, 1}
    BY <1>3 DEF Signal, Kill9, NodeDies, Trapped
  <2>2. Phase \in {"up", "ending"}
    BY <1>1, <2>1 DEF TypeOK, ShellPCs, Before, Trapped, Cleaning
  <2>3. QED
    BY <1>1, <1>2, <1>3, <2>1, <2>2, DiedStep DEF LifeTyped, LifeIs
<1>4. CASE pc' # "dead"
  <2>1. pc' = pc /\ rc' = rc /\ Beats' = Beats
    BY <1>4 DEF Signal, Kill9, NodeDies, Beats, loopVars
  <2>2. Phase' = Phase
    BY <2>1 DEF Phase
  <2>3. QED BY <1>2, <2>1, <2>2, Stutter
<1>5. QED BY <1>3, <1>4

\* The file of a live loop or a running benchmark is no older than the window.
LEMMA LongestPause ==
  ASSUME NEW a \in Nat, NEW s \in Nat, NEW i \in Nat, NEW m \in Nat, NEW w \in Nat,
         a <= s + m, s <= i + m, i + 2 * m <= w
  PROVE  a <= w
  OBVIOUS

\* Time makes a file old only when benchmark and loop are over: the window has
\* room for the longest pause between two beats.
LEMMA TickStep ==
  ASSUME TypeOK, Beating, Ages, TypeOK', Ages', Interval + 2 * MaxLag <= Window, Tick
  PROVE  Life' \in JL!Succ(Life) \/ Life' = Life
<1> USE DEF PhaseTable
<1>1. LifeTyped /\ LifeIs /\ PhaseTable /\ LifeTyped' /\ LifeIs' /\ PhaseTable'
  BY LifeNow, LifeNext
<1>2. pc' = pc /\ rc' = rc /\ loop' = loop /\ file' = file /\ Phase' = Phase /\ Beats' = Beats
  BY DEF Tick, shellVars, loopVars, Phase, Beats
<1>3. CASE Old' = Old
  BY <1>2, <1>3, Stutter
<1>4. CASE Old' # Old
  <2>0. age \in Nat /\ age' \in Nat /\ age' >= age /\ Window \in Nat
    BY JobAssumption, StatusAssumption DEF Tick, OneMore, TypeOK, Window
  <2>1. file \in Alive /\ age' > Window /\ Old' = TRUE
    BY <1>2, <1>4, <2>0 DEF Old
  <2>2. loop \in NoLoop
    <3>1. ASSUME loop = "setup" PROVE FALSE
      BY <1>2, <2>0, <2>1, <3>1, JobAssumption, StatusAssumption DEF Ages, TypeOK
    <3>2. ASSUME loop \in {"sleep", "check", "render"} PROVE FALSE
      <4>1. age' <= since' + MaxLag
        BY <1>2, <3>2 DEF Ages
      <4>2. since' \in Nat /\ since' <= Interval + MaxLag
        BY JobAssumption, StatusAssumption DEF TypeOK
      <4>3. QED
        <5>1. Interval \in Nat /\ MaxLag \in Nat
          BY JobAssumption, StatusAssumption
        <5>2. age' <= Window
          BY <2>0, <4>1, <4>2, <5>1, LongestPause
        <5>3. QED
          BY <2>0, <2>1, <5>2
    <3>3. loop # "write"
      BY <2>1 DEF Ages
    <3>4. QED BY <3>1, <3>2, <3>3 DEF TypeOK, LoopPCs, NoLoop
  <2>3. pc \in {"exit", "stop", "gone", "reopened", "reap", "wait", "rm", "dead"}
    BY <2>1, <2>2 DEF Beating, Alive, NoLoop, TypeOK, ShellPCs, Before, Trapped, Cleaning, Tick
  <2>4. Beats = FALSE
    BY <2>2 DEF Beats
  <2>5. QED
    BY <1>1, <1>2, <2>1, <2>3, <2>4, GrewOldStep DEF LifeTyped, LifeIs
<1>5. QED BY <1>3, <1>4

\* Seen by a watcher, every run of a job script is a run of JobLife: an exit
\* line comes only after the benchmark is over and tells its status, no beat
\* comes without a loop, and no file goes stale under a benchmark or loop that
\* is alive (common_header.in:77-173, watch.py:90-114).
THEOREM Implements ==
  ASSUME Interval + 2 * MaxLag <= Window
  PROVE  Spec => ImplementsJobLife
<1>1. Init => JL!Init
  <2> SUFFICES ASSUME Init PROVE JL!Init
    OBVIOUS
  <2>1. Beats = FALSE /\ Old = FALSE
    BY DEF Init, Beats, NoLoop, Old, Alive
  <2>2. Phase = "waiting"
    BY DEF Init, Phase, Trapped
  <2>3. QED
    BY <2>1, <2>2, LifeFields DEF Init, JL!Init, JL!Fresh
<1>2. /\ TypeOK /\ Beating /\ Ages /\ [Next]_vars /\ TypeOK' /\ Ages'
      => [JL!Next]_Life
  <2> SUFFICES ASSUME TypeOK, Beating, Ages, [Next]_vars, TypeOK', Ages'
               PROVE  Life' \in JL!Succ(Life) \/ Life' = Life
    BY DEF JL!Next
  <2>1. CASE UNCHANGED vars
    <3>1. Phase' = Phase /\ Beats' = Beats /\ Old' = Old /\ file' = file /\ pc' = pc /\ rc' = rc
      BY <2>1 DEF vars, shellVars, history, loopVars, work, timeVars, Phase, Beats, Old
    <3>2. QED BY <3>1, Stutter
  <2>2. QED
    BY <2>1, StartupStep, CleanupStep, LoopLifeStep, BodyStep, KilledStep, TickStep
    DEF Next
<1>3. QED
  BY <1>1, <1>2, Invariants, PTL DEF Spec, ImplementsJobLife, JL!Spec

--------------------------------------------------------------------------------
(* The watcher *)

Over == {"ending", "gone"}

\* What a look at the file of job j, or a verdict on it, may be based on.
SaysOver(f, quiet) == f \in Exited \/ quiet

\* A job that ran once: its file, what was read of it and what was concluded
\* from that say that the benchmark is over only when it is.
ToldOver(j) ==
  /\ SaysOver(jobs[j].file, jobs[j].quiet) => jobs[j].phase \in Over
  /\ text # <<>> /\ text[1] = j /\ SaysOver(text[2], text[3]) => jobs[j].phase \in Over
  /\ seen[j] \in {"finished", "failed", "stale"} => jobs[j].phase \in Over

\* And that it succeeded, only when it can leave no other exit line any more.
NoFailure(s) == s.phase \in Over /\ s.file # "exitN" /\ (s.phase = "ending" => s.rc = 0)
ToldSuccess(j) ==
  /\ jobs[j].file = "exit0" => NoFailure(jobs[j])
  /\ text # <<>> /\ text[1] = j /\ text[2] = "exit0" => NoFailure(jobs[j])
  /\ seen[j] = "finished" => NoFailure(jobs[j])

IInv == WatchTypeOK /\ \A j \in Once : ToldOver(j) /\ ToldSuccess(j)

LEMMA WindowNat == Window \in Nat
BY StatusAssumption DEF Window

\* The fields of a job.
LEMMA Fields ==
  ASSUME NEW s \in L!States
  PROVE  /\ s.phase \in {"waiting", "up", "ending", "gone"} /\ s.file \in Files /\ s.rc \in {0, 1}
         /\ s.beats \in BOOLEAN /\ s.output \in BOOLEAN /\ s.quiet \in BOOLEAN
BY DEF L!States, L!Files, L!Alive, L!Exited, Files, Alive, Exited

\* A record with these fields is a job.
LEMMA Record ==
  ASSUME NEW s \in L!States,
         NEW p \in {"waiting", "up", "ending", "gone"}, NEW f \in Files, NEW r \in {0, 1},
         NEW b \in BOOLEAN, NEW o \in BOOLEAN, NEW q \in BOOLEAN
  PROVE  /\ [s EXCEPT !.phase = p, !.output = o] \in L!States
         /\ [s EXCEPT !.file = f, !.quiet = q] \in L!States
         /\ [s EXCEPT !.phase = p, !.rc = r] \in L!States
         /\ [s EXCEPT !.phase = p, !.rc = r, !.beats = b] \in L!States
         /\ [s EXCEPT !.beats = b] \in L!States
         /\ [s EXCEPT !.quiet = q] \in L!States
<1>1. f \in L!Files
  BY DEF L!Files, L!Alive, L!Exited, Files, Alive, Exited
<1>2. [s EXCEPT !.phase = p, !.output = o] \in L!States
  BY DEF L!States
<1>3. [s EXCEPT !.file = f, !.quiet = q] \in L!States
  BY <1>1 DEF L!States
<1>4. [s EXCEPT !.phase = p, !.rc = r] \in L!States
  BY DEF L!States
<1>5. [s EXCEPT !.phase = p, !.rc = r, !.beats = b] \in L!States
  BY DEF L!States
<1>6. [s EXCEPT !.beats = b] \in L!States
  BY DEF L!States
<1>7. [s EXCEPT !.quiet = q] \in L!States
  BY DEF L!States
<1> QED BY <1>2, <1>3, <1>4, <1>5, <1>6, <1>7

\* What one step of a job's life does to what the watcher relies on.
LEMMA LifeStep ==
  ASSUME NEW s \in L!States, NEW n \in L!Succ(s)
  PROVE  /\ n \in L!States
         /\ s.phase \in Over => n.phase \in Over
         /\ n.quiet => s.quiet \/ s.phase \in Over
         /\ n.phase = "ending" => /\ s.phase \in {"up", "ending"}
                                  /\ s.phase = "ending" => n.rc = s.rc
         /\ n.file \in Exited => \/ n.file = s.file
                                 \/ /\ s.phase = "ending" /\ n.phase = "ending"
                                    /\ n.file = "exit0" <=> s.rc = 0
<1> DEFINE Goal == /\ n \in L!States
                   /\ s.phase \in Over => n.phase \in Over
                   /\ n.quiet => s.quiet \/ s.phase \in Over
                   /\ n.phase = "ending" => /\ s.phase \in {"up", "ending"}
                                            /\ s.phase = "ending" => n.rc = s.rc
                   /\ n.file \in Exited => \/ n.file = s.file
                                           \/ /\ s.phase = "ending" /\ n.phase = "ending"
                                              /\ n.file = "exit0" <=> s.rc = 0
<1> USE Fields
<1>0. {"empty", "started", "running", "exit0", "exitN"} \subseteq Files
  BY DEF Files, Alive, Exited
<1>1. CASE n \in L!Started(s)
  <2>1. n = [s EXCEPT !.phase = "up", !.output = TRUE] /\ s.phase = "waiting"
    BY <1>1 DEF L!Started
  <2>2. n.phase = "up" /\ n.file = s.file /\ n.quiet = s.quiet
    BY <2>1 DEF L!States
  <2> QED BY <2>1, <2>2, Record DEF Over
<1>2. ASSUME n \in L!Noted(s) \cup L!Beat(s) PROVE Goal
  <2>1. CASE \E f \in {"empty", "started", "running"} : n = [s EXCEPT !.file = f, !.quiet = FALSE]
    <3>1. PICK f \in {"empty", "started", "running"} : n = [s EXCEPT !.file = f, !.quiet = FALSE]
      BY <2>1
    <3>2. n.phase = s.phase /\ n.file = f /\ n.quiet = FALSE /\ n.rc = s.rc
      BY <3>1 DEF L!States
    <3> QED BY <1>0, <3>1, <3>2, Record DEF Over, Exited
  <2>2. CASE n = [s EXCEPT !.beats = TRUE]
    <3>1. n.phase = s.phase /\ n.file = s.file /\ n.quiet = s.quiet /\ n.rc = s.rc
      BY <2>2 DEF L!States
    <3> QED BY <2>2, <3>1, Record DEF Over
  <2> QED BY <1>2, <2>1, <2>2 DEF L!Noted, L!Beat, L!Rewrite
<1>3. ASSUME n \in L!Recorded(s) PROVE Goal
  <2>1. PICK f \in {"empty", L!ExitLine(s.rc)} : n = [s EXCEPT !.file = f, !.quiet = FALSE]
    BY <1>3 DEF L!Recorded, L!Rewrite
  <2>2. s.phase = "ending" /\ f \in Files
    BY <1>0, <1>3 DEF L!Recorded, L!ExitLine
  <2>3. n.phase = s.phase /\ n.file = f /\ n.quiet = FALSE /\ n.rc = s.rc
    BY <2>1 DEF L!States
  <2>4. f \in Exited => (f = "exit0" <=> s.rc = 0)
    BY DEF L!ExitLine, Exited
  <2> QED BY <2>1, <2>2, <2>3, <2>4, Record DEF Over
<1>4. ASSUME n \in L!Silenced(s) \cup L!GrewOld(s) PROVE Goal
  <2>1. s.phase \in Over /\ (n = [s EXCEPT !.beats = FALSE] \/ n = [s EXCEPT !.quiet = TRUE])
    BY <1>4 DEF L!Silenced, L!GrewOld, Over
  <2>2. n.phase = s.phase /\ n.file = s.file /\ n.rc = s.rc
    BY <2>1 DEF L!States
  <2> QED BY <2>1, <2>2, Record DEF Over
<1>5. ASSUME n \in L!Ended(s) PROVE Goal
  <2>1. PICK r \in {0, 1} : n = [s EXCEPT !.phase = "ending", !.rc = r]
    BY <1>5 DEF L!Ended
  <2>2. s.phase = "up"
    BY <1>5 DEF L!Ended
  <2>3. n.phase = "ending" /\ n.file = s.file /\ n.quiet = s.quiet
    BY <2>1 DEF L!States
  <2> QED BY <2>1, <2>2, <2>3, Record DEF Over
<1>6. ASSUME n \in L!Died(s) PROVE Goal
  <2>1. PICK r \in {0, 1}, b \in BOOLEAN : n = [s EXCEPT !.phase = "gone", !.rc = r, !.beats = b]
    <3>1. n \in L!Gone(s, s.beats) \cup L!Gone(s, FALSE)
      BY <1>6 DEF L!Died
    <3>2. ASSUME NEW b \in BOOLEAN, n \in L!Gone(s, b)
          PROVE  \E r \in {0, 1} : n = [s EXCEPT !.phase = "gone", !.rc = r, !.beats = b]
      BY <3>2 DEF L!Gone
    <3> QED BY <3>1, <3>2
  <2>2. n.phase = "gone" /\ n.file = s.file /\ n.quiet = s.quiet
    BY <2>1 DEF L!States
  <2> QED BY <2>1, <2>2, Record DEF Over
<1> QED BY <1>1, <1>2, <1>3, <1>4, <1>5, <1>6 DEF L!Succ

\* What a verdict says about the file it is based on.
LEMMA Verdicts ==
  ASSUME NEW f \in Files, NEW output \in BOOLEAN, NEW old \in BOOLEAN
  PROVE  LET v == StatusOf(f, output, IF old THEN Window + 1 ELSE 0) IN
         /\ v \in Statuses
         /\ v \in {"finished", "failed", "stale"} => SaysOver(f, old) /\ f # "absent"
         /\ v = "finished" => f = "exit0"
BY WindowNat DEF StatusOf, Statuses, SaysOver, Exited, Alive, Files

LEMMA InitIInv == WatchInit => IInv
<1> SUFFICES ASSUME WatchInit PROVE IInv
  OBVIOUS
<1>1. L!Fresh \in L!States
  BY DEF L!Fresh, L!States, L!Files, L!Alive, L!Exited
<1>2. WatchTypeOK
  BY <1>1, WatchAssumption DEF WatchInit, WatchTypeOK, Statuses
<1>3. \A j \in Jobs : jobs[j].file = "absent" /\ ~jobs[j].quiet /\ seen[j] = Unseen
  BY DEF WatchInit, L!Fresh
<1> QED BY <1>2, <1>3 DEF WatchInit, IInv, Once, ToldOver, ToldSuccess, SaysOver, Exited, Unseen

\* A step of a job.
LEMMA JobKeeps ==
  ASSUME IInv, NEW k \in Jobs, JobStep(k)
  PROVE  IInv'
<1>1. PICK n \in L!Succ(jobs[k]) : jobs' = [jobs EXCEPT ![k] = n]
  BY DEF JobStep
<1>2. jobs[k] \in L!States
  BY DEF IInv, WatchTypeOK
<1>3. UNCHANGED <<runs, text, seen, watch>>
  BY DEF JobStep, watchVars
<1>4. /\ n \in L!States
      /\ jobs[k].phase \in Over => n.phase \in Over
      /\ n.quiet => jobs[k].quiet \/ jobs[k].phase \in Over
      /\ n.phase = "ending" => /\ jobs[k].phase \in {"up", "ending"}
                               /\ jobs[k].phase = "ending" => n.rc = jobs[k].rc
      /\ n.file \in Exited => \/ n.file = jobs[k].file
                              \/ /\ jobs[k].phase = "ending" /\ n.phase = "ending"
                                 /\ n.file = "exit0" <=> jobs[k].rc = 0
  BY <1>2, LifeStep
<1>5. WatchTypeOK'
  BY <1>1, <1>3, <1>4 DEF IInv, WatchTypeOK
<1>6. \A j \in Jobs : jobs'[j] = IF j = k THEN n ELSE jobs[j]
  BY <1>1 DEF IInv, WatchTypeOK
<1>7. ASSUME NoFailure(jobs[k]) PROVE NoFailure(n)
  BY <1>4, <1>7 DEF NoFailure, Over, Exited
<1>8. ASSUME NEW j \in Once PROVE ToldOver(j)' /\ ToldSuccess(j)'
  <2>1. ToldOver(j) /\ ToldSuccess(j) /\ j \in Jobs
    BY <1>8 DEF IInv, Once
  <2>2. CASE j # k
    BY <1>3, <1>6, <2>1, <2>2 DEF ToldOver, ToldSuccess, NoFailure
  <2>3. CASE j = k
    <3>1. ToldOver(j)'
      BY <1>3, <1>4, <1>6, <2>1, <2>3 DEF ToldOver, SaysOver, Over
    <3>2. n.file = "exit0" => NoFailure(n)
      <4>1. CASE jobs[k].file = "exit0"
        BY <1>7, <2>1, <2>3, <4>1 DEF ToldSuccess
      <4>2. CASE jobs[k].file # "exit0"
        BY <1>4, <4>2 DEF NoFailure, Over, Exited
      <4> QED BY <4>1, <4>2
    <3>3. ToldSuccess(j)'
      BY <1>3, <1>6, <1>7, <2>1, <2>3, <3>2 DEF ToldSuccess, NoFailure
    <3> QED BY <3>1, <3>3
  <2> QED BY <2>2, <2>3
<1> QED BY <1>3, <1>5, <1>8 DEF IInv, Once

\* A job that is started again has not run once any more.
LEMMA RerunKeeps ==
  ASSUME IInv, NEW k \in Jobs, Rerun(k)
  PROVE  IInv'
<1>1. /\ jobs' = [jobs EXCEPT ![k].phase = "waiting", ![k].rc = 0]
      /\ runs' = [runs EXCEPT ![k] = @ + 1] /\ runs[k] < MaxRuns[k]
      /\ UNCHANGED <<text, seen, watch>>
  BY DEF Rerun, watchVars
<1>2. jobs[k] \in L!States /\ runs[k] \in Nat /\ runs[k] >= 1 /\ MaxRuns[k] \in Nat
  BY WatchAssumption DEF IInv, WatchTypeOK
<1>3. jobs' \in [Jobs -> L!States]
  BY <1>1, <1>2 DEF IInv, WatchTypeOK, L!States
<1>4. runs' \in [Jobs -> Nat] /\ \A j \in Jobs : runs'[j] \in 1..MaxRuns[j]
  BY <1>1, <1>2 DEF IInv, WatchTypeOK
<1>5. WatchTypeOK'
  BY <1>1, <1>3, <1>4 DEF IInv, WatchTypeOK
<1>6. ASSUME NEW j \in Once' PROVE j \in Once /\ j # k
  BY <1>1, <1>2, <1>6 DEF IInv, WatchTypeOK, Once
<1>7. \A j \in Jobs : j # k => jobs'[j] = jobs[j]
  BY <1>1 DEF IInv, WatchTypeOK
<1>8. ASSUME NEW j \in Once' PROVE ToldOver(j)' /\ ToldSuccess(j)'
  <2>1. j \in Once /\ jobs'[j] = jobs[j]
    BY <1>6, <1>7, <1>8 DEF Once
  <2>2. ToldOver(j) /\ ToldSuccess(j)
    BY <2>1 DEF IInv
  <2>3. ToldOver(j)'
    BY <1>1, <2>1, <2>2 DEF ToldOver
  <2>4. ToldSuccess(j)'
    BY <1>1, <2>1, <2>2 DEF ToldSuccess, NoFailure
  <2> QED BY <2>3, <2>4
<1> QED BY <1>5, <1>8 DEF IInv

\* The watcher looks at a file.
LEMMA LookKeeps ==
  ASSUME IInv, NEW k \in Jobs, Look(k)
  PROVE  IInv'
<1>1. jobs[k].file \in Files /\ jobs[k].output \in BOOLEAN /\ jobs[k].quiet \in BOOLEAN
  BY Fields DEF IInv, WatchTypeOK
<1>2. UNCHANGED <<jobs, runs, watch>> /\ Once' = Once /\ text = <<>>
  BY DEF Look, Once
<1>3. CASE jobs[k].file = "absent"
  <2> DEFINE v == StatusOf("absent", jobs[k].output, 0)
  <2>1. v \in {"no heartbeat", "not started"}
    BY DEF StatusOf
  <2>2. seen' = [seen EXCEPT ![k] = v] /\ text' = text
    BY <1>3 DEF Look
  <2> HIDE DEF v
  <2>3. WatchTypeOK'
    BY <1>2, <2>1, <2>2 DEF IInv, WatchTypeOK, Statuses
  <2>4. \A j \in Jobs : seen'[j] = IF j = k THEN v ELSE seen[j]
    BY <2>2 DEF IInv, WatchTypeOK
  <2> QED BY <1>2, <2>1, <2>2, <2>3, <2>4 DEF IInv, Once, ToldOver, ToldSuccess
<1>4. CASE jobs[k].file # "absent"
  <2>1. text' = <<k, jobs[k].file, jobs[k].quiet>> /\ seen' = seen
    BY <1>4 DEF Look
  <2>2. WatchTypeOK'
    BY <1>1, <1>2, <2>1 DEF IInv, WatchTypeOK
  <2> QED BY <1>2, <2>1, <2>2 DEF IInv, Once, ToldOver, ToldSuccess
<1> QED BY <1>3, <1>4

\* The watcher judges what it has read.
LEMMA JudgeKeeps ==
  ASSUME IInv, Judge
  PROVE  IInv'
<1> DEFINE k == text[1]
           old == text[3] /\ jobs[k].quiet
           v == StatusOf(text[2], TRUE, IF old THEN Window + 1 ELSE 0)
<1>1. text \in Jobs \X Files \X BOOLEAN
  BY DEF Judge, IInv, WatchTypeOK
<1>2. k \in Jobs /\ text[2] \in Files /\ text[3] \in BOOLEAN
  BY <1>1
<1>3. old \in BOOLEAN
  BY <1>2
<1>4. seen' = [seen EXCEPT ![k] = v] /\ text' = <<>> /\ UNCHANGED <<jobs, runs, watch>>
  BY DEF Judge
<1> HIDE DEF old
<1>5. /\ v \in Statuses
      /\ v \in {"finished", "failed", "stale"} => SaysOver(text[2], old)
      /\ v = "finished" => text[2] = "exit0"
  BY <1>2, <1>3, Verdicts
<1>6. SaysOver(text[2], old) => SaysOver(text[2], text[3])
  BY DEF old, SaysOver
<1>7. text # <<>> /\ Once' = Once
  BY <1>4 DEF Judge, Once
<1> HIDE DEF v
<1>8. \A j \in Jobs : seen'[j] = IF j = k THEN v ELSE seen[j]
  BY <1>4 DEF IInv, WatchTypeOK
<1> HIDE DEF k
<1>9. WatchTypeOK'
  BY <1>2, <1>4, <1>5 DEF IInv, WatchTypeOK
<1>10. ASSUME NEW j \in Once PROVE ToldOver(j)' /\ ToldSuccess(j)'
  BY <1>4, <1>5, <1>6, <1>7, <1>8, <1>10 DEF IInv, Once, ToldOver, ToldSuccess, NoFailure, k
<1> QED BY <1>7, <1>9, <1>10 DEF IInv

\* The invariant is one.
LEMMA IInvariant == WatchSpec => []IInv
<1>1. IInv /\ [WatchNext]_followVars => IInv'
  <2> SUFFICES ASSUME IInv, [WatchNext]_followVars PROVE IInv'
    OBVIOUS
  <2>1. ASSUME NEW k \in Jobs, JobStep(k) \/ Rerun(k) \/ Look(k) PROVE IInv'
    BY <2>1, JobKeeps, RerunKeeps, LookKeeps
  <2>2. CASE Judge
    BY <2>2, JudgeKeeps
  <2>3. CASE Decide
    BY <2>3 DEF Decide, IInv, WatchTypeOK, Done, Once, ToldOver, ToldSuccess, NoFailure
  <2>4. CASE Redraw
    <3>1. /\ UNCHANGED <<jobs, runs, text>> /\ watch' = "scanning"
          /\ seen' = [j \in Jobs |-> Unseen]
      BY <2>4 DEF Redraw
    <3>2. WatchTypeOK'
      BY <3>1 DEF IInv, WatchTypeOK
    <3> QED BY <3>1, <3>2 DEF IInv, Once, ToldOver, ToldSuccess, NoFailure, Unseen
  <2>5. CASE UNCHANGED followVars
    BY <2>5 DEF followVars, IInv, WatchTypeOK, Once, ToldOver, ToldSuccess, NoFailure
  <2> QED BY <2>1, <2>2, <2>3, <2>4, <2>5 DEF WatchNext, Watcher
<1> QED BY InitIInv, <1>1, PTL DEF WatchSpec

\* The variables keep their types: no job is started more often than it may be,
\* and no status is made up.
THEOREM WatchTyping == WatchSpec => []WatchTypeOK
BY IInvariant, PTL DEF IInv

\* For any number of jobs and however their steps fall between the watcher's: a
\* job reported finished, failed or stale has ended its benchmark.
THEOREM ReportedAreOver == WatchSpec => []OverMeansOver
<1>1. IInv => OverMeansOver
  BY DEF IInv, OverMeansOver, ToldOver, Over
<1> QED BY IInvariant, <1>1, PTL

\* And a job reported finished leaves no other exit line than that of a success.
THEOREM ZeroIsSuccess == WatchSpec => []ZeroMeansSuccess
<1>1. IInv => ZeroMeansSuccess
  BY DEF IInv, ZeroMeansSuccess, ToldSuccess, NoFailure
<1> QED BY IInvariant, <1>1, PTL
================================================================================
