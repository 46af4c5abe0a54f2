-------------------------------- MODULE JobLife --------------------------------
(***************************************************************************)
(* What a watcher may rely on about one run of a job: the abstract         *)
(* specification JobScript implements and Watch is built from.             *)
(*                                                                         *)
(* A job is a record:                                                      *)
(*   phase   waiting, up (its benchmark is not over), ending (its EXIT trap *)
(*           runs), gone                                                   *)
(*   beats   its heartbeat loop is alive                                   *)
(*   file    its heartbeat file                                            *)
(*   output  there is job output beside the file                           *)
(*   rc      the exit status of the script once its benchmark is over: 0, 1 *)
(*   quiet   the file says the job is alive and is older than the window   *)
(***************************************************************************)
EXTENDS HeartbeatStatus

VARIABLE job

Fresh == [phase |-> "waiting", beats |-> FALSE, file |-> "absent",
          output |-> FALSE, rc |-> 0, quiet |-> FALSE]

States == [phase : {"waiting", "up", "ending", "gone"}, beats : BOOLEAN,
           file : Files, output : BOOLEAN, rc : {0, 1}, quiet : BOOLEAN]

Rewrite(s, contents) == {[s EXCEPT !.file = f, !.quiet = FALSE] : f \in contents}

\* The script starts; output exists from its first lines on.
Started(s) ==
  IF s.phase = "waiting" THEN {[s EXCEPT !.phase = "up", !.output = TRUE]} ELSE {}

\* The "started" line, and the fork of the loop.
Noted(s) ==
  IF s.phase = "up" /\ ~s.beats
  THEN Rewrite(s, {"empty", "started"}) \cup {[s EXCEPT !.beats = TRUE]} ELSE {}

\* A beat: the file is truncated, then written.
Beat(s) == IF s.beats THEN Rewrite(s, {"empty", "running"}) ELSE {}

\* The exit line.
ExitLine(status) == IF status = 0 THEN "exit0" ELSE "exitN"
Recorded(s) == IF s.phase = "ending" THEN Rewrite(s, {"empty", ExitLine(s.rc)}) ELSE {}

\* The loop ends, on its own or stopped by the ending job.
Silenced(s) == IF s.phase \in {"ending", "gone"} THEN {[s EXCEPT !.beats = FALSE]} ELSE {}

\* The benchmark is over, and then the shell, which can also die at any time,
\* with its loop or without it.
Ended(s) ==
  IF s.phase = "up" THEN {[s EXCEPT !.phase = "ending", !.rc = r] : r \in {0, 1}} ELSE {}
Gone(s, beats) == {[s EXCEPT !.phase = "gone", !.rc = r, !.beats = beats] : r \in {s.rc, 1}}
Died(s) ==
  IF s.phase \in {"up", "ending"} THEN Gone(s, s.beats) \cup Gone(s, FALSE) ELSE {}

\* Only a job whose benchmark is over and whose loop is gone lets the file of a
\* live job grow old.
GrewOld(s) ==
  IF s.phase \in {"ending", "gone"} /\ ~s.beats /\ s.file \in Alive
  THEN {[s EXCEPT !.quiet = TRUE]} ELSE {}

Succ(s) ==
  Started(s) \cup Noted(s) \cup Beat(s) \cup Recorded(s) \cup Silenced(s)
  \cup Ended(s) \cup Died(s) \cup GrewOld(s)

Init == job = Fresh
Next == job' \in Succ(job)
Spec == Init /\ [][Next]_job
================================================================================
