-------------------------------- MODULE McpTasks --------------------------------
(***************************************************************************)
(* The background tasks of `cbench mcp` (python/cbench/mcp_tools.py): a    *)
(* shell wrapper runs the command, then writes its exit code to a file;    *)
(* task_status looks at that file, and if there is no code in it at        *)
(* whether the wrapper's process exists.                                   *)
(*                                                                         *)
(* A server that started a task is the wrapper's parent: a wrapper that    *)
(* ended stays a zombie, which exists, until the server starts another     *)
(* process (subprocess reaps then) or ends itself.  Process ids are used   *)
(* again.  The wrapper can be killed, alone or with its command, and may   *)
(* be unable to write the file.                                            *)
(***************************************************************************)
EXTENDS Integers, FiniteSets

CONSTANTS
  Tasks,       \* task ids
  Callers,     \* clients: tool calls run in threads, one of a client at a time
  Codes,       \* exit codes of commands
  MaxServers   \* bound: servers one after the other

ASSUME McpAssumption == Codes \subseteq Nat /\ 0 \in Codes /\ MaxServers \in Nat \ {0}

None  == -1    \* no exit code
Empty == -2    \* the shell has opened the file and not written to it

VARIABLES
  server,    \* the last server that was started: 1, 2, ...
  up,        \* whether it is running
  parent,    \* task -> the server that started it
  command,   \* task -> none, running, over
  code,      \* task -> its command's exit code
  shell,     \* task -> the process with the wrapper's id: none, running, exiting,
             \* zombie, reaped, or other when the id belongs to another program
  killed,    \* history: tasks whose wrapper was killed
  unwritten, \* history: tasks whose wrapper could not write the exit code
  rcfile,    \* task -> none, empty, or an exit code
  meta,      \* tasks whose description is written, so that its id is known
  asking,    \* pairs <<caller, task>>: a task_status that found no exit code
  answer,    \* caller -> task -> the last answer: none, running, gone, finished, failed
  exit_code  \* caller -> task -> the exit code in it

vars == <<server, up, parent, command, code, shell, killed, unwritten, rcfile, meta, asking, answer,
          exit_code>>
answers == <<asking, answer, exit_code>>
history == <<killed, unwritten>>
process == <<command, code, shell, history, rcfile>>

Init ==
  /\ server = 1 /\ up = TRUE
  /\ parent = [t \in Tasks |-> 0]
  /\ command = [t \in Tasks |-> "none"]
  /\ code = [t \in Tasks |-> None]
  /\ shell = [t \in Tasks |-> "none"]
  /\ killed = {} /\ unwritten = {}
  /\ rcfile = [t \in Tasks |-> None]
  /\ meta = {}
  /\ asking = {}
  /\ answer = [c \in Callers |-> [t \in Tasks |-> "none"]]
  /\ exit_code = [c \in Callers |-> [t \in Tasks |-> None]]

\* The wrappers that Popen of this server has still to reap, reaped.
Reaped(known) ==
  [t \in Tasks |-> IF shell[t] = "zombie" /\ parent[t] = server /\ t \in known
                   THEN "reaped" ELSE shell[t]]

\* The wrapper of task t ends: a zombie while its parent is there.
Over(t) == IF up /\ parent[t] = server THEN "zombie" ELSE "reaped"

--------------------------------------------------------------------------------
\* The server.

\* start_task up to Popen.
StartTask(t) ==
  /\ up /\ command[t] = "none"
  /\ command' = [command EXCEPT ![t] = "running"]
  /\ shell' = [Reaped(meta) EXCEPT ![t] = "running"]
  /\ parent' = [parent EXCEPT ![t] = server]
  /\ UNCHANGED <<server, up, code, history, rcfile, meta, answers>>

\* ... and its description, after which the caller has the task's id.
WriteMeta(t) ==
  /\ up /\ parent[t] = server /\ t \notin meta
  /\ meta' = meta \cup {t}
  /\ shell' = Reaped({t})      \* the Popen object goes
  /\ UNCHANGED <<server, up, parent, command, code, history, rcfile, answers>>

\* The server starts another process, as most tools do: Popen polls what it has
\* not reaped.
RunCli ==
  /\ up /\ Reaped(meta) # shell
  /\ shell' = Reaped(meta)
  /\ UNCHANGED <<server, up, parent, command, code, history, rcfile, meta, answers>>

\* The server ends, in the middle of a call too; the tasks go on.
ServerEnds ==
  /\ up
  /\ up' = FALSE
  /\ shell' = Reaped(Tasks)      \* by init
  /\ asking' = {}
  /\ UNCHANGED <<server, parent, command, code, history, rcfile, meta, answer, exit_code>>

ServerStarts ==
  /\ ~up /\ server < MaxServers
  /\ up' = TRUE /\ server' = server + 1
  /\ UNCHANGED <<parent, process, meta, answers>>

--------------------------------------------------------------------------------
\* The wrapper: "$@"; echo $? > "$0"

CommandEnds(t) ==
  /\ command[t] = "running"
  /\ \E c \in Codes : code' = [code EXCEPT ![t] = c]
  /\ command' = [command EXCEPT ![t] = "over"]
  /\ UNCHANGED <<server, up, parent, shell, history, rcfile, meta, answers>>

OpenRc(t) ==
  /\ shell[t] = "running" /\ command[t] = "over" /\ rcfile[t] = None
  /\ rcfile' = [rcfile EXCEPT ![t] = Empty]
  /\ UNCHANGED <<server, up, parent, command, code, shell, history, meta, answers>>

\* Variant: "$@" && echo $?.
EchoedIfZero(t) == IF code[t] = 0 THEN 0 ELSE Empty

\* echo $?
Echoed(t) == code[t]

WriteRc(t) ==
  /\ shell[t] = "running" /\ rcfile[t] = Empty
  /\ rcfile' = [rcfile EXCEPT ![t] = Echoed(t)]
  /\ shell' = [shell EXCEPT ![t] = "exiting"]
  /\ UNCHANGED <<server, up, parent, command, code, history, meta, answers>>

\* The file cannot be opened, or what was to go into it cannot be written; the
\* shell says so in the log and ends.
RcFails(t) ==
  /\ shell[t] = "running" /\ command[t] = "over"
  /\ shell' = [shell EXCEPT ![t] = "exiting"]
  /\ unwritten' = unwritten \cup {t}
  /\ UNCHANGED <<server, up, parent, command, code, killed, rcfile, meta, answers>>

ShellExits(t) ==
  /\ shell[t] = "exiting"
  /\ shell' = [shell EXCEPT ![t] = Over(t)]
  /\ UNCHANGED <<server, up, parent, command, code, history, rcfile, meta, answers>>

\* Somebody kills the process the task's description names, or its group.
Kill(t) ==
  /\ shell[t] = "running"
  /\ shell' = [shell EXCEPT ![t] = Over(t)]
  /\ killed' = killed \cup {t}
  /\ command' = [command EXCEPT ![t] = "over"] \/ UNCHANGED command
  /\ UNCHANGED <<server, up, parent, code, unwritten, rcfile, meta, answers>>

\* The id of a process that was reaped is used again.
IdReused(t) ==
  /\ shell[t] = "reaped"
  /\ shell' = [shell EXCEPT ![t] = "other"]
  /\ UNCHANGED <<server, up, parent, command, code, history, rcfile, meta, answers>>

--------------------------------------------------------------------------------
\* task_status

\* Variant: a file that is there holds the code.
HasCodeIfThere(t) == rcfile[t] # None

HasCode(t) == rcfile[t] \notin {None, Empty}

\* Its first look: at the exit code.
LookAtRc(c, t) ==
  /\ up /\ t \in meta /\ \A u \in Tasks : <<c, u>> \notin asking
  /\ IF HasCode(t)
     THEN /\ answer' = [answer EXCEPT ![c][t] = IF rcfile[t] = 0 THEN "finished" ELSE "failed"]
          /\ exit_code' = [exit_code EXCEPT ![c][t] = rcfile[t]]
          /\ UNCHANGED asking
     ELSE asking' = asking \cup {<<c, t>>} /\ UNCHANGED <<answer, exit_code>>
  /\ UNCHANGED <<server, up, parent, process, meta>>

\* _alive: whether there is a process with the wrapper's id.
Alive(t) == shell[t] # "reaped"

\* Its second look: at the process.
LookAtProcess(c, t) ==
  /\ up /\ <<c, t>> \in asking
  /\ answer' = [answer EXCEPT ![c][t] = IF Alive(t) THEN "running" ELSE "gone"]
  /\ exit_code' = [exit_code EXCEPT ![c][t] = None]
  /\ asking' = asking \ {<<c, t>>}
  /\ UNCHANGED <<server, up, parent, process, meta>>

TaskStatus(c, t) == LookAtRc(c, t) \/ LookAtProcess(c, t)
Wrapper(t) == CommandEnds(t) \/ OpenRc(t) \/ WriteRc(t) \/ RcFails(t) \/ ShellExits(t)

Next ==
  \/ \E t \in Tasks : StartTask(t) \/ WriteMeta(t)
  \/ RunCli \/ ServerEnds \/ ServerStarts
  \/ \E t \in Tasks : Wrapper(t) \/ Kill(t) \/ IdReused(t)
  \/ \E c \in Callers, t \in Tasks : TaskStatus(c, t)

Spec == Init /\ [][Next]_vars

\* The wrapper and its command run; a server that is up writes the description
\* and answers; callers ask about every task again and again.
FairSpec ==
  /\ Spec
  /\ \A t \in Tasks :
       /\ WF_vars(Wrapper(t)) /\ WF_vars(WriteMeta(t))
       /\ \A c \in Callers : SF_vars(LookAtRc(c, t)) /\ WF_vars(LookAtProcess(c, t))

--------------------------------------------------------------------------------

TypeOK ==
  /\ server \in 1..MaxServers /\ up \in BOOLEAN
  /\ parent \in [Tasks -> 0..MaxServers]
  /\ command \in [Tasks -> {"none", "running", "over"}]
  /\ code \in [Tasks -> Codes \cup {None}]
  /\ shell \in [Tasks -> {"none", "running", "exiting", "zombie", "reaped", "other"}]
  /\ killed \subseteq Tasks /\ unwritten \subseteq Tasks /\ meta \subseteq Tasks /\ asking \subseteq Callers \X Tasks
  /\ rcfile \in [Tasks -> Codes \cup {None, Empty}]
  /\ answer \in [Callers -> [Tasks -> {"none", "running", "gone", "finished", "failed"}]]
  /\ exit_code \in [Callers -> [Tasks -> Codes \cup {None}]]

Settled(c, t) == answer[c][t] \in {"finished", "failed"}

\* An answer "finished" or "failed" is about a command that has ended, and has the
\* exit code it ended with, however many servers and callers came between and
\* whatever the wrapper failed to write (mcp_tools.py:177-181).
SettledTrue ==
  \A c \in Callers, t \in Tasks :
    Settled(c, t) =>
      /\ command[t] = "over" /\ exit_code[c][t] = code[t]
      /\ (answer[c][t] = "finished") <=> (code[t] = 0)

\* What is behind an answer "gone" (mcp_tools.py:184): the wrapper was killed, or
\* could not write the file, or ended between the two looks and left the code.
GoneExplained ==
  \A c \in Callers, t \in Tasks :
    answer[c][t] = "gone" => t \in killed \cup unwritten \/ (HasCode(t) /\ rcfile[t] = code[t])

\* The comment on it, "killed without an exit code" (mcp_tools.py:184), says that a
\* task that is gone has left no exit code.
GoneMeansNoCode == \A c \in Callers, t \in Tasks : answer[c][t] = "gone" => ~HasCode(t)

\* No caller is told that a task has ended and later that it runs or is gone.
SettledStays ==
  [][\A c \in Callers, t \in Tasks :
       Settled(c, t) => answer'[c][t] = answer[c][t] /\ exit_code'[c][t] = exit_code[c][t]]_vars

\* A task that nobody kills and whose exit code can be written is reported as
\* finished or failed in the end to everybody who asks, as long as a server is
\* there (mcp_tools.py:168-184).
TaskReported ==
  \A c \in Callers, t \in Tasks : t \in meta ~> Settled(c, t) \/ t \in killed \cup unwritten \/ ~up
================================================================================
