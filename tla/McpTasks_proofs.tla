----------------------------- MODULE McpTasks_proofs -----------------------------
(* What task_status says of a task that is over holds for any number of      *)
(* tasks, callers and servers.                                               *)
EXTENDS McpTasks, TLAPS

\* The shell opens the file once its command is over, and what is in it then is
\* the command's exit code.
FileFollowsCommand ==
  \A t \in Tasks :
    /\ rcfile[t] # None => command[t] = "over"
    /\ HasCode(t) => rcfile[t] = code[t]
    /\ command[t] = "over" /\ shell[t] = "running" => code[t] \in Codes

\* A wrapper that ended on its own left the exit code, if it could write it.
EndedLeftCode ==
  \A t \in Tasks :
    shell[t] \in {"exiting", "zombie", "reaped", "other"} => t \in killed \cup unwritten \/ HasCode(t)

\* What was answered came from the file; a call that found no code there is one
\* of a caller who has no final answer yet.
AnswersFromFile ==
  \A c \in Callers, t \in Tasks :
    /\ Settled(c, t) =>
         /\ HasCode(t) /\ exit_code[c][t] = rcfile[t]
         /\ (answer[c][t] = "finished") <=> (rcfile[t] = 0)
         /\ <<c, t>> \notin asking
    /\ answer[c][t] = "gone" => t \in killed \cup unwritten \/ HasCode(t)

IInv ==
  /\ TypeOK /\ FileFollowsCommand /\ EndedLeftCode /\ AnswersFromFile

\* The initial states satisfy the invariant.
LEMMA InitIInv == Init => IInv
<1> SUFFICES ASSUME Init PROVE IInv
  OBVIOUS
<1>1. TypeOK
  <2>1. server \in 1..MaxServers
    BY McpAssumption DEF Init
  <2>2. exit_code \in [Callers -> [Tasks -> Codes \cup {None}]]
    BY DEF Init
  <2>3. answer \in [Callers -> [Tasks -> {"none", "running", "gone", "finished", "failed"}]]
    BY DEF Init
  <2> QED BY McpAssumption, <2>1, <2>2, <2>3 DEF Init, TypeOK
<1>2. FileFollowsCommand /\ EndedLeftCode
  BY DEF Init, FileFollowsCommand, EndedLeftCode, HasCode
<1>3. AnswersFromFile
  BY DEF Init, AnswersFromFile, Settled
<1> QED BY <1>1, <1>2, <1>3 DEF IInv

\* A step keeps the types.
LEMMA TypeKept == TypeOK /\ [Next]_vars => TypeOK'
<1> SUFFICES ASSUME TypeOK, [Next]_vars PROVE TypeOK'
  OBVIOUS
<1> USE McpAssumption DEF TypeOK, None, Empty, history
<1>1. ASSUME NEW t \in Tasks, StartTask(t) PROVE TypeOK'
  BY <1>1 DEF StartTask, Reaped, answers
<1>2. ASSUME NEW t \in Tasks, WriteMeta(t) PROVE TypeOK'
  BY <1>2 DEF WriteMeta, Reaped, answers
<1>3. CASE RunCli
  BY <1>3 DEF RunCli, Reaped, answers
<1>4. CASE ServerEnds
  BY <1>4 DEF ServerEnds, Reaped
<1>5. CASE ServerStarts
  BY <1>5 DEF ServerStarts, process, answers
<1>6. ASSUME NEW t \in Tasks, Wrapper(t) PROVE TypeOK'
  <2>1. CASE CommandEnds(t)
    BY <2>1 DEF CommandEnds, answers
  <2>2. CASE OpenRc(t)
    BY <2>2 DEF OpenRc, answers
  <2>3. CASE WriteRc(t)
    BY <2>3 DEF WriteRc, Echoed, answers
  <2>4. CASE ShellExits(t)
    BY <2>4 DEF ShellExits, Over, answers
  <2>5. CASE RcFails(t)
    BY <2>5 DEF RcFails, answers
  <2> QED BY <1>6, <2>1, <2>2, <2>3, <2>4, <2>5 DEF Wrapper
<1>7. ASSUME NEW t \in Tasks, Kill(t) PROVE TypeOK'
  BY <1>7 DEF Kill, Over, answers
<1>8. ASSUME NEW t \in Tasks, IdReused(t) PROVE TypeOK'
  BY <1>8 DEF IdReused, answers
<1>9. ASSUME NEW c \in Callers, NEW t \in Tasks, TaskStatus(c, t) PROVE TypeOK'
  <2>1. CASE LookAtRc(c, t)
    <3>1. CASE HasCode(t)
      <4>1. rcfile[t] \in Codes
        BY <3>1 DEF HasCode
      <4>2. exit_code' \in [Callers -> [Tasks -> Codes \cup {None}]]
        <5>1. exit_code' = [exit_code EXCEPT ![c] = [exit_code[c] EXCEPT ![t] = rcfile[t]]]
          BY <2>1, <3>1 DEF LookAtRc
        <5> QED BY <4>1, <5>1
      <4>3. answer' \in [Callers -> [Tasks -> {"none", "running", "gone", "finished", "failed"}]]
        <5> DEFINE a == IF rcfile[t] = 0 THEN "finished" ELSE "failed"
        <5>1. answer' = [answer EXCEPT ![c] = [answer[c] EXCEPT ![t] = a]]
          BY <2>1, <3>1 DEF LookAtRc
        <5>2. a \in {"finished", "failed"}
          OBVIOUS
        <5> HIDE DEF a
        <5> QED BY <5>1, <5>2
      <4> QED BY <2>1, <3>1, <4>2, <4>3 DEF LookAtRc, process
    <3>2. CASE ~HasCode(t)
      <4>1. asking' = asking \cup {<<c, t>>} /\ UNCHANGED <<answer, exit_code>>
        BY <2>1, <3>2 DEF LookAtRc
      <4> QED BY <2>1, <4>1 DEF LookAtRc, process
    <3> QED BY <3>1, <3>2
  <2>2. CASE LookAtProcess(c, t)
    BY <2>2 DEF LookAtProcess, process
  <2> QED BY <1>9, <2>1, <2>2 DEF TaskStatus
<1>10. CASE UNCHANGED vars
  BY <1>10 DEF vars
<1> QED
  BY <1>1, <1>2, <1>3, <1>4, <1>5, <1>6, <1>7, <1>8, <1>9, <1>10 DEF Next

\* A step keeps the tie between the file and its command.
LEMMA FileKept == IInv /\ [Next]_vars => FileFollowsCommand'
<1> SUFFICES ASSUME IInv, [Next]_vars, NEW u \in Tasks
             PROVE /\ rcfile'[u] # None => command'[u] = "over"
                   /\ HasCode(u)' => rcfile'[u] = code'[u]
                   /\ command'[u] = "over" /\ shell'[u] = "running" => code'[u] \in Codes
  BY DEF FileFollowsCommand
<1> USE McpAssumption DEF IInv, TypeOK, FileFollowsCommand, HasCode, None, Empty, history
<1> DEFINE Goal == /\ rcfile'[u] # None => command'[u] = "over"
                   /\ HasCode(u)' => rcfile'[u] = code'[u]
                   /\ command'[u] = "over" /\ shell'[u] = "running" => code'[u] \in Codes
<1>1. ASSUME NEW t \in Tasks, StartTask(t) PROVE Goal
  BY <1>1 DEF StartTask, Reaped
<1>2. ASSUME NEW t \in Tasks, WriteMeta(t) PROVE Goal
  BY <1>2 DEF WriteMeta, Reaped
<1>3. CASE RunCli
  BY <1>3 DEF RunCli, Reaped
<1>4. CASE ServerEnds
  BY <1>4 DEF ServerEnds, Reaped
<1>5. CASE ServerStarts
  BY <1>5 DEF ServerStarts, process
<1>6. ASSUME NEW t \in Tasks, Wrapper(t) PROVE Goal
  <2>1. CASE CommandEnds(t)
    BY <2>1 DEF CommandEnds
  <2>2. CASE OpenRc(t)
    BY <2>2 DEF OpenRc
  <2>3. CASE WriteRc(t)
    BY <2>3 DEF WriteRc, Echoed
  <2>4. CASE ShellExits(t)
    BY <2>4 DEF ShellExits, Over
  <2>5. CASE RcFails(t)
    BY <2>5 DEF RcFails
  <2> QED BY <1>6, <2>1, <2>2, <2>3, <2>4, <2>5 DEF Wrapper
<1>7. ASSUME NEW t \in Tasks, Kill(t) PROVE Goal
  BY <1>7 DEF Kill, Over
<1>8. ASSUME NEW t \in Tasks, IdReused(t) PROVE Goal
  BY <1>8 DEF IdReused
<1>9. ASSUME NEW c \in Callers, NEW t \in Tasks, TaskStatus(c, t) PROVE Goal
  BY <1>9 DEF TaskStatus, LookAtRc, LookAtProcess, process
<1>10. CASE UNCHANGED vars
  BY <1>10 DEF vars
<1> QED
  BY <1>1, <1>2, <1>3, <1>4, <1>5, <1>6, <1>7, <1>8, <1>9, <1>10 DEF Next

\* A step keeps the exit code of a wrapper that ended on its own.
LEMMA EndedKept == IInv /\ [Next]_vars => EndedLeftCode'
<1> SUFFICES ASSUME IInv, [Next]_vars, NEW u \in Tasks,
                    shell'[u] \in {"exiting", "zombie", "reaped", "other"}
             PROVE u \in killed' \cup unwritten' \/ HasCode(u)'
  BY DEF EndedLeftCode
<1> USE McpAssumption DEF IInv, TypeOK, FileFollowsCommand, EndedLeftCode, HasCode, None, Empty, history
<1> DEFINE Goal == u \in killed' \cup unwritten' \/ HasCode(u)'
<1>1. ASSUME NEW t \in Tasks, StartTask(t) PROVE Goal
  BY <1>1 DEF StartTask, Reaped
<1>2. ASSUME NEW t \in Tasks, WriteMeta(t) PROVE Goal
  BY <1>2 DEF WriteMeta, Reaped
<1>3. CASE RunCli
  BY <1>3 DEF RunCli, Reaped
<1>4. CASE ServerEnds
  BY <1>4 DEF ServerEnds, Reaped
<1>5. CASE ServerStarts
  BY <1>5 DEF ServerStarts, process
<1>6. ASSUME NEW t \in Tasks, Wrapper(t) PROVE Goal
  <2>1. CASE CommandEnds(t)
    BY <2>1 DEF CommandEnds
  <2>2. CASE OpenRc(t)
    BY <2>2 DEF OpenRc
  <2>3. CASE WriteRc(t)
    BY <2>3 DEF WriteRc, Echoed
  <2>4. CASE ShellExits(t)
    BY <2>4 DEF ShellExits, Over
  <2>5. CASE RcFails(t)
    BY <2>5 DEF RcFails
  <2> QED BY <1>6, <2>1, <2>2, <2>3, <2>4, <2>5 DEF Wrapper
<1>7. ASSUME NEW t \in Tasks, Kill(t) PROVE Goal
  BY <1>7 DEF Kill, Over
<1>8. ASSUME NEW t \in Tasks, IdReused(t) PROVE Goal
  BY <1>8 DEF IdReused
<1>9. ASSUME NEW c \in Callers, NEW t \in Tasks, TaskStatus(c, t) PROVE Goal
  BY <1>9 DEF TaskStatus, LookAtRc, LookAtProcess, process
<1>10. CASE UNCHANGED vars
  BY <1>10 DEF vars
<1> QED
  BY <1>1, <1>2, <1>3, <1>4, <1>5, <1>6, <1>7, <1>8, <1>9, <1>10 DEF Next

\* What the file says, and who was killed or could not write, never changes back.
LEMMA CodeStays ==
  ASSUME IInv, [Next]_vars, NEW t \in Tasks
  PROVE  /\ HasCode(t) => HasCode(t)' /\ rcfile'[t] = rcfile[t]
         /\ t \in killed \cup unwritten => t \in killed' \cup unwritten'
<1> USE McpAssumption DEF IInv, TypeOK, HasCode, None, Empty, history
<1> DEFINE Goal == /\ HasCode(t) => HasCode(t)' /\ rcfile'[t] = rcfile[t]
                   /\ t \in killed \cup unwritten => t \in killed' \cup unwritten'
<1>1. CASE \E u \in Tasks : StartTask(u) \/ WriteMeta(u) \/ Kill(u) \/ IdReused(u)
  BY <1>1 DEF StartTask, WriteMeta, Kill, IdReused
<1>2. CASE RunCli \/ ServerEnds \/ ServerStarts
  BY <1>2 DEF RunCli, ServerEnds, ServerStarts, process
<1>3. ASSUME NEW u \in Tasks, Wrapper(u) PROVE Goal
  BY <1>3 DEF Wrapper, CommandEnds, OpenRc, WriteRc, RcFails, ShellExits
<1>4. ASSUME NEW c \in Callers, NEW u \in Tasks, TaskStatus(c, u) PROVE Goal
  BY <1>4 DEF TaskStatus, LookAtRc, LookAtProcess, process
<1>5. CASE UNCHANGED vars
  BY <1>5 DEF vars
<1> QED BY <1>1, <1>2, <1>3, <1>4, <1>5 DEF Next

\* Only task_status gives answers.
LEMMA OnlyStatusAnswers ==
  ASSUME [Next]_vars, \A c \in Callers, t \in Tasks : ~TaskStatus(c, t)
  PROVE  UNCHANGED <<answer, exit_code>> /\ asking' \subseteq asking
<1>1. CASE \E u \in Tasks : StartTask(u) \/ WriteMeta(u) \/ Kill(u) \/ IdReused(u)
  BY <1>1 DEF StartTask, WriteMeta, Kill, IdReused, answers
<1>2. CASE RunCli \/ ServerEnds \/ ServerStarts
  BY <1>2 DEF RunCli, ServerEnds, ServerStarts, answers
<1>3. ASSUME NEW u \in Tasks, Wrapper(u)
      PROVE  UNCHANGED <<answer, exit_code>> /\ asking' \subseteq asking
  BY <1>3 DEF Wrapper, CommandEnds, OpenRc, WriteRc, RcFails, ShellExits, answers
<1>4. CASE UNCHANGED vars
  BY <1>4 DEF vars
<1> QED BY <1>1, <1>2, <1>3, <1>4 DEF Next

\* The answer to caller d about task u after a step of task_status.
LEMMA AnswerAfter ==
  ASSUME IInv, NEW c \in Callers, NEW t \in Tasks, TaskStatus(c, t),
         NEW d \in Callers, NEW u \in Tasks
  PROVE  \/ UNCHANGED <<answer[d][u], exit_code[d][u]>> /\ (<<d, u>> \in asking' => <<d, u>> \in asking \/ ~HasCode(u))
         \/ /\ HasCode(u) /\ exit_code'[d][u] = rcfile[u]
            /\ answer'[d][u] = IF rcfile[u] = 0 THEN "finished" ELSE "failed"
            /\ <<d, u>> \notin asking'
         \/ /\ <<d, u>> \in asking /\ <<d, u>> \notin asking'
            /\ exit_code'[d][u] = None
            /\ answer'[d][u] = "running" \/ (answer'[d][u] = "gone" /\ shell[u] = "reaped")
<1> USE DEF IInv, TypeOK
<1>1. CASE LookAtRc(c, t)
  <2>1. CASE HasCode(t)
    <3>1. /\ answer' = [answer EXCEPT ![c] = [answer[c] EXCEPT ![t] = IF rcfile[t] = 0 THEN "finished" ELSE "failed"]]
          /\ exit_code' = [exit_code EXCEPT ![c] = [exit_code[c] EXCEPT ![t] = rcfile[t]]]
          /\ asking' = asking /\ <<c, t>> \notin asking
      BY <1>1, <2>1 DEF LookAtRc
    <3>2. CASE c = d /\ t = u
      BY <2>1, <3>1, <3>2
    <3>3. CASE c # d \/ t # u
      BY <3>1, <3>3
    <3> QED BY <3>2, <3>3
  <2>2. CASE ~HasCode(t)
    BY <1>1, <2>2 DEF LookAtRc
  <2> QED BY <2>1, <2>2
<1>2. CASE LookAtProcess(c, t)
  <2> DEFINE a == IF Alive(t) THEN "running" ELSE "gone"
  <2>1. /\ answer' = [answer EXCEPT ![c] = [answer[c] EXCEPT ![t] = a]]
        /\ exit_code' = [exit_code EXCEPT ![c] = [exit_code[c] EXCEPT ![t] = None]]
        /\ asking' = asking \ {<<c, t>>} /\ <<c, t>> \in asking
    BY <1>2 DEF LookAtProcess
  <2>2. a = "running" \/ (a = "gone" /\ shell[t] = "reaped")
    BY DEF Alive
  <2> HIDE DEF a
  <2>3. CASE c = d /\ t = u
    BY <2>1, <2>2, <2>3
  <2>4. CASE c # d \/ t # u
    BY <2>1, <2>4
  <2> QED BY <2>3, <2>4
<1> QED BY <1>1, <1>2 DEF TaskStatus

\* A step keeps the tie between the answers and the file.
LEMMA AnswersKept == IInv /\ [Next]_vars => AnswersFromFile'
<1> SUFFICES ASSUME IInv, [Next]_vars, NEW d \in Callers, NEW u \in Tasks
             PROVE /\ Settled(d, u)' =>
                       /\ HasCode(u)' /\ exit_code'[d][u] = rcfile'[u]
                       /\ (answer'[d][u] = "finished") <=> (rcfile'[u] = 0)
                       /\ <<d, u>> \notin asking'
                   /\ answer'[d][u] = "gone" => u \in killed' \cup unwritten' \/ HasCode(u)'
  BY DEF AnswersFromFile
<1>1. /\ HasCode(u) => HasCode(u)' /\ rcfile'[u] = rcfile[u]
      /\ u \in killed \cup unwritten => u \in killed' \cup unwritten'
  BY CodeStays
<1>2. /\ Settled(d, u) =>
           /\ HasCode(u) /\ exit_code[d][u] = rcfile[u]
           /\ (answer[d][u] = "finished") <=> (rcfile[u] = 0)
           /\ <<d, u>> \notin asking
      /\ answer[d][u] = "gone" => u \in killed \cup unwritten \/ HasCode(u)
      /\ shell[u] = "reaped" => u \in killed \cup unwritten \/ HasCode(u)
  BY DEF IInv, AnswersFromFile, EndedLeftCode
<1>3. CASE \A c \in Callers, t \in Tasks : ~TaskStatus(c, t)
  <2>1. UNCHANGED <<answer, exit_code>> /\ asking' \subseteq asking
    BY <1>3, OnlyStatusAnswers
  <2> QED BY <1>1, <1>2, <2>1 DEF Settled
<1>4. ASSUME NEW c \in Callers, NEW t \in Tasks, TaskStatus(c, t)
      PROVE /\ Settled(d, u)' =>
                /\ HasCode(u)' /\ exit_code'[d][u] = rcfile'[u]
                /\ (answer'[d][u] = "finished") <=> (rcfile'[u] = 0)
                /\ <<d, u>> \notin asking'
            /\ answer'[d][u] = "gone" => u \in killed' \cup unwritten' \/ HasCode(u)'
  BY <1>1, <1>2, <1>4, AnswerAfter DEF Settled
<1> QED BY <1>3, <1>4

\* The invariant is one.
LEMMA IInvariant == Spec => []IInv
<1>1. IInv /\ [Next]_vars => IInv'
  BY TypeKept, FileKept, EndedKept, AnswersKept DEF IInv
<1> QED BY InitIInv, <1>1, PTL DEF Spec

\* What task_status says of a task that has finished or failed is true of it, for
\* any number of tasks, callers and servers: the file is written after the command,
\* with its exit code, or not at all.
THEOREM AnswersHold == Spec => []SettledTrue
<1>1. IInv => SettledTrue
  <2> SUFFICES ASSUME IInv, NEW c \in Callers, NEW t \in Tasks, Settled(c, t)
               PROVE  /\ command[t] = "over" /\ exit_code[c][t] = code[t]
                      /\ (answer[c][t] = "finished") <=> (code[t] = 0)
    BY DEF SettledTrue
  <2>1. HasCode(t) => command[t] = "over" /\ rcfile[t] = code[t]
    BY DEF IInv, FileFollowsCommand, HasCode
  <2>2. HasCode(t) /\ exit_code[c][t] = rcfile[t] /\ ((answer[c][t] = "finished") <=> (rcfile[t] = 0))
    BY DEF IInv, AnswersFromFile
  <2> QED BY <2>1, <2>2
<1> QED BY IInvariant, <1>1, PTL

\* An answer "gone" has one of three causes; the comment in the code names the first.
THEOREM GoneHasCause == Spec => []GoneExplained
<1>1. IInv => GoneExplained
  BY DEF IInv, AnswersFromFile, FileFollowsCommand, GoneExplained
<1> QED BY IInvariant, <1>1, PTL

\* A caller who was told that a task has ended is never told anything else: the
\* exit code in the file is final.
THEOREM FinalAnswers == Spec => SettledStays
<1>1. IInv /\ [Next]_vars =>
        \A c \in Callers, t \in Tasks :
          Settled(c, t) => answer'[c][t] = answer[c][t] /\ exit_code'[c][t] = exit_code[c][t]
  <2> SUFFICES ASSUME IInv, [Next]_vars, NEW d \in Callers, NEW u \in Tasks, Settled(d, u)
               PROVE  answer'[d][u] = answer[d][u] /\ exit_code'[d][u] = exit_code[d][u]
    OBVIOUS
  <2>1. /\ exit_code[d][u] = rcfile[u] /\ <<d, u>> \notin asking
        /\ answer[d][u] = IF rcfile[u] = 0 THEN "finished" ELSE "failed"
    BY DEF IInv, AnswersFromFile, Settled
  <2>2. CASE \A c \in Callers, t \in Tasks : ~TaskStatus(c, t)
    BY <2>2, OnlyStatusAnswers
  <2>3. ASSUME NEW c \in Callers, NEW t \in Tasks, TaskStatus(c, t)
        PROVE  answer'[d][u] = answer[d][u] /\ exit_code'[d][u] = exit_code[d][u]
    BY <2>1, <2>3, AnswerAfter
  <2> QED BY <2>2, <2>3
<1> QED BY IInvariant, <1>1, PTL DEF Spec, SettledStays
==================================================================================
