-------------------------- MODULE ThrottledBatch_proofs --------------------------
(***************************************************************************)
(* Proofs about ThrottledBatch, for every list of scripts, repeat count    *)
(* and width: the width, the rounds, and that none is left out.           *)
(***************************************************************************)
EXTENDS ThrottledBatch, FiniteSetTheorems, TLAPS

\* A pass has at least one pass over the list left; needed for the types.
Walking == pc = "pass" => loops >= 1

\* Where a pass goes after one script.
LEMMA AdvanceStep ==
  ASSUME TypeOK, Walking, pc = "pass", Advance
  PROVE  pc' \in {"pass", "check"} /\ loops' \in Nat /\ i' \in Scripts /\ Walking'
<1>1. N \in Nat \ {0} /\ loops \in Nat /\ loops >= 1 /\ i \in 1..N
  BY ThrottledAssumption DEF TypeOK, Walking, Scripts
<1>2. CASE i < N
  BY <1>1, <1>2 DEF Advance, Walking, Scripts
<1>3. CASE ~(i < N)
  BY <1>1, <1>3 DEF Advance, Walking, Scripts
<1>4. QED BY <1>2, <1>3

\* The counters stay in their ranges: no script is submitted more often than
\* --repeat asks for, and the number left never drops below 0.
THEOREM Typing == Spec => [](TypeOK /\ Walking)
<1>1. Init => TypeOK /\ Walking
  <2> SUFFICES ASSUME Init PROVE TypeOK /\ Walking
    OBVIOUS
  <2>1. N * Repeat \in Nat
    BY ThrottledAssumption
  <2>2. found \in BOOLEAN
    BY DEF Init
  <2>3. total \in 0..(N * Repeat) /\ left \in [Scripts -> 0..Repeat]
    BY <2>1, ThrottledAssumption DEF Init
  <2>4. QED
    BY <2>2, <2>3, ThrottledAssumption DEF Init, TypeOK, Walking, Scripts, NADA
<1>2. TypeOK /\ Walking /\ [Next]_vars => TypeOK' /\ Walking'
  <2> SUFFICES ASSUME TypeOK, Walking, [Next]_vars PROVE TypeOK' /\ Walking'
    OBVIOUS
  <2>0. N \in Nat /\ N > 0 /\ Width \in Int /\ Repeat \in Nat /\ N * Repeat \in Nat
    BY ThrottledAssumption
  <2>1. CASE Poll
    <3>1. PICK num \in {0, inq} :
            /\ Reports(num)
            /\ IF Width - num <= 0 THEN UNCHANGED <<pc, delta, found, loops, i>>
               ELSE /\ delta' = Width - num /\ found' = FALSE /\ i' = 1 /\ pc' = "pass"
                    /\ loops' = IF N < Width - num THEN ((Width - num) \div N) + 1 ELSE 1
      BY <2>1 DEF Poll
    <3>2. num \in Nat /\ failures' \in 0..MaxFailures
      BY <3>1, ThrottledAssumption DEF Reports, TypeOK
    <3>3. found' \in BOOLEAN
      BY <3>1 DEF TypeOK
    <3>4. pc' = "pass" => loops' \in Nat /\ loops' >= 1 /\ delta' \in Int /\ i' \in Scripts
      BY <2>0, <2>1, <3>1, <3>2 DEF Poll, Scripts, TypeOK
    <3>5. QED
      BY <2>1, <3>1, <3>2, <3>3, <3>4 DEF Poll, TypeOK, Walking
  <2>2. CASE PassFind
    BY <2>2, AdvanceStep DEF PassFind, TypeOK
  <2>3. CASE PassSkip
    <3>1. found' \in BOOLEAN
      BY <2>3 DEF PassSkip, TypeOK, Here, AnyStart
    <3>2. last' \in {last, N + 1}
      BY <2>3 DEF PassSkip, NextLast, BACKTOTOP
    <3>3. last' \in 0..(N + 1)
      BY <2>0, <3>2 DEF TypeOK
    <3>4. QED
      BY <2>3, <3>1, <3>3, AdvanceStep DEF PassSkip, TypeOK
  <2>4. CASE PassSubmit
    <3>1. found' \in BOOLEAN
      BY <2>4 DEF PassSubmit, TypeOK, Here, AnyStart
    <3>2. last' \in 0..(N + 1) /\ inq' \in Nat /\ delta' \in Int
      BY <2>0, <2>4 DEF PassSubmit, TypeOK, Scripts
    <3>3. left' \in [Scripts -> 0..Repeat]
      BY <2>0, <2>4 DEF PassSubmit, TypeOK
    <3>4. total' \in 0..(N * Repeat)
      BY <2>0, <2>4 DEF PassSubmit, Spent, TypeOK
    <3>5. QED
      BY <2>4, <3>1, <3>2, <3>3, <3>4, AdvanceStep DEF PassSubmit, TypeOK
  <2>5. CASE Check \/ WaitForAll
    BY <2>5, ThrottledAssumption DEF Check, WaitForAll, Reports, TypeOK, Walking
  <2>6. CASE JobLeaves \/ \E s \in Scripts : DirectoryGone(s)
    BY <2>6 DEF JobLeaves, DirectoryGone, TypeOK, Walking
  <2>7. CASE UNCHANGED vars
    BY <2>7 DEF vars, TypeOK, Walking
  <2>8. QED
    BY <2>1, <2>2, <2>3, <2>4, <2>5, <2>6, <2>7 DEF Next, StartJobs
<1>3. QED
  BY <1>1, <1>2, PTL DEF Spec

--------------------------------------------------------------------------------

\* What the width allows: as often as a query failed, it was taken to be free.
Allowed == (1 + failures) * Width

\* While the list is walked, what is in the batch system and what this poll may
\* still submit fit into what is allowed; jobs only leave.  Inductive.
Room ==
  Width >= 0 =>
    /\ inq <= Allowed
    /\ pc = "pass" => delta >= 0 /\ inq + delta <= Allowed

\* A query that fails allows one width more.
LEMMA AllowedStep ==
  ASSUME TypeOK, Width >= 0
  PROVE  /\ Allowed \in Nat /\ Width <= Allowed
         /\ failures' = failures => Allowed' = Allowed
         /\ failures' = failures + 1 => Allowed' = Allowed + Width
<1>1. failures \in Nat /\ Width \in Nat
  BY ThrottledAssumption DEF TypeOK
<1>2. failures * Width \in Nat /\ Allowed = failures * Width + Width
  BY <1>1 DEF Allowed
<1>3. failures' = failures + 1 => Allowed' = Allowed + Width
  <2> SUFFICES ASSUME failures' = failures + 1 PROVE Allowed' = Allowed + Width
    OBVIOUS
  <2>1. Allowed' = (1 + (failures + 1)) * Width
    BY DEF Allowed
  <2> QED BY <1>1, <2>1 DEF Allowed
<1>4. failures' = failures => Allowed' = Allowed
  BY DEF Allowed
<1>5. Allowed \in Nat /\ Width <= Allowed
  <2> DEFINE more == failures * Width
  <2>1. more \in Nat /\ Width \in Nat /\ Allowed = more + Width
    BY <1>1, <1>2
  <2> HIDE DEF more
  <2> QED BY <2>1
<1> QED BY <1>3, <1>4, <1>5

\* The width is never exceeded, however jobs leave the batch system while
\* start_jobs is between its poll and its last submission, but for as many jobs
\* again for each query that failed (cbench.pl:1145-1243).
THEOREM Throttle == Spec => []WidthHeld
<1>1. Init => Room
  <2>1. Init /\ Width >= 0 => Allowed = Width
    BY ThrottledAssumption DEF Init, Allowed
  <2> QED BY <2>1 DEF Init, Room
<1>2. TypeOK /\ Walking /\ Room /\ [Next]_vars /\ TypeOK' => Room'
  <2> SUFFICES ASSUME TypeOK, Walking, Room, [Next]_vars, TypeOK', Width >= 0
               PROVE  inq' <= Allowed' /\ (pc' = "pass" => delta' >= 0 /\ inq' + delta' <= Allowed')
    BY DEF Room
  <2>0. /\ Width \in Nat /\ inq \in Nat /\ delta \in Int /\ inq <= Allowed
        /\ pc = "pass" => delta >= 0 /\ inq + delta <= Allowed
    BY ThrottledAssumption DEF Room, TypeOK
  <2> USE AllowedStep
  <2>1. CASE Poll
    <3>1. PICK num \in {0, inq} :
            /\ Reports(num)
            /\ \/ Width - num <= 0 /\ UNCHANGED <<pc, delta>>
               \/ Width - num > 0 /\ delta' = Width - num
      BY <2>0, <2>1 DEF Poll
    <3>2. inq' = inq /\ pc = "poll"
      BY <2>1 DEF Poll
    <3>3. CASE num = inq /\ UNCHANGED failures
      BY <2>0, <3>1, <3>2, <3>3
    <3>4. CASE num = 0 /\ failures' = failures + 1
      BY <2>0, <3>1, <3>2, <3>4
    <3> QED BY <3>1, <3>3, <3>4 DEF Reports
  <2>2. CASE PassFind \/ PassSkip
    BY <2>0, <2>2 DEF PassFind, PassSkip
  <2>3. CASE PassSubmit
    <3>1. /\ pc = "pass" /\ ~(delta <= 0) /\ delta' = delta - 1 /\ inq' \in {inq, inq + 1}
          /\ failures' = failures
      BY <2>3 DEF PassSubmit, Spent
    <3>2. delta \in Nat /\ delta >= 1 /\ inq + delta <= Allowed
      BY <2>0, <3>1
    <3>3. CASE inq' = inq
      BY <2>0, <3>1, <3>2, <3>3
    <3>4. CASE inq' = inq + 1
      BY <2>0, <3>1, <3>2, <3>4
    <3>5. QED
      BY <3>1, <3>3, <3>4
  <2>4. CASE Check \/ WaitForAll
    BY <2>0, <2>4 DEF Check, WaitForAll, Reports
  <2>5. CASE JobLeaves \/ \E s \in Scripts : DirectoryGone(s)
    BY <2>0, <2>5 DEF JobLeaves, DirectoryGone
  <2>6. CASE UNCHANGED vars
    BY <2>0, <2>6 DEF vars
  <2>7. QED
    BY <2>1, <2>2, <2>3, <2>4, <2>5, <2>6 DEF Next, StartJobs
<1>3. Room => WidthHeld
  BY DEF Room, WidthHeld, Allowed
<1>4. QED
  BY <1>1, <1>2, <1>3, Typing, PTL DEF Spec

--------------------------------------------------------------------------------
\* The rounds.

\* The scripts that can be submitted, and how far the round has come.
Live   == Scripts \ missing
Resume == IF AnyStart THEN 0 ELSE last

\* Up to where the round has come, scripts have been submitted once more than the
\* scripts after it.
Split == \E c \in Int : \A s \in Live : left[s] = IF s <= Resume THEN c - 1 ELSE c

\* A pass that may submit stands at the next script of the round, apart from
\* scripts without directory, or nothing is left that could be submitted.
NextInRound ==
  pc = "pass" /\ ~Spent /\ Here =>
    \/ \A s \in Live : left[s] = 0
    \/ i > Resume /\ \A s \in Live : ~(Resume < s /\ s < i)
    \/ i <= Resume /\ \A s \in Live : s <= Resume /\ ~(s < i)

\* The counters alone tell that a script at hand with nothing left is the last.
LEMMA NothingLeft ==
  ASSUME TypeOK, Split, NEW s \in Live, left[s] = 0,
         \/ s > Resume
         \/ s <= Resume /\ \A u \in Live : u <= Resume
  PROVE  \A u \in Live : left[u] = 0
<1>1. PICK c \in Int : \A u \in Live : left[u] = IF u <= Resume THEN c - 1 ELSE c
  BY DEF Split
<1>2. \A u \in Live : u \in Int /\ left[u] \in Nat
  BY ThrottledAssumption DEF Live, Scripts, TypeOK
<1>3. Resume \in Int
  BY ThrottledAssumption DEF Resume, TypeOK
<1> QED BY <1>1, <1>2, <1>3

\* Going on after a script that is not submitted.
LEMMA SkipInRound ==
  ASSUME TypeOK, Walking, Split, NextInRound, PassSkip
  PROVE  Split' /\ NextInRound'
<1>0. /\ N \in Nat /\ N > 0 /\ i \in 1..N /\ last \in 0..(N + 1)
      /\ UNCHANGED <<left, total, delta, missing>> /\ pc = "pass" /\ Live' = Live
      /\ \A s \in Live : s \in 1..N
  BY ThrottledAssumption DEF PassSkip, TypeOK, Scripts, Live
<1>1. i' = IF i < N THEN i + 1 ELSE 1
  BY DEF PassSkip, Advance
<1>2. CASE Spent /\ UNCHANGED <<found, last>>
  <2>1. Spent' /\ Resume' = Resume
    BY <1>0, <1>2 DEF Spent, Resume, AnyStart, NADA, BACKTOTOP
  <2> QED BY <1>0, <2>1 DEF Split, NextInRound
<1>3. CASE /\ ~Spent /\ (AtLast => i = N)
           /\ ~Here \/ left[i] = 0 \/ i \in missing
           /\ found' = Here /\ last' = NextLast
  <2>1. CASE ~AnyStart /\ AtLastEnd
    <3>1. Resume = N /\ Resume' = 0 /\ i' = 1
      BY <1>0, <1>1, <1>3, <2>1
      DEF Resume, AnyStart, AtLastEnd, AtLast, NextLast, NADA, BACKTOTOP
    <3>2. Split'
      <4>1. PICK c \in Int : \A s \in Live : left[s] = IF s <= Resume THEN c - 1 ELSE c
        BY DEF Split
      <4>2. c - 1 \in Int /\ \A s \in Live : left'[s] = IF s <= Resume' THEN (c - 1) - 1 ELSE c - 1
        BY <1>0, <3>1, <4>1
      <4> QED BY <1>0, <4>2 DEF Split
    <3> QED BY <1>0, <3>1, <3>2 DEF NextInRound
  <2>2. CASE ~(~AnyStart /\ AtLastEnd)
    <3>1. last' = last /\ AnyStart' = AnyStart /\ Resume' = Resume /\ Resume # i
      BY <1>0, <1>3, <2>2 DEF NextLast, AnyStart, AtLastEnd, AtLast, Resume, NADA, BACKTOTOP
    <3>2. Split'
      BY <1>0, <3>1 DEF Split
    <3>3. Resume \in 0..N
      BY <1>0 DEF Resume, AnyStart, NADA, BACKTOTOP
    <3>4. CASE ~Here
      <4>1. ~Here'
        BY <1>3, <3>1, <3>4 DEF Here
      <4> QED BY <3>2, <4>1 DEF NextInRound
    <3>5. CASE Here
      <4>1. CASE \A s \in Live : left[s] = 0
        BY <1>0, <3>2, <4>1 DEF NextInRound
      <4>2. CASE i > Resume /\ \A s \in Live : ~(Resume < s /\ s < i)
        <5>1. i \in Live => \A s \in Live : left[s] = 0
          BY <1>0, <1>3, <3>5, <4>2, NothingLeft DEF Live
        <5>2. i \notin Live => \A s \in Live : ~(Resume < s /\ s < i + 1)
          BY <1>0, <3>3, <4>2
        <5>3. CASE i < N
          BY <1>0, <1>1, <3>1, <3>2, <3>3, <4>2, <5>1, <5>2, <5>3 DEF NextInRound
        <5>4. CASE ~(i < N)
          <6>1. i = N /\ i' = 1
            BY <1>0, <1>1, <5>4
          <6>2. CASE Resume = 0
            BY <1>0, <3>1, <3>2, <6>1, <6>2 DEF NextInRound
          <6>3. CASE Resume # 0
            <7>1. i' <= Resume' /\ \A s \in Live : ~(s < i')
              BY <1>0, <3>1, <3>3, <6>1, <6>3
            <7>2. i \notin Live => \A s \in Live : s <= Resume'
              BY <1>0, <3>1, <3>3, <5>2, <6>1
            <7> QED BY <1>0, <3>2, <5>1, <7>1, <7>2 DEF NextInRound
          <6> QED BY <6>2, <6>3
        <5> QED BY <5>3, <5>4
      <4>3. CASE i <= Resume /\ \A s \in Live : s <= Resume /\ ~(s < i)
        <5>1. i < N /\ i + 1 <= Resume
          BY <1>0, <3>1, <3>3, <4>3
        <5>2. i \in Live => \A s \in Live : left[s] = 0
          BY <1>0, <1>3, <3>5, <4>3, NothingLeft DEF Live
        <5>3. i \notin Live => \A s \in Live : ~(s < i + 1)
          BY <1>0, <4>3
        <5> QED BY <1>0, <1>1, <3>1, <3>2, <4>3, <5>1, <5>2, <5>3 DEF NextInRound
      <4> QED BY <1>0, <1>3, <3>5, <4>1, <4>2, <4>3 DEF NextInRound
    <3> QED BY <3>4, <3>5
  <2> QED BY <2>1, <2>2
<1> QED BY <1>2, <1>3 DEF PassSkip

\* A submission moves the round on to the script submitted.
LEMMA SubmitInRound ==
  ASSUME TypeOK, Walking, Split, NextInRound, PassSubmit
  PROVE  Split' /\ NextInRound'
<1>0. /\ N \in Nat /\ N > 0 /\ i \in 1..N /\ last \in 0..(N + 1) /\ Live' = Live
      /\ \A s \in Live : s \in 1..N
      /\ pc = "pass" /\ ~Spent /\ Here /\ left[i] > 0 /\ i \in Live
      /\ last' = i /\ i' = IF i < N THEN i + 1 ELSE 1
  BY ThrottledAssumption DEF PassSubmit, TypeOK, Scripts, Live, Advance
<1>1. /\ \A s \in Live : left[s] \in Nat
      /\ \A s \in Live : left'[s] = IF s = i THEN left[s] - 1 ELSE left[s]
  BY DEF PassSubmit, TypeOK, Live
<1>2. Resume' = i /\ Resume \in 0..N
  BY <1>0 DEF Resume, AnyStart, NADA, BACKTOTOP, PassSubmit
<1>3. PICK c \in Int : \A s \in Live : left[s] = IF s <= Resume THEN c - 1 ELSE c
  BY DEF Split
<1>4. Split'
  <2>1. CASE i > Resume /\ \A s \in Live : ~(Resume < s /\ s < i)
    <3>1. \A s \in Live : left'[s] = IF s <= i THEN c - 1 ELSE c
      BY <1>0, <1>1, <1>2, <1>3, <2>1
    <3> QED BY <1>0, <1>2, <3>1 DEF Split
  <2>2. CASE i <= Resume /\ \A s \in Live : s <= Resume /\ ~(s < i)
    <3>1. c - 1 \in Int /\ \A s \in Live : left'[s] = IF s <= i THEN (c - 1) - 1 ELSE c - 1
      BY <1>0, <1>1, <1>2, <1>3, <2>2
    <3> QED BY <1>0, <1>2, <3>1 DEF Split
  <2> QED BY <1>0, <2>1, <2>2 DEF NextInRound
<1>5. NextInRound'
  BY <1>0, <1>2 DEF NextInRound
<1> QED BY <1>4, <1>5

\* The rounds are kept across polls, for every list of scripts, repeat count and
\* width, whatever the query reports and whichever directories are removed.
THEOREM Rounds == Spec => []RoundRobin
<1>1. Init => Split /\ NextInRound
  <2> SUFFICES ASSUME Init PROVE Split /\ NextInRound
    OBVIOUS
  <2>1. Repeat \in Int /\ Resume = 0 /\ \A s \in Live : left[s] = Repeat /\ s \in 1..N
    BY ThrottledAssumption DEF Init, Resume, AnyStart, Live, Scripts
  <2>2. N \in Nat
    BY ThrottledAssumption
  <2>3. \A s \in Live : left[s] = IF s <= Resume THEN Repeat - 1 ELSE Repeat
    BY <2>1, <2>2
  <2> QED BY <2>1, <2>3 DEF Init, Split, NextInRound
<1>2. TypeOK /\ Walking /\ Split /\ NextInRound /\ [Next]_vars => Split' /\ NextInRound'
  <2> SUFFICES ASSUME TypeOK, Walking, Split, NextInRound, [Next]_vars
               PROVE  Split' /\ NextInRound'
    OBVIOUS
  <2>0. N \in Nat /\ N > 0 /\ last \in 0..(N + 1) /\ i \in 1..N /\ \A s \in Live : s \in 1..N
    BY ThrottledAssumption DEF TypeOK, Live, Scripts
  <2>1. ASSUME UNCHANGED <<left, last, missing>>
        PROVE  Split' /\ Resume' = Resume /\ AnyStart' = AnyStart /\ Live' = Live
    BY <2>1 DEF Split, Resume, AnyStart, Live, NADA, BACKTOTOP
  <2>2. CASE Poll
    <3>1. UNCHANGED <<left, last, missing, total>> /\ pc = "poll"
      BY <2>2 DEF Poll
    <3>2. pc' = "pass" => i' = 1 /\ ~found'
      BY <2>2, <3>1 DEF Poll
    <3>3. ~found' /\ Here' => Resume' = 0
      BY DEF Here, Resume
    <3> QED BY <2>0, <2>1, <3>1, <3>2, <3>3 DEF NextInRound
  <2>3. CASE PassFind
    <3>1. UNCHANGED <<left, last, missing, total, delta>> /\ i' = i + 1 /\ i = last
      BY <2>3 DEF PassFind, Advance, AtLast
    <3>2. Resume' = i
      BY <2>0, <2>1, <2>3, <3>1 DEF Resume, AnyStart, NADA, BACKTOTOP, PassFind
    <3> QED BY <2>0, <2>1, <3>1, <3>2 DEF NextInRound
  <2>4. CASE PassSkip
    BY <2>4, SkipInRound
  <2>5. CASE PassSubmit
    BY <2>5, SubmitInRound
  <2>6. CASE Check \/ WaitForAll
    BY <2>1, <2>6 DEF Check, WaitForAll, NextInRound
  <2>7. CASE JobLeaves \/ UNCHANGED vars
    <3>1. UNCHANGED <<pc, left, total, last, delta, found, i, missing>>
      BY <2>7 DEF JobLeaves, vars
    <3>2. Here' = Here /\ Spent' = Spent
      BY <2>1, <3>1 DEF Here, Spent
    <3> QED BY <2>1, <3>1, <3>2 DEF NextInRound
  <2>8. ASSUME NEW s \in Scripts, DirectoryGone(s) PROVE Split' /\ NextInRound'
    <3>1. /\ UNCHANGED <<pc, left, total, last, delta, found, i>> /\ Live' \subseteq Live
      BY <2>8 DEF DirectoryGone, Live
    <3>2. Resume' = Resume /\ Here' = Here /\ Spent' = Spent
      BY <3>1 DEF Resume, AnyStart, Here, Spent, NADA, BACKTOTOP
    <3> QED BY <3>1, <3>2 DEF Split, NextInRound
  <2> QED BY <2>2, <2>3, <2>4, <2>5, <2>6, <2>7, <2>8 DEF Next, StartJobs
<1>3. TypeOK /\ Split => RoundRobin
  <2> SUFFICES ASSUME TypeOK, Split, NEW s \in Scripts \ missing, NEW t \in Scripts \ missing, s < t
               PROVE  left[s] <= left[t] /\ left[t] <= left[s] + 1
    BY DEF RoundRobin
  <2>1. PICK c \in Int : \A u \in Live : left[u] = IF u <= Resume THEN c - 1 ELSE c
    BY DEF Split
  <2>2. s \in Int /\ t \in Int /\ Resume \in Int
    BY ThrottledAssumption DEF Scripts, Resume, TypeOK
  <2> QED BY <2>1, <2>2 DEF Live
<1> QED BY <1>1, <1>2, <1>3, Typing, PTL DEF Spec

--------------------------------------------------------------------------------
\* $total_jobs.

\* The submissions left, one by one: the k-th last one of script s.
Pending == {p \in Scripts \X (1..Repeat) : p[2] <= left[p[1]]}

\* $total_jobs is the number of submissions left, and the loop ends only at 0.
Total ==
  /\ IsFiniteSet(Pending) /\ total = Cardinality(Pending)
  /\ pc \in {"waitall", "done"} => total = 0

LEMMA PendingFinite ==
  /\ IsFiniteSet(Scripts \X (1..Repeat))
  /\ Cardinality(Scripts \X (1..Repeat)) = N * Repeat
<1>1. N \in Nat /\ Repeat \in Nat /\ N > 0 /\ Repeat > 0
  BY ThrottledAssumption
<1>2. IsFiniteSet(1..N) /\ Cardinality(1..N) = N
  BY <1>1, FS_Interval
<1>3. IsFiniteSet(1..Repeat) /\ Cardinality(1..Repeat) = Repeat
  BY <1>1, FS_Interval
<1>4. /\ IsFiniteSet((1..N) \X (1..Repeat))
      /\ Cardinality((1..N) \X (1..Repeat)) = Cardinality(1..N) * Cardinality(1..Repeat)
  BY <1>2, <1>3, FS_Product
<1> QED BY <1>2, <1>3, <1>4 DEF Scripts

\* A submission takes one from what is left.
LEMMA SubmitCounts ==
  ASSUME TypeOK, Total, PassSubmit
  PROVE  Total'
<1>1. /\ i \in Scripts /\ left[i] \in 1..Repeat /\ total' = total - 1
      /\ left' = [left EXCEPT ![i] = @ - 1] /\ left \in [Scripts -> 0..Repeat]
      /\ Repeat \in Nat
  BY ThrottledAssumption DEF PassSubmit, TypeOK
<1>2. <<i, left[i]>> \in Pending
  BY <1>1 DEF Pending
<1>3. Pending' = Pending \ {<<i, left[i]>>}
  <2>1. ASSUME NEW p \in Scripts \X (1..Repeat)
        PROVE  p[2] <= left'[p[1]] <=> p[2] <= left[p[1]] /\ p # <<i, left[i]>>
    <3>1. p = <<p[1], p[2]>> /\ p[1] \in Scripts /\ p[2] \in 1..Repeat
      OBVIOUS
    <3>2. left'[p[1]] = IF p[1] = i THEN left[i] - 1 ELSE left[p[1]]
      BY <1>1, <3>1
    <3>3. p = <<i, left[i]>> <=> p[1] = i /\ p[2] = left[i]
      BY <3>1
    <3> QED BY <1>1, <3>1, <3>2, <3>3
  <2> QED BY <2>1 DEF Pending, Scripts
<1>4. IsFiniteSet(Pending') /\ Cardinality(Pending') = Cardinality(Pending) - 1
  BY <1>2, <1>3, FS_RemoveElement DEF Total
<1>5. pc' \notin {"waitall", "done"}
  BY DEF PassSubmit, Advance
<1> QED BY <1>1, <1>4, <1>5 DEF Total

\* When the loop ends, every script has been submitted Repeat times, however
\* often polls stopped in the middle of a round, and whatever the query says: a
\* script whose directory is removed keeps the loop from ending.
THEOREM AllSubmitted == Spec => []NoneForgotten
<1>1. Init => Total
  <2> SUFFICES ASSUME Init PROVE Total
    OBVIOUS
  <2>1. \A p \in Scripts \X (1..Repeat) : p[2] <= left[p[1]]
    BY ThrottledAssumption DEF Init
  <2>2. Pending = Scripts \X (1..Repeat)
    BY <2>1 DEF Pending
  <2> QED BY <2>2, PendingFinite DEF Init, Total
<1>2. TypeOK /\ Total /\ [Next]_vars => Total'
  <2> SUFFICES ASSUME TypeOK, Total, [Next]_vars PROVE Total'
    OBVIOUS
  <2>1. ASSUME UNCHANGED left PROVE Pending' = Pending
    BY <2>1 DEF Pending, Scripts
  <2>2. CASE Poll \/ PassFind \/ PassSkip
    BY <2>1, <2>2 DEF Poll, PassFind, PassSkip, Advance, Total
  <2>3. CASE PassSubmit
    BY <2>3, SubmitCounts
  <2>4. CASE Check \/ WaitForAll
    BY <2>1, <2>4 DEF Check, WaitForAll, Total
  <2>5. CASE JobLeaves \/ (\E s \in Scripts : DirectoryGone(s)) \/ UNCHANGED vars
    BY <2>1, <2>5 DEF JobLeaves, DirectoryGone, vars, Total
  <2> QED BY <2>2, <2>3, <2>4, <2>5 DEF Next, StartJobs
<1>3. TypeOK /\ Total => NoneForgotten
  <2> SUFFICES ASSUME TypeOK, Total, pc \in {"waitall", "done"}, NEW s \in Scripts
               PROVE  left[s] = 0
    BY DEF NoneForgotten
  <2>1. Pending = {}
    BY FS_EmptySet DEF Total
  <2>2. left[s] \in 0..Repeat /\ Repeat \in Nat \ {0}
    BY ThrottledAssumption DEF TypeOK
  <2>3. <<s, 1>> \in Scripts \X (1..Repeat)
    BY <2>2
  <2>4. ~(1 <= left[s])
    BY <2>1, <2>3 DEF Pending
  <2> QED BY <2>2, <2>4
<1> QED BY <1>1, <1>2, <1>3, Typing, PTL DEF Spec
================================================================================
