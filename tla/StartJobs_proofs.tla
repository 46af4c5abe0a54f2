---------------------------- MODULE StartJobs_proofs ----------------------------
(***************************************************************************)
(* Proofs about StartJobs, for any number of invocations, in any modes,    *)
(* over any numbers of scripts: the throttle holds, and what an invocation *)
(* reports in the end is what became of its jobs.                          *)
(***************************************************************************)
EXTENDS StartJobs, FunctionTheorems, FiniteSetTheorems, TLAPS

\* Scripts are taken from the front of the list, and one is left while an
\* invocation is at it.
FromTheFront ==
  \A s \in Starters :
    /\ \A i \in Scripts(s) : i > sent[s] => job[<<s, i>>] = "unsent"
    /\ pc[s] \in {"query", "submit", "nap"} => sent[s] < N[s]
    /\ pc[s] = "submit" /\ Mode[s] = "throttled" => slots[s] > 0
    /\ pc[s] \in {"query", "nap"} => Mode[s] = "throttled"
    /\ pc[s] = "run" => Mode[s] # "throttled"

\* The jobs of an invocation that a query counts.
MineCounted(s) == {i \in Mine(s) : <<s, i>> \in Named}

\* They and the submissions it still has free fit the throttle.
Fits ==
  \A s \in Starters :
    Mode[s] = "throttled" /\ Throttle > 0 =>
      Cardinality(MineCounted(s)) + (IF pc[s] = "submit" THEN slots[s] ELSE 0) <= Throttle

IInv == TypeOK /\ FromTheFront /\ Fits

\* A job is a starter and the number of one of its scripts.
LEMMA JobsArePairs ==
  /\ \A s \in Starters : \A i \in Scripts(s) : <<s, i>> \in Jobs
  /\ \A j \in Jobs : \E s \in Starters : \E i \in Scripts(s) : j = <<s, i>>
BY DEF Jobs

\* There are finitely many of them.
LEMMA JobsFinite == IsFiniteSet(Jobs)
<1> DEFINE T == {{s} \X Scripts(s) : s \in Starters}
           f == [s \in Starters |-> {s} \X Scripts(s)]
<1>1. f \in Surjection(Starters, T)
  BY DEF Surjection
<1>2. IsFiniteSet(T)
  BY <1>1, FS_Surjection, StartAssumption
<1>3. \A x \in T : IsFiniteSet(x)
  <2>1. SUFFICES ASSUME NEW s \in Starters PROVE IsFiniteSet({s} \X Scripts(s))
    OBVIOUS
  <2>2. IsFiniteSet({s})
    BY FS_Singleton
  <2>3. IsFiniteSet(Scripts(s))
    BY FS_Interval, StartAssumption DEF Scripts
  <2> QED BY <2>2, <2>3, FS_Product
<1> QED BY <1>2, <1>3, FS_UNION DEF Jobs

\* An invocation has finitely many jobs in the batch system.
LEMMA MineFinite ==
  ASSUME NEW s \in Starters
  PROVE  /\ IsFiniteSet(MineCounted(s)) /\ Cardinality(MineCounted(s)) \in Nat
<1>1. IsFiniteSet(Scripts(s))
  BY FS_Interval, StartAssumption DEF Scripts
<1>2. MineCounted(s) \subseteq Scripts(s)
  BY DEF MineCounted, Mine
<1> QED BY <1>1, <1>2, FS_Subset, FS_CardinalityType

\* Pairing the members of a set with one value makes no more of them.
LEMMA Pairing ==
  ASSUME NEW s, NEW M, NEW C, IsFiniteSet(C), \A i \in M : <<s, i>> \in C
  PROVE  Cardinality(M) <= Cardinality(C)
<1> DEFINE f == [i \in M |-> <<s, i>>]
<1>1. f \in Injection(M, C)
  BY DEF Injection, IsInjective
<1> HIDE DEF f
<1> QED BY <1>1, FS_Injection

\* A query counts finitely many jobs.
LEMMA CountedFinite == IsFiniteSet(Counted) /\ Cardinality(Counted) \in Nat
<1>1. Counted \subseteq Jobs
  BY StartAssumption DEF Counted
<1> QED BY <1>1, JobsFinite, FS_Subset, FS_CardinalityType

\* The query counts at least the invocation's own jobs of those names.
LEMMA CountedMine ==
  ASSUME NEW s \in Starters, Mode[s] = "throttled"
  PROVE  /\ Cardinality(Counted) \in Nat
         /\ Cardinality(MineCounted(s)) <= Cardinality(Counted)
<1>1. IsFiniteSet(Counted)
  BY CountedFinite
<1>2. \A i \in MineCounted(s) : <<s, i>> \in Counted
  BY DEF MineCounted, Mine, Counted, Batch
<1>3. Cardinality(MineCounted(s)) <= Cardinality(Counted)
  BY <1>1, <1>2, Pairing
<1> QED BY <1>1, <1>3, FS_CardinalityType

\* The initial states satisfy the invariant.
LEMMA InitIInv == Init => IInv
<1> SUFFICES ASSUME Init PROVE IInv
  OBVIOUS
<1>1. TypeOK
  BY StartAssumption DEF Init, TypeOK, First, Ended
<1>2. FromTheFront
  <2>1. \A s \in Starters : N[s] \in Nat
    BY StartAssumption
  <2>2. \A s \in Starters : \A i \in Scripts(s) : job[<<s, i>>] = "unsent"
    BY JobsArePairs DEF Init
  <2>3. \A s \in Starters : pc[s] \in {First(s), "absent"} /\ sent[s] = 0
    BY DEF Init
  <2>4. \A s \in Starters : First(s) # "exit0" => 0 < N[s]
    BY <2>1 DEF First
  <2> QED BY <2>2, <2>3, <2>4 DEF First, FromTheFront
<1>3. Fits
  <2> SUFFICES ASSUME NEW s \in Starters, Mode[s] = "throttled", Throttle > 0
               PROVE  Cardinality(MineCounted(s)) + (IF pc[s] = "submit" THEN slots[s] ELSE 0) <= Throttle
    BY DEF Fits
  <2>1. MineCounted(s) = {}
    BY JobsArePairs DEF Init, MineCounted, Mine, InQueue
  <2>2. slots[s] = 0
    BY DEF Init
  <2> QED BY <2>1, <2>2, FS_EmptySet, StartAssumption
<1> QED BY <1>1, <1>2, <1>3 DEF IInv

\* A step keeps the types.
LEMMA TypeKept == IInv /\ [Next]_vars => TypeOK'
<1> SUFFICES ASSUME IInv, [Next]_vars PROVE TypeOK'
  OBVIOUS
<1> USE StartAssumption DEF IInv, TypeOK, Ended, Goto
<1>1. ASSUME NEW s \in Starters, Query(s) PROVE TypeOK'
  <2> DEFINE free == Throttle - Cardinality(Counted)
  <2>1. Cardinality(Counted) \in Nat
    BY CountedFinite
  <2>2. free \in Int
    BY <2>1
  <2> HIDE DEF free
  <2>3. CASE free > 0
    <3>1. slots' = [slots EXCEPT ![s] = free] /\ pc' = [pc EXCEPT ![s] = "submit"]
      BY <1>1, <2>3 DEF Query, free
    <3> QED BY <1>1, <2>2, <2>3, <3>1 DEF Query
  <2>4. CASE ~(free > 0)
    BY <1>1, <2>4 DEF Query, free
  <2> QED BY <2>3, <2>4
<1>2. ASSUME NEW s \in Starters, Nap(s) \/ QueryFails(s) PROVE TypeOK'
  BY <1>2 DEF Nap, QueryFails
<1>3. ASSUME NEW s \in Starters, Submit(s) PROVE TypeOK'
  <2>1. sent[s] < N[s] /\ sent[s] \in Nat /\ N[s] \in Nat
    BY <1>3 DEF Submit, FromTheFront
  <2>2. sent' \in [Starters -> Nat] /\ \A x \in Starters : sent'[x] <= N[x]
    BY <1>3, <2>1 DEF Submit, Batch
  <2>3. job' \in [Jobs -> {"unsent"} \cup InQueue \cup Over]
    BY <1>3 DEF Submit, InQueue
  <2>4. slots' \in [Starters -> Nat]
    <3>1. CASE Mode[s] = "throttled"
      <4>1. slots[s] > 0 /\ slots[s] \in Nat
        BY <1>3, <3>1 DEF Submit, FromTheFront
      <4>2. slots' = [slots EXCEPT ![s] = slots[s] - 1]
        BY <1>3, <3>1 DEF Submit, Batch
      <4> QED BY <4>1, <4>2
    <3>2. CASE Mode[s] # "throttled"
      BY <1>3, <3>2 DEF Submit, Batch
    <3> QED BY <3>1, <3>2
  <2>5. PICK to \in {"exit0", "nap", "submit"} : pc' = [pc EXCEPT ![s] = to]
    <3> DEFINE to == IF sent'[s] = N[s] THEN "exit0"
                     ELSE IF Mode[s] = "throttled" /\ slots'[s] = 0 THEN "nap" ELSE "submit"
    <3>1. pc' = [pc EXCEPT ![s] = to]
      BY <1>3 DEF Submit, Batch
    <3>2. to \in {"exit0", "nap", "submit"}
      OBVIOUS
    <3> HIDE DEF to
    <3> QED BY <3>1, <3>2
  <2> QED BY <2>2, <2>3, <2>4, <2>5
<1>4. ASSUME NEW s \in Starters, SubmitFails(s) PROVE TypeOK'
  <2>1. sent[s] < N[s] /\ sent[s] \in Nat /\ N[s] \in Nat
    BY <1>4 DEF SubmitFails, FromTheFront
  <2> QED BY <1>4, <2>1 DEF SubmitFails, Batch
<1>5. ASSUME NEW s \in Starters, Run(s) PROVE TypeOK'
  <2>1. sent[s] < N[s] /\ sent[s] \in Nat /\ N[s] \in Nat
    BY <1>5 DEF Run, FromTheFront
  <2>2. sent' \in [Starters -> Nat] /\ \A x \in Starters : sent'[x] <= N[x]
    BY <1>5, <2>1 DEF Run
  <2>3. job' \in [Jobs -> {"unsent"} \cup InQueue \cup Over]
    BY <1>5 DEF Run, InQueue
  <2>4. PICK to \in {"exit0", "submit", "run", "await"} : pc' = [pc EXCEPT ![s] = to]
    BY <1>5 DEF Run
  <2> QED BY <1>5, <2>2, <2>3, <2>4 DEF Run
<1>6. ASSUME NEW s \in Starters, Collect(s) \/ Await(s) PROVE TypeOK'
  <2>1. PICK to \in {"exit0", "exit1", "submit"} : pc' = [pc EXCEPT ![s] = to]
    BY <1>6 DEF Collect, Await, ExitStatus
  <2> QED BY <1>6, <2>1 DEF Collect, Await
<1>7. ASSUME NEW j \in Jobs, JobStarts(j) \/ \E how \in Over : JobEnds(j, how) PROVE TypeOK'
  BY <1>7 DEF JobStarts, JobEnds, InQueue
<1>8. CASE UNCHANGED vars
  BY <1>8 DEF vars
<1> QED
  BY <1>1, <1>2, <1>3, <1>4, <1>5, <1>6, <1>7, <1>8 DEF Next, Starter

\* A step of one invocation does not touch another one, nor its jobs.
LEMMA OthersKept ==
  ASSUME IInv, NEW s \in Starters, Starter(s) \/ QueryFails(s) \/ SubmitFails(s),
         NEW r \in Starters, r # s
  PROVE  /\ UNCHANGED <<pc[r], sent[r], slots[r]>>
         /\ \A i \in Scripts(r) : job'[<<r, i>>] = job[<<r, i>>]
<1> USE JobsArePairs DEF IInv, TypeOK, Goto
<1>1. CASE Query(s) \/ Nap(s) \/ QueryFails(s)
  BY <1>1 DEF Query, Nap, QueryFails
<1>2. CASE Submit(s)
  BY <1>2 DEF Submit, Batch
<1>3. CASE SubmitFails(s)
  BY <1>3 DEF SubmitFails, Batch
<1>4. CASE Run(s)
  BY <1>4 DEF Run
<1>5. CASE Collect(s) \/ Await(s)
  BY <1>5 DEF Collect, Await
<1> QED BY <1>1, <1>2, <1>3, <1>4, <1>5 DEF Starter

\* What becomes of an invocation's own state in one of its steps.
LEMMA OwnStep ==
  ASSUME IInv, NEW s \in Starters, Starter(s) \/ QueryFails(s) \/ SubmitFails(s)
  PROVE  \/ /\ UNCHANGED <<sent, job>>
            /\ \/ pc'[s] \in {"exit0", "exit1", "raised", "nap"}
               \/ pc[s] = "nap" /\ pc'[s] = "query"
               \/ pc'[s] = "submit" /\ pc[s] = "run"
            /\ pc'[s] = "nap" => pc[s] = "query"
            /\ pc'[s] = "submit" => sent[s] # N[s]
         \/ /\ UNCHANGED <<sent, job>> /\ pc[s] = "query" /\ pc'[s] = "submit"
            /\ slots'[s] = Throttle - Cardinality(Counted) /\ slots'[s] > 0
         \/ /\ sent'[s] = sent[s] + 1
            /\ \A i \in Scripts(s) : i # sent[s] + 1 => job'[<<s, i>>] = job[<<s, i>>]
            /\ pc[s] = "submit"
            /\ pc'[s] \in {"submit", "nap"} => sent'[s] # N[s]
            /\ Mode[s] = "throttled" /\ pc'[s] \in {"submit", "nap"} => slots'[s] = slots[s] - 1
            /\ Mode[s] = "throttled" /\ pc'[s] = "submit" => slots'[s] # 0
            /\ pc'[s] = "nap" => Mode[s] = "throttled"
            /\ pc'[s] = "run" => Mode[s] # "throttled"
            /\ pc'[s] # "query"
<1> USE JobsArePairs DEF IInv, TypeOK, Goto
<1>1. CASE Query(s)
  BY <1>1 DEF Query
<1>2. CASE Nap(s) \/ QueryFails(s)
  BY <1>2 DEF Nap, QueryFails
<1>3. CASE Submit(s)
  <2>1. CASE Mode[s] = "throttled"
    <3>1. /\ slots' = [slots EXCEPT ![s] = slots[s] - 1]
          /\ sent' = [sent EXCEPT ![s] = sent[s] + 1]
      BY <1>3, <2>1 DEF Submit, Batch
    <3>2. pc'[s] = IF sent'[s] = N[s] THEN "exit0" ELSE IF slots'[s] = 0 THEN "nap" ELSE "submit"
      BY <1>3, <2>1 DEF Submit, Batch
    <3>3. \A i \in Scripts(s) : i # sent[s] + 1 => job'[<<s, i>>] = job[<<s, i>>]
      BY <1>3 DEF Submit, Batch
    <3>4. pc[s] = "submit" /\ slots'[s] = slots[s] - 1 /\ sent'[s] = sent[s] + 1
      BY <1>3, <3>1 DEF Submit, Batch
    <3> QED BY <2>1, <3>2, <3>3, <3>4
  <2>2. CASE Mode[s] # "throttled"
    BY <1>3, <2>2 DEF Submit, Batch
  <2> QED BY <2>1, <2>2
<1>4. CASE SubmitFails(s)
  BY <1>4 DEF SubmitFails, Batch
<1>5. CASE Run(s)
  BY <1>5 DEF Run
<1>6. CASE Collect(s)
  <2>1. ExitStatus(s) \in {"exit0", "exit1"}
    BY DEF ExitStatus
  <2> QED BY <1>6, <2>1 DEF Collect
<1>7. CASE Await(s)
  <2>1. ExitStatus(s) \in {"exit0", "exit1"}
    BY DEF ExitStatus
  <2> QED BY <1>7, <2>1 DEF Await
<1> QED BY <1>1, <1>2, <1>3, <1>4, <1>5, <1>6, <1>7 DEF Starter

\* A step takes scripts from the front of the list only.
LEMMA FrontKept == IInv /\ [Next]_vars => FromTheFront'
<1> SUFFICES ASSUME IInv, [Next]_vars, NEW u \in Starters
             PROVE  /\ \A i \in Scripts(u) : i > sent'[u] => job'[<<u, i>>] = "unsent"
                    /\ pc'[u] \in {"query", "submit", "nap"} => sent'[u] < N[u]
                    /\ pc'[u] = "submit" /\ Mode[u] = "throttled" => slots'[u] > 0
                    /\ pc'[u] \in {"query", "nap"} => Mode[u] = "throttled"
                    /\ pc'[u] = "run" => Mode[u] # "throttled"
  BY DEF FromTheFront
<1>0. /\ \A i \in Scripts(u) : i > sent[u] => job[<<u, i>>] = "unsent"
      /\ pc[u] \in {"query", "submit", "nap"} => sent[u] < N[u]
      /\ pc[u] = "submit" /\ Mode[u] = "throttled" => slots[u] > 0
      /\ pc[u] \in {"query", "nap"} => Mode[u] = "throttled"
      /\ pc[u] = "run" => Mode[u] # "throttled"
      /\ sent[u] \in Nat /\ N[u] \in Nat /\ sent[u] <= N[u] /\ slots[u] \in Nat
      /\ Scripts(u) = 1..N[u]
      /\ sent'[u] \in Nat /\ sent'[u] <= N[u] /\ slots'[u] \in Nat
  <2>1. TypeOK /\ TypeOK' /\ FromTheFront
    BY TypeKept DEF IInv
  <2>2. N[u] \in Nat
    BY StartAssumption
  <2>3. Scripts(u) = 1..N[u]
    BY DEF Scripts
  <2>4. /\ sent[u] \in Nat /\ sent[u] <= N[u] /\ slots[u] \in Nat
        /\ sent'[u] \in Nat /\ sent'[u] <= N[u] /\ slots'[u] \in Nat
    BY <2>1, <2>2 DEF TypeOK
  <2> QED BY <2>1, <2>2, <2>3, <2>4 DEF FromTheFront
<1>1. ASSUME NEW s \in Starters, Starter(s) \/ QueryFails(s) \/ SubmitFails(s)
      PROVE  /\ \A i \in Scripts(u) : i > sent'[u] => job'[<<u, i>>] = "unsent"
             /\ pc'[u] \in {"query", "submit", "nap"} => sent'[u] < N[u]
             /\ pc'[u] = "submit" /\ Mode[u] = "throttled" => slots'[u] > 0
             /\ pc'[u] \in {"query", "nap"} => Mode[u] = "throttled"
             /\ pc'[u] = "run" => Mode[u] # "throttled"
  <2>1. CASE u # s
    BY <1>0, <1>1, <2>1, OthersKept
  <2>2. CASE u = s
    <3> USE <1>0, <1>1, <2>2, OwnStep
    <3>1. /\ pc'[u] \in {"query", "nap"} => Mode[u] = "throttled"
          /\ pc'[u] = "run" => Mode[u] # "throttled"
      OBVIOUS
    <3>2. pc'[u] \in {"query", "submit", "nap"} => sent'[u] < N[u]
      OBVIOUS
    <3>3. pc'[u] = "submit" /\ Mode[u] = "throttled" => slots'[u] > 0
      OBVIOUS
    <3>4. \A i \in Scripts(u) : i > sent'[u] => job'[<<u, i>>] = "unsent"
      OBVIOUS
    <3> QED BY <3>1, <3>2, <3>3, <3>4
  <2> QED BY <2>1, <2>2
<1>2. ASSUME NEW j \in Jobs, JobStarts(j) \/ \E how \in Over : JobEnds(j, how)
      PROVE  UNCHANGED <<pc, sent, slots>> /\ \A k \in Jobs : job[k] = "unsent" => job'[k] = "unsent"
  BY <1>2 DEF JobStarts, JobEnds, IInv, TypeOK
<1>3. CASE UNCHANGED vars
  BY <1>0, <1>3 DEF vars
<1> QED BY <1>0, <1>1, <1>2, <1>3, JobsArePairs DEF Next

\* The jobs of an invocation grow only by the script it submits.
LEMMA MineAfter ==
  ASSUME IInv, [Next]_vars, NEW u \in Starters
  PROVE  \/ Mine(u)' \subseteq Mine(u) /\ UNCHANGED <<pc[u], sent[u], slots[u]>>
         \/ Mine(u)' \subseteq Mine(u) /\ pc'[u] # "submit"
         \/ Mine(u)' \subseteq Mine(u) /\ slots'[u] = Throttle - Cardinality(Counted) /\ pc'[u] = "submit"
         \/ Mine(u)' \subseteq Mine(u) /\ Mode[u] # "throttled"
         \/ /\ Mine(u)' \subseteq Mine(u) \cup {sent[u] + 1} /\ pc[u] = "submit"
            /\ Mode[u] = "throttled" /\ pc'[u] = "submit" => slots'[u] = slots[u] - 1
<1>1. ASSUME NEW s \in Starters, s # u, Starter(s) \/ QueryFails(s) \/ SubmitFails(s)
      PROVE  Mine(u)' = Mine(u) /\ UNCHANGED <<pc[u], sent[u], slots[u]>>
  BY <1>1, OthersKept DEF Mine
<1>2. CASE Starter(u) \/ QueryFails(u) \/ SubmitFails(u)
  <2>1. UNCHANGED job => Mine(u)' = Mine(u)
    BY DEF Mine
  <2>2. (\A i \in Scripts(u) : i # sent[u] + 1 => job'[<<u, i>>] = job[<<u, i>>])
          => Mine(u)' \subseteq Mine(u) \cup {sent[u] + 1}
    BY DEF Mine
  <2>3. pc[u] \in {"query", "nap"} => Mode[u] = "throttled"
    BY DEF IInv, FromTheFront
  <2>4. pc[u] = "run" /\ pc'[u] = "submit" => Mode[u] # "throttled"
    BY DEF IInv, FromTheFront
  <2> QED BY <1>2, <2>1, <2>2, <2>3, <2>4, OwnStep
<1>3. ASSUME NEW j \in Jobs, JobStarts(j) \/ \E how \in Over : JobEnds(j, how)
      PROVE  Mine(u)' \subseteq Mine(u) /\ UNCHANGED <<pc[u], sent[u], slots[u]>>
  <2>1. \A k \in Jobs : job'[k] \in InQueue => job[k] \in InQueue
    BY <1>3 DEF JobStarts, JobEnds, IInv, TypeOK, InQueue, Over
  <2> QED BY <1>3, <2>1, JobsArePairs DEF Mine, JobStarts, JobEnds
<1>4. CASE UNCHANGED vars
  BY <1>4 DEF vars, Mine
<1> QED BY <1>1, <1>2, <1>3, <1>4 DEF Next

\* A step keeps the jobs and the free submissions within the throttle.
LEMMA FitsKept == IInv /\ [Next]_vars => Fits'
<1> SUFFICES ASSUME IInv, [Next]_vars, NEW u \in Starters,
                    Mode[u] = "throttled", Throttle > 0
             PROVE  Cardinality(MineCounted(u)') + (IF pc'[u] = "submit" THEN slots'[u] ELSE 0) <= Throttle
  BY DEF Fits
<1>0. /\ Mine(u)' \subseteq Mine(u) => MineCounted(u)' \subseteq MineCounted(u)
      /\ Mine(u)' \subseteq Mine(u) \cup {sent[u] + 1} =>
           MineCounted(u)' \subseteq MineCounted(u) \cup {sent[u] + 1}
  BY DEF MineCounted
<1> DEFINE mine == Cardinality(MineCounted(u))
           after == Cardinality(MineCounted(u)')
<1>1. mine \in Nat /\ slots[u] \in Nat /\ slots'[u] \in Nat /\ Throttle \in Int
  BY MineFinite, TypeKept, StartAssumption DEF IInv, TypeOK
<1>2. mine + (IF pc[u] = "submit" THEN slots[u] ELSE 0) <= Throttle
  BY DEF IInv, Fits
<1>3. MineCounted(u)' \subseteq MineCounted(u) => after \in Nat /\ after <= mine
  BY MineFinite, FS_Subset, FS_CardinalityType
<1>4. MineCounted(u)' \subseteq MineCounted(u) \cup {sent[u] + 1} => after \in Nat /\ after <= mine + 1
  <2>1. IsFiniteSet(MineCounted(u) \cup {sent[u] + 1})
    BY MineFinite, FS_AddElement
  <2>2. Cardinality(MineCounted(u) \cup {sent[u] + 1}) \in {mine, mine + 1}
    BY MineFinite, FS_AddElement
  <2> QED BY <1>1, <2>1, <2>2, FS_Subset, FS_CardinalityType
<1>5. mine <= Cardinality(Counted) /\ Cardinality(Counted) \in Nat
  BY CountedMine
<1>6. pc[u] = "submit" => slots[u] > 0
  BY DEF IInv, FromTheFront
<1> HIDE DEF mine, after
<1> SUFFICES after + (IF pc'[u] = "submit" THEN slots'[u] ELSE 0) <= Throttle
  BY DEF after
<1> QED BY <1>0, <1>1, <1>2, <1>3, <1>4, <1>5, <1>6, MineAfter

\* The invariant is one.
LEMMA IInvariant == Spec => []IInv
<1>1. IInv /\ [Next]_vars => IInv'
  BY TypeKept, FrontKept, FitsKept DEF IInv
<1> QED BY InitIInv, <1>1, PTL DEF Spec

\* The variables keep their types: no invocation takes more scripts than it has,
\* and none has a negative number of submissions left.
THEOREM Typing == Spec => []TypeOK
BY IInvariant, PTL DEF IInv

\* --throttledbatch N, for any number of invocations, scripts and jobs, whatever
\* names the query finds: no invocation ever has more than N jobs of such names in
\* the batch system.
THEOREM ThrottleIsKept == Spec => []CountedThrottleHeld
<1>1. IInv => CountedThrottleHeld
  <2> SUFFICES ASSUME IInv, NEW s \in Starters, Mode[s] = "throttled", Throttle > 0
               PROVE  Cardinality(MineCounted(s)) <= Throttle
    BY DEF CountedThrottleHeld, MineCounted
  <2>1. Cardinality(MineCounted(s)) + (IF pc[s] = "submit" THEN slots[s] ELSE 0) <= Throttle
    BY DEF IInv, Fits
  <2>2. Cardinality(MineCounted(s)) \in Nat /\ slots[s] \in Nat /\ Throttle \in Int
    BY MineFinite, StartAssumption DEF IInv, TypeOK
  <2> QED BY <2>1, <2>2
<1> QED BY IInvariant, <1>1, PTL

\* The claim of the code, "keep <= throttle jobs running+queued" (main.py:594), is
\* what follows where every job's name has what the query looks for.
COROLLARY AllNamedThrottle == ASSUME Named = Jobs PROVE Spec => []OwnThrottleHeld
<1>1. CountedThrottleHeld => OwnThrottleHeld
  <2> SUFFICES ASSUME CountedThrottleHeld, NEW s \in Starters,
                      Mode[s] = "throttled", Throttle > 0
               PROVE  Cardinality(Mine(s)) <= Throttle
    BY DEF OwnThrottleHeld
  <2>1. {i \in Mine(s) : <<s, i>> \in Named} = Mine(s)
    BY JobsArePairs DEF Mine
  <2> QED BY <2>1 DEF CountedThrottleHeld
<1> QED BY <1>1, ThrottleIsKept, PTL

--------------------------------------------------------------------------------
\* What was submitted or run, and how it ended.

\* Unless something raised, the scripts taken so far are jobs, and an invocation
\* that waits for its jobs or has returned has taken them all.
Taken ==
  \A s \in Starters :
    /\ pc[s] # "raised" => \A i \in Scripts(s) : i <= sent[s] => job[<<s, i>>] # "unsent"
    /\ pc[s] \in {"await", "exit0", "exit1"} => sent[s] = N[s]

\* One after the other: the scripts before the one at hand are over.
InTurn ==
  \A s \in Starters :
    /\ pc[s] = "submit" /\ Mode[s] = "interactive" =>
         \A i \in Scripts(s) : i <= sent[s] => job[<<s, i>>] \in Over
    /\ pc[s] = "run" => /\ Mode[s] = "interactive"
                        /\ \A i \in Scripts(s) : i < sent[s] => job[<<s, i>>] \in Over

Outcome == ~DryRun => Taken /\ InTurn /\ InteractiveVerdict

\* Jobs are never unsent again, and those that are over stay as they are.
JobsGoOn ==
  \A j \in Jobs : /\ job[j] # "unsent" => job'[j] # "unsent"
                  /\ job[j] \in Over => job'[j] = job[j]

\* Apart from the script at hand a step leaves an invocation's jobs alone, or they
\* go on in the batch system while all invocations stand still.
LEMMA JobsOnly ==
  ASSUME IInv, ~DryRun, [Next]_vars
  PROVE  \/ \E s \in Starters : Starter(s) \/ QueryFails(s) \/ SubmitFails(s)
         \/ UNCHANGED <<pc, sent>> /\ JobsGoOn
<1>1. ASSUME NEW j \in Jobs, JobStarts(j) \/ \E how \in Over : JobEnds(j, how)
      PROVE  UNCHANGED <<pc, sent>> /\ JobsGoOn
  BY <1>1 DEF JobStarts, JobEnds, JobsGoOn, Over, IInv, TypeOK
<1>2. CASE UNCHANGED vars
  BY <1>2 DEF vars, JobsGoOn
<1> QED BY <1>1, <1>2 DEF Next

\* The verdict of jobs that are all over.
LEMMA Verdict ==
  ASSUME NEW s \in Starters, \A i \in Scripts(s) : job[<<s, i>>] \in Over
  PROVE  /\ ExitStatus(s) \in {"exit0", "exit1"}
         /\ ExitStatus(s) = "exit0" => \A i \in Scripts(s) : job[<<s, i>>] = "ok"
BY DEF ExitStatus, Over

\* A submission or a start.
LEMMA SendKeeps ==
  ASSUME IInv, ~DryRun, Taken, InTurn, InteractiveVerdict, NEW s \in Starters,
         Submit(s) \/ Run(s) \/ SubmitFails(s)
  PROVE  /\ pc'[s] # "raised" => \A i \in Scripts(s) : i <= sent'[s] => job'[<<s, i>>] # "unsent"
         /\ pc'[s] \in {"await", "exit0", "exit1"} => sent'[s] = N[s]
         /\ pc'[s] = "submit" => Mode[s] # "interactive"
         /\ pc'[s] = "run" => /\ Mode[s] = "interactive"
                              /\ \A i \in Scripts(s) : i < sent'[s] => job'[<<s, i>>] \in Over
         /\ pc'[s] \in {"exit0", "exit1"} => Mode[s] \notin {"interactive", "concurrent"}
<1> USE JobsArePairs, StartAssumption DEF IInv, TypeOK, Goto, Scripts
<1>0. /\ sent[s] \in Nat /\ N[s] \in Nat /\ pc[s] = "submit"
      /\ \A i \in Scripts(s) : i <= sent[s] => job[<<s, i>>] # "unsent"
      /\ Mode[s] = "interactive" => \A i \in Scripts(s) : i <= sent[s] => job[<<s, i>>] \in Over
  BY DEF Taken, InTurn, Submit, Run, SubmitFails
<1>1. CASE Submit(s)
  <2>1. /\ sent'[s] = sent[s] + 1 /\ job' = [job EXCEPT ![<<s, sent[s] + 1>>] = "queued"]
        /\ Mode[s] \in {"throttled", "batch"}
    BY <1>1 DEF Submit, Batch
  <2>2. /\ pc'[s] \in {"exit0", "nap", "submit"}
        /\ pc'[s] = "exit0" => sent'[s] = N[s]
    BY <1>1 DEF Submit, Batch
  <2>3. \A i \in Scripts(s) : i <= sent'[s] => job'[<<s, i>>] # "unsent"
    BY <1>0, <2>1
  <2> QED BY <2>1, <2>2, <2>3
<1>2. CASE Run(s)
  <2>1. /\ sent'[s] = sent[s] + 1 /\ job' = [job EXCEPT ![<<s, sent[s] + 1>>] = "running"]
        /\ Mode[s] \in {"interactive", "concurrent"}
    BY <1>2 DEF Run
  <2>2. /\ Mode[s] = "interactive" => pc'[s] = "run"
        /\ Mode[s] = "concurrent" => pc'[s] = IF sent'[s] = N[s] THEN "await" ELSE "submit"
    BY <1>2 DEF Run
  <2>3. \A i \in Scripts(s) : i <= sent'[s] => job'[<<s, i>>] # "unsent"
    BY <1>0, <2>1
  <2>4. Mode[s] = "interactive" => \A i \in Scripts(s) : i < sent'[s] => job'[<<s, i>>] \in Over
    BY <1>0, <2>1
  <2> QED BY <2>1, <2>2, <2>3, <2>4
<1>3. CASE SubmitFails(s)
  BY <1>3 DEF SubmitFails, Batch
<1> QED BY <1>1, <1>2, <1>3

\* The other steps of an invocation.
LEMMA WaitKeeps ==
  ASSUME IInv, ~DryRun, Taken, InTurn, InteractiveVerdict, NEW s \in Starters,
         Query(s) \/ Nap(s) \/ QueryFails(s) \/ Collect(s) \/ Await(s)
  PROVE  /\ UNCHANGED <<sent, job>>
         /\ pc'[s] # "raised" => \A i \in Scripts(s) : i <= sent[s] => job[<<s, i>>] # "unsent"
         /\ pc'[s] \in {"await", "exit0", "exit1"} => sent[s] = N[s]
         /\ pc'[s] = "submit" /\ Mode[s] = "interactive" =>
              \A i \in Scripts(s) : i <= sent[s] => job[<<s, i>>] \in Over
         /\ pc'[s] # "run"
         /\ pc'[s] = "exit0" => \A i \in Scripts(s) : job[<<s, i>>] = "ok"
         /\ pc'[s] = "exit1" => \A i \in Scripts(s) : job[<<s, i>>] \in Over
<1> USE JobsArePairs, StartAssumption DEF IInv, TypeOK, Goto, Scripts
<1>0. sent[s] \in Nat /\ N[s] \in Nat
  OBVIOUS
<1>1. CASE Query(s)
  <2>1. pc'[s] \in {"submit", "nap"} /\ pc[s] = "query" /\ UNCHANGED <<sent, job>>
    BY <1>1 DEF Query
  <2>2. Mode[s] = "throttled"
    BY <2>1 DEF FromTheFront
  <2> QED BY <2>1, <2>2 DEF Taken
<1>2. CASE Nap(s) \/ QueryFails(s)
  BY <1>2 DEF Nap, QueryFails, Taken
<1>3. CASE Collect(s)
  <2>1. /\ pc[s] = "run" /\ job[<<s, sent[s]>>] \in Over /\ UNCHANGED <<sent, job>>
        /\ pc'[s] = IF sent[s] = N[s] THEN ExitStatus(s) ELSE "submit"
    BY <1>3 DEF Collect
  <2>2. \A i \in Scripts(s) : i <= sent[s] => job[<<s, i>>] \in Over
    BY <1>0, <2>1 DEF InTurn
  <2>3. CASE sent[s] = N[s]
    <3>1. \A i \in Scripts(s) : job[<<s, i>>] \in Over
      BY <1>0, <2>2, <2>3
    <3> QED BY <2>1, <2>3, <3>1, Verdict DEF Over
  <2>4. CASE sent[s] # N[s]
    BY <2>1, <2>2, <2>4 DEF Over
  <2> QED BY <2>3, <2>4
<1>4. CASE Await(s)
  <2>1. /\ pc[s] = "await" /\ \A i \in Scripts(s) : job[<<s, i>>] \in Over
        /\ UNCHANGED <<sent, job>> /\ pc'[s] = ExitStatus(s)
    BY <1>4 DEF Await
  <2>2. sent[s] = N[s]
    BY <2>1 DEF Taken
  <2> QED BY <2>1, <2>2, Verdict DEF Over
<1> QED BY <1>1, <1>2, <1>3, <1>4

\* Every step keeps account of what was taken, run and seen.
LEMMA OutcomeKept == IInv /\ Outcome /\ [Next]_vars => Outcome'
<1> SUFFICES ASSUME IInv, ~DryRun, Taken, InTurn, InteractiveVerdict, [Next]_vars,
                    NEW u \in Starters
             PROVE  /\ pc'[u] # "raised" => \A i \in Scripts(u) : i <= sent'[u] => job'[<<u, i>>] # "unsent"
                    /\ pc'[u] \in {"await", "exit0", "exit1"} => sent'[u] = N[u]
                    /\ pc'[u] = "submit" /\ Mode[u] = "interactive" =>
                         \A i \in Scripts(u) : i <= sent'[u] => job'[<<u, i>>] \in Over
                    /\ pc'[u] = "run" => /\ Mode[u] = "interactive"
                                         /\ \A i \in Scripts(u) : i < sent'[u] => job'[<<u, i>>] \in Over
                    /\ Mode[u] \in {"interactive", "concurrent"} =>
                         /\ pc'[u] = "exit0" => \A i \in Scripts(u) : job'[<<u, i>>] = "ok"
                         /\ pc'[u] = "exit1" => \A i \in Scripts(u) : job'[<<u, i>>] \in Over
  BY DEF Outcome, Taken, InTurn, InteractiveVerdict
<1>1. ASSUME NEW s \in Starters, Starter(s) \/ QueryFails(s) \/ SubmitFails(s), s # u
      PROVE  /\ UNCHANGED <<pc[u], sent[u]>>
             /\ \A i \in Scripts(u) : job'[<<u, i>>] = job[<<u, i>>]
  BY <1>1, OthersKept
<1>2. CASE Submit(u) \/ Run(u) \/ SubmitFails(u)
  BY <1>2, SendKeeps
<1>3. CASE Query(u) \/ Nap(u) \/ QueryFails(u) \/ Collect(u) \/ Await(u)
  BY <1>3, WaitKeeps
<1>4. CASE UNCHANGED <<pc, sent>> /\ JobsGoOn
  <2>1. \A i \in Scripts(u) : /\ job[<<u, i>>] # "unsent" => job'[<<u, i>>] # "unsent"
                              /\ job[<<u, i>>] \in Over => job'[<<u, i>>] = job[<<u, i>>]
    BY <1>4, JobsArePairs DEF JobsGoOn
  <2> QED BY <1>4, <2>1 DEF Taken, InTurn, InteractiveVerdict, Over
<1>5. CASE \E s \in Starters : s # u /\ (Starter(s) \/ QueryFails(s) \/ SubmitFails(s))
  BY <1>1, <1>5 DEF Taken, InTurn, InteractiveVerdict
<1> QED BY <1>2, <1>3, <1>4, <1>5, JobsOnly DEF Starter

\* At first no script has been taken.
LEMMA InitOutcome == Init => Outcome
<1> SUFFICES ASSUME Init, NEW s \in Starters
             PROVE  /\ pc[s] \in {First(s), "absent"} /\ sent[s] = 0 /\ N[s] \in Nat
                    /\ Scripts(s) = 1..N[s]
  BY DEF Outcome, Taken, InTurn, InteractiveVerdict, First
<1> QED BY StartAssumption DEF Init, Scripts

\* What an invocation reports as submitted the batch system has taken, however
\* queries and submissions fail, for any number of invocations and scripts.
THEOREM AllTaken == Spec => []ReportedWereTaken
<1>1. IInv /\ Outcome => ReportedWereTaken
  BY StartAssumption DEF Outcome, Taken, ReportedWereTaken, Scripts
<1> QED BY InitOutcome, OutcomeKept, IInvariant, <1>1, PTL DEF Spec

\* Interactive jobs: success is reported when all have succeeded, failure once all
\* have ended, for any number of invocations and scripts.
THEOREM VerdictOnAll == Spec => []InteractiveVerdict
<1>1. Outcome => InteractiveVerdict
  BY DEF Outcome, InteractiveVerdict
<1> QED BY InitOutcome, OutcomeKept, IInvariant, <1>1, PTL DEF Spec
=================================================================================
