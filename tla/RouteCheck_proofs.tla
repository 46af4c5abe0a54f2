--------------------------- MODULE RouteCheck_proofs ---------------------------
(***************************************************************************)
(* Proofs about RouteCheck, for every number of ranks, sizes and bursts: a *)
(* dealer that goes on to the kill messages has had every message echoed   *)
(* by everybody; unless a message overtakes a kill message no rank is more *)
(* than one round ahead of another, the kill message comes after every     *)
(* burst, and nobody waits for a message that will not come.               *)
(***************************************************************************)
EXTENDS RouteCheck, TLAPS

--------------------------------------------------------------------------------
(* The sizes *)

\* The numbers of the command line.
LEMMA Numbers ==
  ASSUME setup \in Setups
  PROVE  /\ setup.mpi_size \in Nat /\ setup.mpi_size > 1
         /\ setup.smin \in Nat \ {0} /\ setup.emax \in Nat /\ setup.smin <= setup.emax
         /\ setup.burst_size \in Nat /\ setup.burst_size >= 1 /\ setup.interval \in BOOLEAN
BY RouteCheckAssumption

LEMMA SizesDoubled ==
  ASSUME setup \in Setups
  PROVE  Doubled(Sizes) /\ Sizes \subseteq setup.smin..setup.emax
<1> DEFINE U == setup.smin..setup.emax
<1>1. setup.smin \in Nat \ {0} /\ setup.emax \in Nat /\ setup.smin <= setup.emax
  BY Numbers
<1>2. Sizes \subseteq U
  BY DEF Sizes
<1>3. setup.smin \in Sizes
  BY <1>1 DEF Sizes, Doubled
<1>4. ASSUME NEW n \in Sizes, n * 2 <= setup.emax PROVE n * 2 \in Sizes
  <2>1. n * 2 \in U
    BY <1>1, <1>2, <1>4
  <2>2. \A S \in SUBSET U : Doubled(S) => n * 2 \in S
    BY <1>4 DEF Sizes, Doubled
  <2> QED BY <2>1, <2>2 DEF Sizes
<1> QED BY <1>2, <1>3, <1>4 DEF Doubled

LEMMA LeastSizes ==
  ASSUME NEW S \in SUBSET (setup.smin..setup.emax), Doubled(S)
  PROVE  Sizes \subseteq S
BY DEF Sizes

\* There is no size between one and its double.
LEMMA NoSizeBetween ==
  ASSUME setup \in Setups
  PROVE  \A n, m \in Sizes : m <= n \/ n * 2 <= m
<1> DEFINE U == setup.smin..setup.emax
           Apt == {n \in U : \A m \in Sizes : m <= n \/ n * 2 <= m}
<1>1. setup.smin \in Nat \ {0} /\ setup.emax \in Nat /\ setup.smin <= setup.emax
  BY Numbers
<1>2. Sizes \subseteq U /\ Doubled(Sizes)
  BY SizesDoubled
<1>3. setup.smin \in Apt
  <2> DEFINE S == {m \in U : m <= setup.smin \/ setup.smin * 2 <= m}
  <2>1. Doubled(S)
    BY <1>1 DEF Doubled
  <2> HIDE DEF S
  <2>2. Sizes \subseteq S
    BY <2>1, LeastSizes DEF S
  <2> QED BY <1>1, <2>2 DEF S
<1>4. ASSUME NEW n \in Apt, n * 2 <= setup.emax PROVE n * 2 \in Apt
  <2> DEFINE S == {m \in Sizes : m <= n * 2 \/ (n * 2) * 2 <= m}
  <2>1. n \in U /\ \A m \in Sizes : m <= n \/ n * 2 <= m
    OBVIOUS
  <2>2. n \in Nat /\ setup.smin <= n /\ n * 2 \in U
    BY <1>1, <1>4, <2>1
  <2>3. setup.smin \in S
    BY <1>1, <1>2, <2>2 DEF Doubled
  <2>4. ASSUME NEW m \in S, m * 2 <= setup.emax PROVE m * 2 \in S
    <3>1. m \in Sizes /\ m * 2 \in Sizes /\ m \in Nat
      BY <1>1, <1>2, <2>4 DEF Doubled
    <3>2. m <= n \/ n * 2 <= m
      BY <2>1, <3>1
    <3> QED BY <2>2, <3>1, <3>2
  <2>5. Doubled(S) /\ S \in SUBSET U
    BY <1>2, <2>3, <2>4 DEF Doubled
  <2> HIDE DEF S
  <2>6. Sizes \subseteq S
    BY <2>5, LeastSizes
  <2> QED BY <2>2, <2>6 DEF S
<1>5. Doubled(Apt)
  BY <1>3, <1>4 DEF Doubled
<1>6. Sizes \subseteq Apt
  <2> HIDE DEF Apt
  <2> QED BY <1>5, LeastSizes DEF Apt
<1> QED BY <1>6

\* What follows for the dealer's loop over the sizes.
LEMMA SizeSteps ==
  ASSUME setup \in Setups, NEW z \in Sizes
  PROVE  /\ z \in Nat \ {0} /\ setup.smin \in Sizes
         /\ \A n \in Sizes : n \in Nat /\ n >= setup.smin
         /\ z * 2 > setup.emax => \A n \in Sizes : n <= z
         /\ ~(z * 2 > setup.emax) => z * 2 \in Sizes /\ \A n \in Sizes : n < z * 2 <=> n <= z
<1>1. /\ setup.smin \in Nat \ {0} /\ setup.emax \in Nat
      /\ Sizes \subseteq setup.smin..setup.emax /\ Doubled(Sizes)
  BY Numbers, SizesDoubled
<1>2. \A n \in Sizes : n \in Nat /\ n >= setup.smin /\ n <= setup.emax
  BY <1>1
<1>3. \A n \in Sizes : n <= z \/ z * 2 <= n
  BY NoSizeBetween
<1>4. z \in Nat \ {0}
  BY <1>1, <1>2
<1>5. ~(z * 2 > setup.emax) => z * 2 \in Sizes
  BY <1>1, <1>4 DEF Doubled
<1> QED BY <1>1, <1>2, <1>3, <1>4, <1>5 DEF Doubled

--------------------------------------------------------------------------------
(* The destinations *)

LEMMA FirstDest ==
  ASSUME setup \in Setups, NEW r \in Ranks
  PROVE  /\ NextDest(0, r) \in Others(r)
         /\ \A s \in Others(r) : s \in Nat /\ NextDest(0, r) <= s
BY Numbers DEF NextDest, Others, Ranks

LEMMA DestSteps ==
  ASSUME setup \in Setups, NEW r \in Ranks, NEW d \in Others(r)
  PROVE  LET e == NextDest(d + 1, r)
         IN  /\ e = setup.mpi_size => \A s \in Others(r) : s <= d
             /\ e # setup.mpi_size => e \in Others(r) /\ d < e /\ \A s \in Others(r) : s < e <=> s <= d
BY Numbers DEF NextDest, Others, Ranks

--------------------------------------------------------------------------------
(* The messages under way *)

LEMMA RoutePairs ==
  ASSUME NEW r \in Ranks, NEW s \in Others(r)
  PROVE  s \in Ranks /\ s # r /\ <<r, s>> \in Routes /\ <<s, r>> \in Routes
BY DEF Others, Routes

\* Whatever the messages are, sending, receiving and echoing keep them what they are.
LEMMA OnTheWire ==
  ASSUME NEW M, wire \in [Routes -> Seq(M)], NEW r \in Ranks, NEW s \in Others(r)
  PROVE  /\ \A n \in M : Sent(r, s, n) \in [Routes -> Seq(M)]
         /\ Waiting(s, r) => /\ Head(wire[<<s, r>>]) \in M
                            /\ Taken(s, r) \in [Routes -> Seq(M)]
                            /\ Taken(s, r)[<<r, s>>] = wire[<<r, s>>]
<1>1. <<r, s>> \in Routes /\ <<s, r>> \in Routes /\ <<r, s>> # <<s, r>>
  BY RoutePairs
<1>2. \A n \in M : Sent(r, s, n) \in [Routes -> Seq(M)]
  <2> TAKE n \in M
  <2>1. Append(wire[<<r, s>>], n) \in Seq(M)
    BY <1>1
  <2> QED BY <2>1 DEF Sent
<1>3. ASSUME Waiting(s, r)
      PROVE  /\ Head(wire[<<s, r>>]) \in M
             /\ Taken(s, r) \in [Routes -> Seq(M)]
             /\ Taken(s, r)[<<r, s>>] = wire[<<r, s>>]
  <2>1. wire[<<s, r>>] \in Seq(M) /\ wire[<<s, r>>] # <<>>
    BY <1>1, <1>3 DEF Waiting
  <2>2. Head(wire[<<s, r>>]) \in M /\ Tail(wire[<<s, r>>]) \in Seq(M)
    BY <2>1
  <2>3. Taken(s, r) \in [Routes -> Seq(M)]
    BY <2>2 DEF Taken
  <2>4. Taken(s, r)[<<r, s>>] = wire[<<r, s>>]
    BY <1>1 DEF Taken
  <2> QED BY <2>2, <2>3, <2>4
<1> QED BY <1>2, <1>3

LEMMA Echoed ==
  ASSUME NEW M, wire \in [Routes -> Seq(M)], NEW r \in Ranks, NEW s \in Others(r),
         Waiting(s, r), Echo(r, s)
  PROVE  wire' \in [Routes -> Seq(M)]
<1> DEFINE n == Head(wire[<<s, r>>])
<1>1. /\ n \in M /\ Taken(s, r) \in [Routes -> Seq(M)]
      /\ Taken(s, r)[<<r, s>>] = wire[<<r, s>>]
  BY OnTheWire
<1>2. Append(wire[<<r, s>>], n) \in Seq(M)
  <2>1. wire[<<r, s>>] \in Seq(M)
    BY RoutePairs
  <2> QED BY <1>1, <2>1
<1>3. \/ wire' = Taken(s, r)
      \/ wire' = [Taken(s, r) EXCEPT ![<<r, s>>] = Append(wire[<<r, s>>], n)]
  BY <1>1 DEF Echo
<1> HIDE DEF n
<1> QED BY <1>1, <1>2, <1>3

--------------------------------------------------------------------------------
(* What a dealer has had echoed *)

Phases == {"begin", "send", "wait", "kill", "burst", "rest", "end", "done"}

Shapes ==
  /\ setup \in Setups
  /\ dealer_node \in [Ranks -> Nat] /\ phase \in [Ranks -> Phases]
  /\ dest_node \in [Ranks -> Nat] /\ data_size \in [Ranks -> Nat] /\ left \in [Ranks -> Int]
  /\ wire \in [Routes -> Seq(Nat)] /\ echoed \in [Routes \X Sizes -> Nat]
  /\ overtaken \in BOOLEAN

\* The echoes a dealer has of a size from a rank: all of a burst of what came before
\* the burst it is at, and of that one those it has waited for.
Passed(r, s, n) == s < dest_node[r] \/ (s = dest_node[r] /\ n < data_size[r])
Current(r, s, n) == s = dest_node[r] /\ n = data_size[r]
Echoes(r, s, n) ==
  IF phase[r] = "kill" \/ Passed(r, s, n) THEN setup.burst_size
  ELSE IF phase[r] = "wait" /\ Current(r, s, n) THEN setup.burst_size - left[r]
  ELSE 0

Deals(r) == phase[r] \in {"send", "wait", "kill"}
Dealing(r) == Deals(r) =>
  /\ data_size[r] \in Sizes /\ dest_node[r] \in Others(r) /\ left[r] \in 1..setup.burst_size
  /\ \A s \in Others(r), n \in Sizes : echoed[<<<<r, s>>, n>>] = Echoes(r, s, n)

EInv == Shapes /\ \A r \in Ranks : Dealing(r)

LEMMA SameSetup ==
  ASSUME setup' = setup
  PROVE  /\ Ranks' = Ranks /\ Routes' = Routes /\ Sizes' = Sizes
         /\ \A r : Others(r)' = Others(r)
BY DEF Ranks, Routes, Sizes, Doubled, Others

\* A step of another rank.
LEMMA DealingStays ==
  ASSUME setup' = setup, NEW r \in Ranks, Dealing(r),
         phase'[r] = phase[r] \/ ~Deals(r)',
         UNCHANGED <<dest_node[r], data_size[r], left[r]>>,
         \A s \in Others(r), n \in Sizes : echoed'[<<<<r, s>>, n>>] = echoed[<<<<r, s>>, n>>]
  PROVE  Dealing(r)'
<1>1. Sizes' = Sizes /\ Others(r)' = Others(r)
  BY SameSetup
<1>2. ASSUME Deals(r)' PROVE Dealing(r)'
  <2>1. Deals(r) /\ phase'[r] = phase[r]
    BY <1>2 DEF Deals
  <2>2. \A s, n : Echoes(r, s, n)' = Echoes(r, s, n)
    BY <2>1 DEF Echoes, Passed, Current
  <2> QED BY <1>1, <2>1, <2>2 DEF Dealing
<1> QED BY <1>2 DEF Dealing

LEMMA InitEchoes == Init => EInv
<1> SUFFICES ASSUME Init PROVE EInv
  OBVIOUS
<1>1. Shapes
  <2>1. wire \in [Routes -> Seq(Nat)] /\ echoed \in [Routes \X Sizes -> Nat]
    BY DEF Init
  <2>2. phase \in [Ranks -> Phases] /\ setup \in Setups /\ overtaken \in BOOLEAN
    BY DEF Init, Phases
  <2>3. /\ dealer_node \in [Ranks -> Nat] /\ dest_node \in [Ranks -> Nat]
        /\ data_size \in [Ranks -> Nat] /\ left \in [Ranks -> Int]
    BY DEF Init
  <2> QED BY <2>1, <2>2, <2>3 DEF Shapes
<1>2. \A r \in Ranks : Dealing(r)
  BY DEF Init, Dealing, Deals
<1> QED BY <1>1, <1>2 DEF EInv

LEMMA BeginDealerEchoes ==
  ASSUME EInv, NEW r \in Ranks, BeginDealer(r)
  PROVE  EInv'
<1>1. /\ setup' = setup /\ dealer_node' = dealer_node /\ wire' = wire /\ overtaken' = overtaken
      /\ phase' = [phase EXCEPT ![r] = "send"]
      /\ dest_node' = [dest_node EXCEPT ![r] = NextDest(0, r)]
      /\ data_size' = [data_size EXCEPT ![r] = setup.smin]
      /\ left' = [left EXCEPT ![r] = setup.burst_size]
      /\ echoed' = [x \in DOMAIN echoed |-> IF x[1][1] = r THEN 0 ELSE echoed[x]]
  BY DEF BeginDealer
<1>2. Shapes /\ setup \in Setups
  BY DEF EInv, Shapes
<1>3. NextDest(0, r) \in Others(r) /\ \A s \in Others(r) : s \in Nat /\ NextDest(0, r) <= s
  BY <1>2, FirstDest
<1>4. /\ setup.smin \in Nat /\ setup.smin \in Sizes /\ setup.burst_size \in Nat /\ setup.burst_size >= 1
      /\ \A n \in Sizes : n \in Nat /\ n >= setup.smin
  BY <1>2, Numbers, SizesDoubled DEF Doubled
<1>5. \A t \in Ranks : \A s \in Others(t), n \in Sizes :
        echoed'[<<<<t, s>>, n>>] = IF t = r THEN 0 ELSE echoed[<<<<t, s>>, n>>]
  BY <1>1, <1>2, RoutePairs DEF Shapes
<1>6. Shapes'
  BY <1>1, <1>2, <1>3, <1>4, SameSetup DEF Shapes, Phases
<1>7. Dealing(r)'
  <2>1. /\ phase'[r] = "send" /\ dest_node'[r] = NextDest(0, r) /\ data_size'[r] = setup.smin
        /\ left'[r] = setup.burst_size
    BY <1>1, <1>2 DEF Shapes
  <2>2. \A s \in Others(r), n \in Sizes : Echoes(r, s, n)' = 0
    <3> TAKE s \in Others(r), n \in Sizes
    <3>1. ~Passed(r, s, n)'
      <4>1. s \in Nat /\ n \in Nat /\ ~(s < NextDest(0, r)) /\ ~(n < setup.smin)
        BY <1>2, <1>3, <1>4, FirstDest
      <4> QED BY <2>1, <4>1 DEF Passed
    <3> QED BY <2>1, <3>1 DEF Echoes
  <2> QED BY <1>1, <1>3, <1>4, <1>5, <2>1, <2>2, SameSetup DEF Dealing
<1>8. \A t \in Ranks \ {r} : Dealing(t)'
  <2> TAKE t \in Ranks \ {r}
  <2>1. UNCHANGED <<phase[t], dest_node[t], data_size[t], left[t]>>
    BY <1>1, <1>2 DEF Shapes
  <2> QED BY <1>1, <1>5, <2>1, DealingStays DEF EInv
<1> QED BY <1>1, <1>6, <1>7, <1>8, SameSetup DEF EInv

\* A step that is not a dealer's waiting: no echo is counted.
LEMMA NotCounted ==
  ASSUME EInv, Shapes', UNCHANGED <<setup, echoed>>, NEW r \in Ranks, Dealing(r)',
         \A t \in Ranks \ {r} : UNCHANGED <<phase[t], dest_node[t], data_size[t], left[t]>>
  PROVE  EInv'
<1>1. \A t \in Ranks \ {r} : Dealing(t)'
  BY DealingStays DEF EInv
<1> QED BY <1>1, SameSetup DEF EInv

LEMMA SlaveEchoes ==
  ASSUME EInv, NEW r \in Ranks,
         \/ BeginSlave(r) \/ NextRound(r)
         \/ \E s \in Others(r) : SlaveBurst(r, s) \/ SlaveRest(r, s)
  PROVE  EInv'
<1>1. /\ setup' = setup /\ UNCHANGED <<dest_node, data_size, echoed>>
      /\ \A t \in Ranks \ {r} : phase'[t] = phase[t] /\ left'[t] = left[t]
  BY DEF BeginSlave, NextRound, SlaveBurst, SlaveRest, EInv, Shapes
<1>2. phase' \in [Ranks -> Phases] /\ ~Deals(r)'
  BY DEF BeginSlave, NextRound, SlaveBurst, SlaveRest, EInv, Shapes, Phases, Deals
<1>3. left' \in [Ranks -> Int] /\ overtaken' \in BOOLEAN
  <2>1. /\ left \in [Ranks -> Int] /\ overtaken \in BOOLEAN
        /\ left[r] - 1 \in Int /\ setup.burst_size \in Int
    BY Numbers DEF EInv, Shapes
  <2>2. CASE BeginSlave(r) \/ NextRound(r)
    BY <2>1, <2>2 DEF BeginSlave, NextRound, BurstReceives
  <2>3. CASE \E s \in Others(r) : SlaveBurst(r, s) \/ SlaveRest(r, s)
    BY <2>1, <2>3 DEF SlaveBurst, SlaveRest
  <2> QED BY <2>2, <2>3
<1>4. dealer_node' \in [Ranks -> Nat]
  <2>1. dealer_node \in [Ranks -> Nat] /\ dealer_node[r] + 1 \in Nat
    BY DEF EInv, Shapes
  <2>2. CASE NextRound(r)
    <3>1. \/ dealer_node' = [dealer_node EXCEPT ![r] = 0]
          \/ dealer_node' = [dealer_node EXCEPT ![r] = dealer_node[r] + 1]
      BY <2>2 DEF NextRound
    <3> QED BY <2>1, <3>1
  <2>3. CASE ~NextRound(r)
    BY <2>1, <2>3 DEF BeginSlave, SlaveBurst, SlaveRest
  <2> QED BY <2>2, <2>3
<1>5. wire' \in [Routes -> Seq(Nat)]
  <2>1. wire \in [Routes -> Seq(Nat)]
    BY DEF EInv, Shapes
  <2>2. CASE BeginSlave(r) \/ NextRound(r)
    BY <2>1, <2>2 DEF BeginSlave, NextRound
  <2>3. ASSUME NEW s \in Others(r), SlaveBurst(r, s) \/ SlaveRest(r, s)
        PROVE  wire' \in [Routes -> Seq(Nat)]
    <3>1. Waiting(s, r) /\ Echo(r, s)
      BY <2>3 DEF SlaveBurst, SlaveRest
    <3> QED BY <2>1, <3>1, Echoed
  <2> QED BY <2>2, <2>3
<1>6. Shapes'
  BY <1>1, <1>2, <1>3, <1>4, <1>5, SameSetup DEF EInv, Shapes
<1>7. Dealing(r)'
  BY <1>2 DEF Dealing
<1> QED BY <1>1, <1>6, <1>7, NotCounted

LEMMA AbortEchoes ==
  ASSUME EInv, Abort
  PROVE  EInv'
<1>1. /\ UNCHANGED <<setup, dealer_node, dest_node, data_size, left, wire, echoed, overtaken>>
      /\ phase' = [r \in Ranks |-> "done"]
  BY DEF Abort
<1>2. Shapes'
  BY <1>1, SameSetup DEF EInv, Shapes, Phases
<1>3. \A r \in Ranks : Dealing(r)'
  BY <1>1 DEF Dealing, Deals
<1> QED BY <1>1, <1>2, <1>3, SameSetup DEF EInv

LEMMA SendBurstEchoes ==
  ASSUME EInv, NEW r \in Ranks, SendBurst(r)
  PROVE  EInv'
<1>1. /\ UNCHANGED <<setup, dealer_node, dest_node, data_size, echoed, overtaken>>
      /\ phase[r] = "send" /\ wire' = Sent(r, dest_node[r], data_size[r])
      /\ left' = [left EXCEPT ![r] = IF left[r] = 1 THEN setup.burst_size ELSE left[r] - 1]
      /\ phase' = [phase EXCEPT ![r] = IF left[r] = 1 THEN "wait" ELSE phase[r]]
  BY DEF SendBurst
<1>2. /\ Shapes /\ data_size[r] \in Sizes /\ dest_node[r] \in Others(r)
      /\ left[r] \in 1..setup.burst_size
      /\ \A s \in Others(r), n \in Sizes : echoed[<<<<r, s>>, n>>] = Echoes(r, s, n)
  BY <1>1 DEF EInv, Dealing, Deals
<1>3. setup.burst_size \in Nat /\ setup.burst_size >= 1 /\ data_size[r] \in Nat
  BY <1>2, Numbers DEF Shapes
<1>4. Shapes'
  <2>1. left' \in [Ranks -> Int] /\ phase' \in [Ranks -> Phases]
    BY <1>1, <1>2, <1>3 DEF Shapes, Phases
  <2>2. wire' \in [Routes -> Seq(Nat)]
    BY <1>1, <1>2, <1>3, OnTheWire DEF Shapes
  <2> QED BY <1>1, <1>2, <2>1, <2>2, SameSetup DEF Shapes
<1>5. Dealing(r)'
  <2>1. /\ phase'[r] = IF left[r] = 1 THEN "wait" ELSE "send"
        /\ left'[r] = IF left[r] = 1 THEN setup.burst_size ELSE left[r] - 1
    BY <1>1, <1>2 DEF Shapes
  <2>2. left'[r] \in 1..setup.burst_size
    BY <1>2, <1>3, <2>1
  <2>3. \A s, n : Echoes(r, s, n)' = Echoes(r, s, n)
    <3>1. phase'[r] = "wait" => setup.burst_size - left'[r] = 0
      BY <1>3, <2>1
    <3> QED BY <1>1, <2>1, <3>1 DEF Echoes, Passed, Current
  <2> QED BY <1>1, <1>2, <2>2, <2>3, SameSetup DEF Dealing
<1>6. \A t \in Ranks \ {r} : UNCHANGED <<phase[t], dest_node[t], data_size[t], left[t]>>
  BY <1>1, <1>2 DEF Shapes
<1> QED BY <1>1, <1>4, <1>5, <1>6, NotCounted

LEMMA SendKillEchoes ==
  ASSUME EInv, NEW r \in Ranks, SendKill(r)
  PROVE  /\ EInv' /\ dest_node[r] \in Others(r)
         /\ LastDest(r) => \A s \in Others(r) : s <= dest_node[r]
         /\ ~LastDest(r) => dest_node'[r] \in Others(r) /\ dest_node[r] < dest_node'[r]
<1> DEFINE e == NextDest(dest_node[r] + 1, r)
<1>1. /\ UNCHANGED <<setup, dealer_node, data_size, left, echoed, overtaken>>
      /\ phase[r] = "kill" /\ wire' = Sent(r, dest_node[r], Kill)
      /\ phase' = IF LastDest(r) THEN [phase EXCEPT ![r] = "end"] ELSE phase
      /\ dest_node' = IF LastDest(r) THEN dest_node ELSE [dest_node EXCEPT ![r] = e]
  BY DEF SendKill
<1>2. /\ Shapes /\ data_size[r] \in Sizes /\ dest_node[r] \in Others(r)
      /\ left[r] \in 1..setup.burst_size
      /\ \A s \in Others(r), n \in Sizes : echoed[<<<<r, s>>, n>>] = setup.burst_size
  BY <1>1 DEF EInv, Dealing, Deals, Echoes
<1>3. /\ LastDest(r) <=> e = setup.mpi_size
      /\ e = setup.mpi_size => \A s \in Others(r) : s <= dest_node[r]
      /\ e # setup.mpi_size => e \in Others(r) /\ dest_node[r] < e
  BY <1>2, DestSteps DEF LastDest, Shapes
<1> HIDE DEF e
<1>4. \A s \in Others(r) : s \in Nat
  BY <1>2, FirstDest DEF Shapes
<1>5. Shapes'
  <2>1. wire' \in [Routes -> Seq(Nat)]
    BY <1>1, <1>2, OnTheWire DEF Kill, Shapes
  <2>2. phase' \in [Ranks -> Phases]
    BY <1>1, <1>2 DEF Shapes, Phases
  <2>3. dest_node' \in [Ranks -> Nat]
    BY <1>1, <1>2, <1>3, <1>4 DEF Shapes
  <2> QED BY <1>1, <1>2, <2>1, <2>2, <2>3, SameSetup DEF Shapes
<1>6. ~LastDest(r) => dest_node'[r] = e
  BY <1>1, <1>2 DEF Shapes
<1>7. Dealing(r)'
  <2>1. CASE LastDest(r)
    BY <1>1, <1>2, <2>1 DEF Dealing, Deals, Shapes
  <2>2. CASE ~LastDest(r)
    <3>1. phase' = phase /\ dest_node'[r] \in Others(r)
      BY <1>1, <1>3, <1>6, <2>2
    <3>2. \A s, n : Echoes(r, s, n)' = setup.burst_size
      BY <1>1, <3>1 DEF Echoes
    <3> QED BY <1>1, <1>2, <3>1, <3>2, SameSetup DEF Dealing
  <2> QED BY <2>1, <2>2
<1>8. \A t \in Ranks \ {r} : UNCHANGED <<phase[t], dest_node[t], data_size[t], left[t]>>
  BY <1>1, <1>2 DEF Shapes
<1> QED BY <1>1, <1>2, <1>3, <1>5, <1>6, <1>7, <1>8, NotCounted

\* The dealer goes over the sizes of a destination and over the destinations.
LEMMA WaitBurstEchoes ==
  ASSUME EInv, NEW r \in Ranks, WaitBurst(r)
  PROVE  /\ EInv' /\ dest_node[r] \in Others(r) /\ data_size[r] \in Sizes
         /\ \A t \in Ranks : \A s \in Others(t), n \in Sizes :
              t # r \/ s # dest_node[r] => echoed'[<<<<t, s>>, n>>] = echoed[<<<<t, s>>, n>>]
<1> DEFINE D == dest_node[r]
           Z == data_size[r]
           L == left[r]
           B == setup.burst_size
           x == <<<<r, D>>, Z>>
           e == NextDest(D + 1, r)
<1>1. /\ UNCHANGED <<setup, dealer_node, overtaken>> /\ phase[r] = "wait"
      /\ Waiting(D, r) /\ wire' = Taken(D, r)
      /\ echoed' = [echoed EXCEPT ![x] = @ + 1]
  BY DEF WaitBurst
<1>2. /\ Shapes /\ Z \in Sizes /\ D \in Others(r) /\ L \in 1..B
      /\ \A s \in Others(r), n \in Sizes : echoed[<<<<r, s>>, n>>] = Echoes(r, s, n)
  BY <1>1 DEF EInv, Dealing, Deals
<1>3. B \in Nat /\ B >= 1 /\ D \in Nat /\ L \in Nat /\ \A s \in Others(r) : s \in Nat
  BY <1>2, Numbers, FirstDest DEF Shapes
<1>4. /\ Z \in Nat \ {0} /\ setup.smin \in Sizes
      /\ \A n \in Sizes : n \in Nat /\ n >= setup.smin
      /\ LastSize(r) => \A n \in Sizes : n <= Z
      /\ ~LastSize(r) => Z * 2 \in Sizes /\ \A n \in Sizes : n < Z * 2 <=> n <= Z
  BY <1>2, SizeSteps DEF Shapes, LastSize
<1>5. /\ LastDest(r) <=> e = setup.mpi_size
      /\ e = setup.mpi_size => \A s \in Others(r) : s <= D
      /\ e # setup.mpi_size => e \in Others(r) /\ \A s \in Others(r) : s < e <=> s <= D
  BY <1>2, DestSteps DEF LastDest, Shapes
<1>6. NextDest(0, r) \in Others(r)
  BY <1>2, FirstDest DEF Shapes
<1>7. x \in Routes \X Sizes /\ echoed[x] \in Nat
  BY <1>2, RoutePairs DEF Shapes
<1>8. \A t \in Ranks : \A s \in Others(t), n \in Sizes :
        echoed'[<<<<t, s>>, n>>] = IF t = r /\ s = D /\ n = Z THEN echoed[x] + 1
                                   ELSE echoed[<<<<t, s>>, n>>]
  <2>1. \A t \in Ranks : \A s \in Others(t), n \in Sizes : <<<<t, s>>, n>> \in Routes \X Sizes
    BY RoutePairs
  <2>2. echoed = [y \in Routes \X Sizes |-> echoed[y]]
    BY <1>2 DEF Shapes
  <2> HIDE DEF x
  <2>3. \A y \in Routes \X Sizes : echoed'[y] = IF y = x THEN echoed[x] + 1 ELSE echoed[y]
    BY <1>1, <1>7, <2>2
  <2> QED BY <2>1, <2>3 DEF x
<1>9. echoed[x] = B - L
  <2>1. ~Passed(r, D, Z) /\ Current(r, D, Z)
    BY <1>3, <1>4 DEF Passed, Current
  <2> QED BY <1>1, <1>2, <2>1 DEF Echoes
<1>10. \A s \in Others(r), n \in Sizes :
         echoed'[<<<<r, s>>, n>>] = IF s < D \/ (s = D /\ n < Z) THEN B
                                    ELSE IF s = D /\ n = Z THEN B - L + 1 ELSE 0
  <2> TAKE s \in Others(r), n \in Sizes
  <2>1. CASE s = D /\ n = Z
    <3>1. ~(s < D) /\ ~(n < Z)
      BY <1>3, <1>4, <2>1
    <3> QED BY <1>8, <1>9, <2>1, <3>1
  <2>2. CASE ~(s = D /\ n = Z)
    <3>1. echoed'[<<<<r, s>>, n>>] = Echoes(r, s, n)
      BY <1>2, <1>8, <2>2
    <3> QED BY <1>1, <2>2, <3>1 DEF Echoes, Passed, Current
  <2> QED BY <2>1, <2>2
<1> HIDE DEF x
<1>11. echoed' \in [Routes \X Sizes -> Nat] /\ wire' \in [Routes -> Seq(Nat)]
  <2>1. echoed' \in [Routes \X Sizes -> Nat]
    BY <1>1, <1>2, <1>7 DEF Shapes
  <2>2. <<D, r>> \in Routes /\ wire \in [Routes -> Seq(Nat)] /\ wire[<<D, r>>] # <<>>
    BY <1>1, <1>2, RoutePairs DEF Shapes, Waiting
  <2>3. Tail(wire[<<D, r>>]) \in Seq(Nat)
    BY <2>2
  <2> QED BY <1>1, <2>1, <2>2, <2>3 DEF Taken
<1>12. CASE L > 1
  <2>1. left' = [left EXCEPT ![r] = L - 1] /\ UNCHANGED <<phase, dest_node, data_size>>
    BY <1>12 DEF WaitBurst
  <2>2. left'[r] = L - 1 /\ left' \in [Ranks -> Int]
    BY <1>2, <1>3, <2>1 DEF Shapes
  <2>3. Shapes'
    BY <1>1, <1>2, <1>11, <2>1, <2>2, SameSetup DEF Shapes
  <2>4. \A s \in Others(r), n \in Sizes : echoed'[<<<<r, s>>, n>>] = Echoes(r, s, n)'
    <3>1. B - L + 1 = B - (L - 1)
      BY <1>3
    <3> QED BY <1>1, <1>10, <2>1, <2>2, <3>1 DEF Echoes, Passed, Current
  <2>5. Dealing(r)'
    <3>1. left'[r] \in 1..B
      BY <1>2, <1>3, <1>12, <2>2
    <3> QED BY <1>1, <1>2, <2>1, <2>4, <3>1, SameSetup DEF Dealing
  <2>6. \A t \in Ranks \ {r} : Dealing(t)'
    <3> TAKE t \in Ranks \ {r}
    <3>1. UNCHANGED <<phase[t], dest_node[t], data_size[t], left[t]>>
      BY <1>2, <2>1 DEF Shapes
    <3> QED BY <1>1, <1>8, <3>1, DealingStays DEF EInv
  <2> QED BY <1>1, <1>2, <1>8, <2>3, <2>5, <2>6, SameSetup DEF EInv
<1>13. CASE ~(L > 1)
  <2> DEFINE Z2 == IF LastSize(r) THEN setup.smin ELSE Z * 2
             D2 == IF ~LastSize(r) THEN D ELSE IF LastDest(r) THEN NextDest(0, r) ELSE e
             P2 == IF LastSize(r) /\ LastDest(r) THEN "kill" ELSE "send"
  <2>1. /\ left' = [left EXCEPT ![r] = B] /\ data_size' = [data_size EXCEPT ![r] = Z2]
        /\ dest_node' = [dest_node EXCEPT ![r] = D2] /\ phase' = [phase EXCEPT ![r] = P2]
    BY <1>13 DEF WaitBurst, NextBurst
  <2>2. Z2 \in Sizes /\ D2 \in Others(r) /\ P2 \in Phases /\ P2 \in {"send", "kill"}
    BY <1>2, <1>4, <1>5, <1>6 DEF Phases
  <2>3. Z2 \in Nat /\ D2 \in Nat
    BY <1>3, <1>4, <2>2
  <2>4. L = 1 /\ B - L + 1 = B
    BY <1>2, <1>3, <1>13
  <2>5. \A s \in Others(r), n \in Sizes :
          echoed'[<<<<r, s>>, n>>] = IF P2 = "kill" \/ s < D2 \/ (s = D2 /\ n < Z2) THEN B ELSE 0
    <3> TAKE s \in Others(r), n \in Sizes
    <3>1. s \in Nat /\ n \in Nat /\ n >= setup.smin /\ setup.smin \in Nat
      BY <1>3, <1>4
    <3>2. echoed'[<<<<r, s>>, n>>] = IF s < D \/ (s = D /\ n <= Z) THEN B ELSE 0
      <4>1. n <= Z <=> n < Z \/ n = Z
        BY <1>4, <3>1
      <4> QED BY <1>10, <2>4, <4>1
    <3>3. CASE ~LastSize(r)
      <4>1. n < Z2 <=> n <= Z
        BY <1>4, <3>3
      <4>2. P2 = "send" /\ D2 = D
        BY <3>3
      <4> HIDE DEF P2, D2, Z2
      <4> QED BY <3>2, <4>1, <4>2
    <3>4. CASE LastSize(r) /\ ~LastDest(r)
      <4>1. n <= Z /\ ~(n < Z2) /\ (s < D2 <=> s <= D)
        BY <1>4, <1>5, <3>1, <3>4
      <4>2. s <= D <=> s < D \/ s = D
        BY <1>3, <3>1
      <4>3. P2 = "send"
        BY <3>4
      <4> HIDE DEF P2, D2, Z2
      <4> QED BY <3>2, <4>1, <4>2, <4>3
    <3>5. CASE LastSize(r) /\ LastDest(r)
      <4>1. n <= Z /\ s <= D /\ P2 = "kill"
        BY <1>4, <1>5, <3>5
      <4>2. s < D \/ s = D
        BY <1>3, <3>1, <4>1
      <4> HIDE DEF P2, D2, Z2
      <4> QED BY <3>2, <4>1, <4>2
    <3> QED BY <3>3, <3>4, <3>5
  <2> HIDE DEF P2, D2, Z2
  <2>6. phase'[r] = P2 /\ dest_node'[r] = D2 /\ data_size'[r] = Z2 /\ left'[r] = B
    BY <1>2, <2>1 DEF Shapes
  <2>7. Shapes'
    <3>1. /\ left' \in [Ranks -> Int] /\ data_size' \in [Ranks -> Nat]
          /\ dest_node' \in [Ranks -> Nat] /\ phase' \in [Ranks -> Phases]
      BY <1>2, <1>3, <2>1, <2>2, <2>3 DEF Shapes
    <3> QED BY <1>1, <1>2, <1>11, <3>1, SameSetup DEF Shapes
  <2>8. Dealing(r)'
    <3>1. \A s \in Others(r), n \in Sizes : echoed'[<<<<r, s>>, n>>] = Echoes(r, s, n)'
      <4>1. P2 # "wait"
        BY <2>2
      <4> QED BY <1>1, <2>5, <2>6, <4>1 DEF Echoes, Passed
    <3>2. left'[r] \in 1..B
      BY <1>3, <2>6
    <3> QED BY <1>1, <2>2, <2>6, <3>1, <3>2, SameSetup DEF Dealing
  <2>9. \A t \in Ranks \ {r} : Dealing(t)'
    <3> TAKE t \in Ranks \ {r}
    <3>1. UNCHANGED <<phase[t], dest_node[t], data_size[t], left[t]>>
      BY <1>2, <2>1 DEF Shapes
    <3> QED BY <1>1, <1>8, <3>1, DealingStays DEF EInv
  <2> QED BY <1>1, <1>2, <1>8, <2>7, <2>8, <2>9, SameSetup DEF EInv
<1> QED BY <1>12, <1>13

LEMMA StepEchoes ==
  ASSUME EInv, [Next]_vars
  PROVE  EInv'
<1>1. CASE UNCHANGED vars
  <2>1. \A r \in Ranks : Dealing(r)'
    BY <1>1, DealingStays DEF vars, EInv
  <2>2. Shapes'
    BY <1>1, SameSetup DEF vars, EInv, Shapes
  <2> QED BY <1>1, <2>1, <2>2, SameSetup DEF vars, EInv
<1>2. ASSUME NEW r \in Ranks, Step(r) PROVE EInv'
  BY <1>2, BeginDealerEchoes, SlaveEchoes, SendBurstEchoes, WaitBurstEchoes, SendKillEchoes DEF Step
<1>3. CASE Abort
  BY <1>3, AbortEchoes
<1> QED BY <1>1, <1>2, <1>3 DEF Next

\* RoutesExercised, for every number of ranks, sizes and bursts: a dealer that goes
\* on to the kill messages has had all it sent echoed by everybody.
THEOREM AllExercised == Spec => []RoutesExercised
<1>1. EInv => RoutesExercised
  BY DEF EInv, Dealing, Deals, Echoes, RoutesExercised
<1> QED BY <1>1, InitEchoes, StepEchoes, PTL DEF Spec

--------------------------------------------------------------------------------
(* The rounds *)

\* As long as no message has overtaken a kill message, the ranks are in the round of
\* a dealer b, the hindmost, or in the next one. A dealer that sends bursts or waits
\* is Busy: it alone then has messages under way, those Owed to it. Every other
\* message under way is a kill message of b, to a rank still in b's round, that b
\* has told to leave it.
Nx(b) == IF setup.interval /\ b = setup.mpi_size - 1 THEN 0 ELSE b + 1

Busy(r) == phase[r] \in {"send", "wait"}

Role(r) ==
  /\ Deals(r) => dealer_node[r] = r
  /\ phase[r] \in {"burst", "rest"} => dealer_node[r] \in Others(r)
  /\ phase[r] \in {"begin", "end"} => dealer_node[r] \in Ranks
  /\ phase[r] = "done" => dealer_node[r] = setup.mpi_size

Owed(r, q) ==
  IF q # dest_node[r] THEN 0
  ELSE IF phase[r] = "send" THEN setup.burst_size - left[r] ELSE left[r]

Heard(r, q) == wire[<<q, r>>] # <<>> \/ \E n \in Sizes : echoed[<<<<r, q>>, n>>] > 0

Exchange(r, q) ==
  /\ Len(wire[<<r, q>>]) + Len(wire[<<q, r>>]) = Owed(r, q)
  /\ \A i \in 1..Len(wire[<<r, q>>]) : wire[<<r, q>>][i] # Kill
  /\ Heard(r, q) => dealer_node[q] = r

Outstanding(r) == Busy(r) => \A q \in Others(r) : Exchange(r, q)

Near(b) ==
  /\ \A r \in Ranks : dealer_node[r] \in {b, Nx(b)}
  /\ \E r \in Ranks : dealer_node[r] = b
  /\ \A r \in Ranks : dealer_node[r] = Nx(b) => phase[r] \notin {"kill", "end"}

In(b, q) == dealer_node[q] = b /\ phase[q] # "end"

Open(b) ==
  dealer_node[b] = b =>
    /\ phase[b] \in {"begin", "send", "wait"} => \A q \in Ranks : In(b, q)
    /\ phase[b] = "kill" => \A q \in Others(b) : q >= dest_node[b] => In(b, q)

Told(b, q) ==
  \/ dealer_node[b] # b \/ phase[b] = "end"
  \/ phase[b] = "kill" /\ q < dest_node[b]

Kills(b) ==
  \A s \in Ranks : \A q \in Others(s) :
    wire[<<s, q>>] # <<>> /\ ~Busy(s) /\ ~Busy(q) =>
      s = b /\ wire[<<s, q>>] = <<Kill>> /\ In(b, q) /\ Told(b, q)

Roles == \A r \in Ranks : Role(r) /\ Outstanding(r)
Apart(b) == Near(b) /\ Open(b) /\ Kills(b)

RInv == EInv /\ (overtaken \/ AllDone \/ (Roles /\ \E b \in Ranks : Apart(b)))

LEMMA SameRound ==
  ASSUME setup' = setup
  PROVE  \A b : Nx(b)' = Nx(b)
BY DEF Nx

\* One rank at most is busy, and if it is the dealer of the round everybody is in it.
LEMMA Alone ==
  ASSUME EInv, Roles, NEW b \in Ranks, Apart(b)
  PROVE  /\ Nx(b) # b /\ Nx(b) \in Ranks \cup {setup.mpi_size}
         /\ \A r \in Ranks : Busy(r) => r \in {b, Nx(b)} /\ dealer_node[r] = r
         /\ Busy(b) => \A q \in Ranks : In(b, q)
         /\ \A r, s \in Ranks : Busy(r) /\ Busy(s) => r = s
         /\ \A r \in Ranks : phase[r] = "kill" => r = b /\ dealer_node[b] = b
         /\ \A r \in Ranks : phase[r] = "end" => dealer_node[r] = b /\ ~Busy(b)
<1>1. Nx(b) # b /\ Nx(b) \in Ranks \cup {setup.mpi_size}
  BY Numbers DEF Nx, Ranks, EInv, Shapes
<1>2. \A r \in Ranks : Busy(r) => r \in {b, Nx(b)} /\ dealer_node[r] = r
  BY DEF Roles, Role, Deals, Busy, Apart, Near
<1>3. Busy(b) => \A q \in Ranks : In(b, q)
  BY <1>2 DEF Busy, Apart, Open
<1>4. \A r, s \in Ranks : Busy(r) /\ Busy(s) => r = s
  BY <1>2, <1>3 DEF In
<1>5. \A r \in Ranks : phase[r] = "kill" => r = b /\ dealer_node[b] = b
  BY <1>1 DEF Roles, Role, Deals, Apart, Near
<1>6. \A r \in Ranks : phase[r] = "end" => dealer_node[r] = b /\ ~Busy(b)
  BY <1>3 DEF Apart, Near, In
<1> QED BY <1>1, <1>2, <1>3, <1>4, <1>5, <1>6

LEMMA OutstandingStays ==
  ASSUME setup' = setup, NEW r \in Ranks, Outstanding(r),
         phase'[r] = phase[r] \/ ~Busy(r)', UNCHANGED <<dest_node[r], left[r]>>,
         \A q \in Others(r) : UNCHANGED <<wire[<<r, q>>], wire[<<q, r>>], dealer_node[q]>>,
         \A q \in Others(r), n \in Sizes : echoed'[<<<<r, q>>, n>>] = echoed[<<<<r, q>>, n>>]
  PROVE  Outstanding(r)'
<1>1. Others(r)' = Others(r) /\ Sizes' = Sizes
  BY SameSetup
<1>2. ASSUME Busy(r)', NEW q \in Others(r) PROVE Exchange(r, q)'
  <2>1. phase'[r] = phase[r] /\ Exchange(r, q)
    BY <1>2 DEF Outstanding, Busy
  <2>2. Owed(r, q)' = Owed(r, q)
    BY <2>1 DEF Owed
  <2>3. Heard(r, q)' => Heard(r, q)
    BY <1>1 DEF Heard
  <2> QED BY <2>1, <2>2, <2>3 DEF Exchange
<1> QED BY <1>1, <1>2 DEF Outstanding

LEMMA InitRounds == Init => RInv
<1> SUFFICES ASSUME Init PROVE RInv
  OBVIOUS
<1>1. /\ EInv /\ setup \in Setups
      /\ \A r \in Ranks : dealer_node[r] = 0 /\ phase[r] = "begin"
      /\ \A s \in Ranks : \A q \in Others(s) : wire[<<s, q>>] = <<>>
  BY InitEchoes, RoutePairs DEF Init
<1>2. 0 \in Ranks
  BY <1>1, Numbers DEF Ranks
<1>3. Roles
  BY <1>1, <1>2 DEF Roles, Role, Outstanding, Busy, Deals
<1>4. Apart(0)
  BY <1>1, <1>2 DEF Apart, Near, Open, In, Kills
<1> QED BY <1>1, <1>2, <1>3, <1>4 DEF RInv

LEMMA BeginDealerRounds ==
  ASSUME EInv, Roles, NEW b \in Ranks, Apart(b), NEW r \in Ranks, BeginDealer(r)
  PROVE  Roles' /\ Apart(b)'
<1>1. /\ UNCHANGED <<setup, dealer_node, wire, overtaken>>
      /\ phase[r] = "begin" /\ dealer_node[r] = r
      /\ phase' = [phase EXCEPT ![r] = "send"]
      /\ dest_node' = [dest_node EXCEPT ![r] = NextDest(0, r)]
      /\ left' = [left EXCEPT ![r] = setup.burst_size]
      /\ echoed' = [x \in DOMAIN echoed |-> IF x[1][1] = r THEN 0 ELSE echoed[x]]
  BY DEF BeginDealer
<1>2. /\ Shapes /\ phase'[r] = "send" /\ left'[r] = setup.burst_size
      /\ \A t \in Ranks \ {r} : UNCHANGED <<phase[t], dest_node[t], left[t]>>
  BY <1>1 DEF EInv, Shapes
<1>3. \A t \in Ranks : \A s \in Others(t), n \in Sizes :
        echoed'[<<<<t, s>>, n>>] = IF t = r THEN 0 ELSE echoed[<<<<t, s>>, n>>]
  BY <1>1, <1>2, RoutePairs DEF Shapes
<1>4. \A q \in Others(r) : wire[<<r, q>>] = <<>> /\ wire[<<q, r>>] = <<>>
  <2> TAKE q \in Others(r)
  <2>1. q \in Ranks /\ q # r /\ r \in Others(q)
    BY DEF Others
  <2>2. r \in {b, Nx(b)} /\ b # Nx(b)
    BY <1>1, Alone DEF Apart, Near
  <2>3. ~Busy(r) /\ ~Busy(q)
    <3>1. r = b => dealer_node[q] = b
      BY <1>1, <2>1 DEF Apart, Open, In
    <3>2. Busy(q) => q \in {b, Nx(b)} /\ dealer_node[q] = q
      BY <2>1, Alone
    <3>3. ~Busy(b) \/ dealer_node[r] = b
      BY Alone DEF In
    <3> QED BY <1>1, <2>1, <2>2, <3>1, <3>2, <3>3 DEF Busy
  <2>4. r = b => ~Told(b, q)
    BY <1>1 DEF Told
  <2> QED BY <1>1, <2>1, <2>2, <2>3, <2>4 DEF Apart, Kills, In
<1>5. Outstanding(r)'
  <2> SUFFICES ASSUME NEW q \in Others(r) PROVE Exchange(r, q)'
    BY <1>1, SameSetup DEF Outstanding
  <2>1. wire'[<<r, q>>] = <<>> /\ wire'[<<q, r>>] = <<>>
    BY <1>1, <1>4
  <2>2. Owed(r, q)' = 0
    BY <1>1, <1>2, Numbers DEF Owed, Shapes
  <2>3. ~Heard(r, q)'
    <3>1. \A n \in Sizes : echoed'[<<<<r, q>>, n>>] = 0 /\ ~(0 > 0)
      BY <1>3
    <3> QED BY <1>1, <2>1, <3>1, SameSetup DEF Heard
  <2> QED BY <2>1, <2>2, <2>3 DEF Exchange
<1>6. \A t \in Ranks \ {r} : Outstanding(t)'
  BY <1>1, <1>2, <1>3, OutstandingStays DEF Roles
<1>7. \A t \in Ranks : Role(t)'
  BY <1>1, <1>2, SameSetup DEF Roles, Role, Deals
<1>8. Near(b)' /\ Open(b)'
  BY <1>1, <1>2, SameSetup, SameRound DEF Apart, Near, Open, In
<1>9. Kills(b)'
  BY <1>1, <1>2, SameSetup DEF Apart, Kills, Busy, In, Told
<1> QED BY <1>1, <1>5, <1>6, <1>7, <1>8, <1>9, SameSetup DEF Roles, Apart

LEMMA BeginSlaveRounds ==
  ASSUME EInv, Roles, NEW b \in Ranks, Apart(b), NEW r \in Ranks, BeginSlave(r)
  PROVE  Roles' /\ Apart(b)'
<1>1. /\ UNCHANGED <<setup, dealer_node, dest_node, wire, echoed, overtaken>>
      /\ phase[r] = "begin" /\ dealer_node[r] \in Others(r)
      /\ phase' = [phase EXCEPT ![r] = "burst"]
      /\ left' = [left EXCEPT ![r] = setup.burst_size]
  BY DEF BeginSlave, BurstReceives
<1>2. /\ Shapes /\ phase'[r] = "burst"
      /\ \A t \in Ranks \ {r} : UNCHANGED <<phase[t], left[t]>>
  BY <1>1 DEF EInv, Shapes
<1>3. \A t \in Ranks : Outstanding(t)'
  BY <1>1, <1>2, OutstandingStays DEF Roles, Outstanding, Busy
<1>4. \A t \in Ranks : Role(t)'
  BY <1>1, <1>2, SameSetup DEF Roles, Role, Deals
<1>5. dealer_node[r] # r
  BY <1>1 DEF Others
<1>6. Near(b)' /\ Open(b)'
  BY <1>1, <1>2, <1>5, SameSetup, SameRound DEF Apart, Near, Open, In
<1>7. Kills(b)'
  BY <1>1, <1>2, <1>5, SameSetup DEF Apart, Kills, Busy, In, Told
<1> QED BY <1>1, <1>3, <1>4, <1>6, <1>7, SameSetup DEF Roles, Apart

LEMMA SendBurstRounds ==
  ASSUME EInv, Roles, NEW b \in Ranks, Apart(b), NEW r \in Ranks, SendBurst(r)
  PROVE  Roles' /\ Apart(b)'
<1> DEFINE D == dest_node[r]
           Z == data_size[r]
           W == wire[<<r, D>>]
<1>1. /\ UNCHANGED <<setup, dealer_node, dest_node, echoed, overtaken>>
      /\ phase[r] = "send" /\ wire' = [wire EXCEPT ![<<r, D>>] = Append(W, Z)]
      /\ left' = [left EXCEPT ![r] = IF left[r] = 1 THEN setup.burst_size ELSE left[r] - 1]
      /\ phase' = [phase EXCEPT ![r] = IF left[r] = 1 THEN "wait" ELSE phase[r]]
  BY DEF SendBurst, Sent
<1>2. /\ Shapes /\ Z \in Sizes /\ D \in Others(r) /\ left[r] \in 1..setup.burst_size
  BY <1>1 DEF EInv, Dealing, Deals
<1>3. /\ phase'[r] = IF left[r] = 1 THEN "wait" ELSE "send"
      /\ left'[r] = IF left[r] = 1 THEN setup.burst_size ELSE left[r] - 1
      /\ \A t \in Ranks \ {r} : UNCHANGED <<phase[t], left[t]>>
  BY <1>1, <1>2 DEF Shapes
<1>4. /\ <<r, D>> \in Routes /\ W \in Seq(Nat) /\ wire'[<<r, D>>] = Append(W, Z)
      /\ \A t, q : <<t, q>> \in Routes /\ ~(t = r /\ q = D) => wire'[<<t, q>>] = wire[<<t, q>>]
  BY <1>1, <1>2, RoutePairs DEF Shapes
<1>5. Busy(r) /\ \A t \in Ranks \ {r} : ~Busy(t) /\ ~Busy(t)'
  BY <1>1, <1>3, Alone DEF Busy
<1>6. Outstanding(r)'
  <2> SUFFICES ASSUME NEW q \in Others(r) PROVE Exchange(r, q)'
    BY <1>1, SameSetup DEF Outstanding
  <2>1. Exchange(r, q) /\ <<r, q>> \in Routes /\ <<q, r>> \in Routes /\ q # r
    BY <1>5, RoutePairs DEF Roles, Outstanding
  <2>2. wire'[<<q, r>>] = wire[<<q, r>>] /\ wire[<<q, r>>] \in Seq(Nat)
    BY <1>2, <1>4, <2>1 DEF Shapes
  <2>3. Heard(r, q)' => Heard(r, q)
    BY <1>1, <2>2, SameSetup DEF Heard
  <2>4. CASE q # D
    <3>1. Owed(r, q)' = Owed(r, q) /\ wire'[<<r, q>>] = wire[<<r, q>>]
      BY <1>1, <1>4, <2>1, <2>4 DEF Owed
    <3> QED BY <1>1, <2>1, <2>2, <2>3, <3>1 DEF Exchange
  <2>5. CASE q = D
    <3>1. Owed(r, q)' = Owed(r, q) + 1
      <4>1. Owed(r, q) = setup.burst_size - left[r]
        BY <1>1, <2>5 DEF Owed
      <4>2. Owed(r, q)' = IF left[r] = 1 THEN setup.burst_size ELSE setup.burst_size - (left[r] - 1)
        BY <1>1, <1>3, <2>5 DEF Owed
      <4>3. setup.burst_size \in Nat /\ left[r] \in Nat
        BY <1>2, Numbers DEF Shapes
      <4> QED BY <4>1, <4>2, <4>3
    <3>2. Len(Append(W, Z)) = Len(W) + 1
      BY <1>4
    <3>3. \A i \in 1..Len(Append(W, Z)) : Append(W, Z)[i] # Kill
      <4>1. Z # Kill
        BY <1>2, SizeSteps DEF Kill, Shapes
      <4>2. \A i \in 1..Len(W) : W[i] # Kill
        BY <2>1, <2>5 DEF Exchange
      <4>3. \A i \in 1..Len(W) + 1 : Append(W, Z)[i] = IF i = Len(W) + 1 THEN Z ELSE W[i]
        BY <1>4, <1>2, SizeSteps DEF Shapes
      <4>4. \A i \in 1..Len(W) + 1 : i = Len(W) + 1 \/ i \in 1..Len(W)
        BY <1>4
      <4> HIDE DEF W, Z
      <4> QED BY <3>2, <4>1, <4>2, <4>3, <4>4
    <3>4. Len(wire'[<<r, q>>]) + Len(wire'[<<q, r>>]) = Owed(r, q)'
      <4>1. Len(W) + Len(wire[<<q, r>>]) = Owed(r, q)
        BY <2>1, <2>5 DEF Exchange
      <4>2. Len(W) \in Nat /\ Len(wire[<<q, r>>]) \in Nat
        BY <1>4, <2>2
      <4>3. Len(wire'[<<r, q>>]) = Len(W) + 1 /\ wire'[<<q, r>>] = wire[<<q, r>>]
        BY <1>4, <2>2, <2>5, <3>2
      <4> HIDE DEF W
      <4>4. (Len(W) + 1) + Len(wire[<<q, r>>]) = (Len(W) + Len(wire[<<q, r>>])) + 1
        <5>1. \A m, n \in Nat : (m + 1) + n = (m + n) + 1
          OBVIOUS
        <5> QED BY <4>2, <5>1
      <4> QED BY <3>1, <4>1, <4>3, <4>4
    <3> QED BY <1>1, <1>4, <2>1, <2>3, <2>5, <3>3, <3>4 DEF Exchange
  <2> QED BY <2>4, <2>5
<1>7. \A t \in Ranks \ {r} : Outstanding(t)'
  BY <1>5 DEF Outstanding
<1>8. \A t \in Ranks : Role(t)'
  BY <1>1, <1>3, SameSetup DEF Roles, Role, Deals
<1>9. Near(b)' /\ Open(b)'
  BY <1>1, <1>3, SameSetup, SameRound DEF Apart, Near, Open, In
<1>10. Kills(b)'
  <2> SUFFICES ASSUME NEW s \in Ranks, NEW q \in Others(s), wire'[<<s, q>>] # <<>>,
                      ~Busy(s)', ~Busy(q)'
               PROVE  s = b /\ wire'[<<s, q>>] = <<Kill>> /\ In(b, q)' /\ Told(b, q)'
    BY <1>1, SameSetup DEF Kills
  <2>1. Busy(r)'
    BY <1>3 DEF Busy
  <2>2. s # r /\ q # r /\ q \in Ranks
    BY <2>1 DEF Others
  <2>3. wire'[<<s, q>>] = wire[<<s, q>>]
    BY <1>4, <2>2, RoutePairs
  <2>4. s = b /\ wire[<<s, q>>] = <<Kill>> /\ In(b, q) /\ Told(b, q)
    BY <1>5, <2>2, <2>3 DEF Apart, Kills
  <2> QED BY <1>1, <1>3, <2>2, <2>3, <2>4 DEF In, Told
<1> QED BY <1>1, <1>6, <1>7, <1>8, <1>9, <1>10, SameSetup DEF Roles, Apart

\* A dealer goes on to the kill messages when everybody has been heard: everybody is
\* then in its round, and nothing is under way to or from it.
LEMMA WaitBurstRounds ==
  ASSUME EInv, Roles, NEW b \in Ranks, Apart(b), NEW r \in Ranks, WaitBurst(r)
  PROVE  Roles' /\ Apart(b)'
<1> DEFINE D == dest_node[r]
           L == left[r]
           W == wire[<<D, r>>]
<1>1. /\ UNCHANGED <<setup, dealer_node, overtaken>> /\ phase[r] = "wait"
      /\ W # <<>> /\ wire' = [wire EXCEPT ![<<D, r>>] = Tail(W)]
  BY DEF WaitBurst, Waiting, Taken
<1>2. /\ Shapes /\ D \in Others(r) /\ L \in 1..setup.burst_size
      /\ EInv' /\ \A t \in Ranks : \A s \in Others(t), n \in Sizes :
           t # r \/ s # D => echoed'[<<<<t, s>>, n>>] = echoed[<<<<t, s>>, n>>]
  BY <1>1, WaitBurstEchoes DEF EInv, Dealing, Deals
<1>3. \A t \in Ranks \ {r} : UNCHANGED <<phase[t], dest_node[t], left[t]>>
  BY <1>2 DEF WaitBurst, NextBurst, Shapes
<1>4. L > 1 => left'[r] = L - 1 /\ phase'[r] = "wait" /\ dest_node'[r] = D
  BY <1>1, <1>2 DEF WaitBurst, Shapes
<1>5. ~(L > 1) => left'[r] = setup.burst_size /\ phase'[r] \in {"send", "kill"}
  BY <1>1, <1>2 DEF WaitBurst, NextBurst, Shapes
<1>6. /\ <<D, r>> \in Routes /\ W \in Seq(Nat) /\ wire'[<<D, r>>] = Tail(W)
      /\ \A t, q : <<t, q>> \in Routes /\ ~(t = D /\ q = r) => wire'[<<t, q>>] = wire[<<t, q>>]
  BY <1>1, <1>2, RoutePairs DEF Shapes
<1>7. Busy(r) /\ \A t \in Ranks \ {r} : ~Busy(t) /\ ~Busy(t)'
  BY <1>1, <1>3, Alone DEF Busy
<1>8. \A q \in Others(r) : Exchange(r, q)
  BY <1>7 DEF Roles, Outstanding
<1>9. \A q \in Others(r) :
        Len(wire'[<<r, q>>]) + Len(wire'[<<q, r>>]) = IF q = D THEN L - 1 ELSE 0
  <2> TAKE q \in Others(r)
  <2>1. q # r /\ <<r, q>> \in Routes /\ <<q, r>> \in Routes /\ wire'[<<r, q>>] = wire[<<r, q>>]
    BY <1>6, RoutePairs
  <2>2. Len(wire[<<r, q>>]) + Len(wire[<<q, r>>]) = IF q = D THEN L ELSE 0
    BY <1>1, <1>8 DEF Exchange, Owed
  <2>3. CASE q = D
    <3>1. Len(Tail(W)) = Len(W) - 1
      BY <1>1, <1>6
    <3>2. Len(wire[<<r, q>>]) \in Nat /\ Len(W) \in Nat /\ L \in Nat
      BY <1>2, <1>6, <2>1 DEF Shapes
    <3>3. \A m, n, k \in Nat : m + n = k => m + (n - 1) = k - 1
      OBVIOUS
    <3> HIDE DEF L
    <3>4. Len(wire[<<r, q>>]) + (Len(W) - 1) = L - 1
      <4>1. Len(wire[<<r, q>>]) + Len(W) = L
        BY <2>2, <2>3
      <4> HIDE DEF W
      <4> QED BY <3>2, <3>3, <4>1
    <3> QED BY <1>6, <2>1, <2>3, <3>1, <3>4
  <2>4. CASE q # D
    BY <1>6, <2>1, <2>2, <2>4
  <2> QED BY <2>3, <2>4
<1>10. \A q \in Others(r) : Heard(r, q)' => dealer_node[q] = r
  <2> TAKE q \in Others(r)
  <2>1. CASE q = D
    BY <1>1, <1>8, <2>1 DEF Exchange, Heard
  <2>2. CASE q # D
    <3>1. wire'[<<q, r>>] = wire[<<q, r>>]
      BY <1>6, <2>2, RoutePairs
    <3>2. \A n \in Sizes : echoed'[<<<<r, q>>, n>>] = echoed[<<<<r, q>>, n>>]
      BY <1>2, <2>2
    <3> QED BY <1>1, <1>8, <3>1, <3>2, SameSetup DEF Exchange, Heard
  <2> QED BY <2>1, <2>2
<1>11. Outstanding(r)'
  <2> SUFFICES ASSUME Busy(r)', NEW q \in Others(r) PROVE Exchange(r, q)'
    BY <1>1, SameSetup DEF Outstanding
  <2>1. Owed(r, q)' = IF q = D THEN L - 1 ELSE 0
    <3>1. CASE L > 1
      BY <1>4, <3>1 DEF Owed
    <3>2. CASE ~(L > 1)
      <4>1. L = 1 /\ L - 1 = 0
        BY <1>2, <3>2, Numbers DEF Shapes
      <4>2. phase'[r] = "send" /\ setup' = setup /\ left'[r] = setup.burst_size
        BY <1>1, <1>5, <3>2 DEF Busy
      <4>3. setup.burst_size - setup.burst_size = 0
        BY <1>2, Numbers DEF Shapes
      <4>4. Owed(r, q)' = 0
        BY <4>2, <4>3 DEF Owed
      <4> QED BY <4>1, <4>4
    <3> QED BY <3>1, <3>2
  <2>2. wire'[<<r, q>>] = wire[<<r, q>>]
    BY <1>6, RoutePairs
  <2> QED BY <1>1, <1>8, <1>9, <1>10, <2>1, <2>2 DEF Exchange
<1>12. \A t \in Ranks \ {r} : Outstanding(t)'
  BY <1>7 DEF Outstanding
<1>13. phase'[r] \in {"send", "wait", "kill"}
  BY <1>4, <1>5
<1>14. \A t \in Ranks : Role(t)'
  BY <1>1, <1>3, <1>13, SameSetup DEF Roles, Role, Deals
<1>15. phase'[r] = "kill" => r = b /\ \A q \in Others(r) : wire'[<<r, q>>] = <<>> /\ wire'[<<q, r>>] = <<>>
  <2> SUFFICES ASSUME phase'[r] = "kill"
               PROVE  r = b /\ \A q \in Others(r) : wire'[<<r, q>>] = <<>> /\ wire'[<<q, r>>] = <<>>
    OBVIOUS
  <2>1. L - 1 = 0
    BY <1>2, <1>4, Numbers DEF Shapes
  <2>2. \A q \in Others(r) : dealer_node[q] = r
    <3> TAKE q \in Others(r)
    <3>1. \A s \in Others(r), n \in Sizes : echoed'[<<<<r, s>>, n>>] = setup.burst_size
      BY <1>1, <1>2, SameSetup DEF EInv, Dealing, Deals, Echoes
    <3>2. setup.smin \in Sizes /\ setup.burst_size > 0
      BY <1>2, Numbers, SizesDoubled DEF Shapes, Doubled
    <3> QED BY <1>1, <1>10, <3>1, <3>2, SameSetup DEF Heard
  <2>3. dealer_node[r] = r
    BY <1>1 DEF Roles, Role, Deals
  <2>4. r = b
    BY <2>2, <2>3 DEF Apart, Near, Others
  <2>5. \A q \in Others(r) : wire'[<<r, q>>] = <<>> /\ wire'[<<q, r>>] = <<>>
    <3> TAKE q \in Others(r)
    <3>1. wire'[<<r, q>>] \in Seq(Nat) /\ wire'[<<q, r>>] \in Seq(Nat)
      BY <1>1, <1>2, RoutePairs, SameSetup DEF EInv, Shapes
    <3>2. Len(wire'[<<r, q>>]) + Len(wire'[<<q, r>>]) = 0
      BY <1>9, <2>1
    <3>3. \A u, v \in Seq(Nat) : Len(u) + Len(v) = 0 => u = <<>> /\ v = <<>>
      OBVIOUS
    <3> QED BY <3>1, <3>2, <3>3
  <2> QED BY <2>4, <2>5
<1>16. Near(b)' /\ Open(b)'
  <2>1. r = b => \A q \in Ranks : In(b, q)
    BY <1>7, Alone
  <2>2. phase'[b] \in {"begin", "send", "wait"} => phase[b] \in {"begin", "send", "wait"}
    BY <1>1, <1>3
  <2>3. phase'[b] = "kill" => r = b \/ (phase[b] = "kill" /\ dest_node'[b] = dest_node[b])
    BY <1>3
  <2>4. \A q \in Ranks : phase'[q] = "end" <=> phase[q] = "end"
    BY <1>1, <1>3, <1>13
  <2>5. Open(b)'
    <3>1. \A q \in Ranks : In(b, q) => In(b, q)'
      BY <1>1, <2>4 DEF In
    <3>2. \A q \in Others(b) : q \in Ranks
      BY DEF Others
    <3>3. r = b => Open(b)'
      BY <1>1, <2>1, <3>1, <3>2, SameSetup DEF Open
    <3>4. r # b => Open(b)'
      BY <1>1, <2>2, <2>3, <3>1, <3>2, SameSetup DEF Apart, Open
    <3> QED BY <3>3, <3>4
  <2>6. Near(b)'
    <3>1. r = b => dealer_node[r] # Nx(b)
      BY <2>1, Alone DEF In
    <3>2. \A q \in Ranks : phase'[q] = "kill" => phase[q] = "kill" \/ (q = r /\ r = b)
      BY <1>3, <1>15
    <3> QED BY <1>1, <2>4, <3>1, <3>2, SameSetup, SameRound DEF Apart, Near
  <2> QED BY <2>5, <2>6
<1>17. Kills(b)'
  <2> SUFFICES ASSUME NEW s \in Ranks, NEW q \in Others(s), wire'[<<s, q>>] # <<>>,
                      ~Busy(s)', ~Busy(q)'
               PROVE  s = b /\ wire'[<<s, q>>] = <<Kill>> /\ In(b, q)' /\ Told(b, q)'
    BY <1>1, SameSetup DEF Kills
  <2>1. q \in Ranks /\ q # s
    BY DEF Others
  <2>2. s # r /\ q # r
    <3>1. s = r \/ q = r => phase'[r] = "kill"
      BY <1>13 DEF Busy
    <3> QED BY <1>15, <2>1, <3>1 DEF Others
  <2>3. wire'[<<s, q>>] = wire[<<s, q>>]
    BY <1>6, <2>2, RoutePairs
  <2>4. s = b /\ wire[<<s, q>>] = <<Kill>> /\ In(b, q) /\ Told(b, q)
    BY <1>7, <2>1, <2>2, <2>3 DEF Apart, Kills
  <2> QED BY <1>1, <1>3, <2>1, <2>2, <2>3, <2>4 DEF In, Told
<1> QED BY <1>1, <1>11, <1>12, <1>14, <1>16, <1>17, SameSetup DEF Roles, Apart

LEMMA SendKillRounds ==
  ASSUME EInv, Roles, NEW b \in Ranks, Apart(b), NEW r \in Ranks, SendKill(r)
  PROVE  Roles' /\ Apart(b)'
<1> DEFINE D == dest_node[r]
<1>1. /\ UNCHANGED <<setup, dealer_node, left, echoed, overtaken>> /\ phase[r] = "kill"
      /\ wire' = [wire EXCEPT ![<<r, D>>] = Append(wire[<<r, D>>], Kill)]
  BY DEF SendKill, Sent
<1>2. /\ Shapes /\ D \in Others(r)
      /\ LastDest(r) => \A s \in Others(r) : s <= D
      /\ ~LastDest(r) => D < dest_node'[r]
      /\ \A s \in Others(r) : s \in Nat
  BY SendKillEchoes, FirstDest DEF EInv, Shapes
<1>3. /\ LastDest(r) => phase'[r] = "end" /\ dest_node'[r] = D
      /\ ~LastDest(r) => phase'[r] = "kill" /\ dest_node'[r] \in Others(r)
      /\ \A t \in Ranks \ {r} : UNCHANGED <<phase[t], dest_node[t]>>
  BY <1>1, <1>2, SendKillEchoes DEF SendKill, Shapes
<1>4. r = b /\ dealer_node[b] = b /\ b # Nx(b)
  BY <1>1, Alone
<1>5. /\ \A q \in Others(b) : q >= D => In(b, q)
      /\ In(b, D) /\ D \in Ranks /\ D # b
  BY <1>1, <1>2, <1>4 DEF Apart, Open, Others
<1>6. ~Busy(r) /\ ~Busy(D) /\ ~Busy(r)'
  BY <1>1, <1>3, <1>4, <1>5, Alone DEF Busy, In
<1>7. wire[<<r, D>>] = <<>>
  <2>1. ~Told(b, D)
    <3>1. ~(D < D)
      BY <1>2
    <3> QED BY <1>1, <1>4, <3>1 DEF Told
  <2> QED BY <1>2, <1>4, <1>5, <1>6, <2>1 DEF Apart, Kills
<1>8. /\ wire'[<<r, D>>] = <<Kill>>
      /\ \A t, q : <<t, q>> \in Routes /\ ~(t = r /\ q = D) => wire'[<<t, q>>] = wire[<<t, q>>]
  <2>1. <<r, D>> \in Routes
    BY <1>2, RoutePairs
  <2>2. Append(<<>>, Kill) = <<Kill>>
    BY DEF Kill
  <2> QED BY <1>1, <1>2, <1>7, <2>1, <2>2 DEF Shapes
<1>9. \A t \in Ranks : Outstanding(t)'
  <2> TAKE t \in Ranks
  <2>1. CASE t \in {r, D}
    BY <1>3, <1>5, <1>6, <2>1 DEF Outstanding, Busy
  <2>2. CASE t \notin {r, D}
    <3>1. \A q \in Others(t) : UNCHANGED <<wire[<<t, q>>], wire[<<q, t>>]>>
      BY <1>8, <2>2, RoutePairs
    <3> QED BY <1>1, <1>3, <2>2, <3>1, OutstandingStays DEF Roles
  <2> QED BY <2>1, <2>2
<1>10. \A t \in Ranks : Role(t)'
  BY <1>1, <1>3, SameSetup DEF Roles, Role, Deals
<1>11. Near(b)'
  BY <1>1, <1>3, <1>4, SameSetup, SameRound DEF Apart, Near
<1>12. Open(b)'
  <2>1. \A q \in Others(b) : dest_node'[b] \in Others(b) /\ D < dest_node'[b] /\ q >= dest_node'[b] => q >= D
    BY <1>2, <1>4
  <2>2. \A q \in Others(b) : q \in Ranks /\ q # r
    BY <1>4 DEF Others
  <2> QED BY <1>1, <1>2, <1>3, <1>4, <1>5, <2>1, <2>2, SameSetup DEF Open, In
<1>13. \A q \in Others(b) : q = D \/ Told(b, q) => Told(b, q)'
  <2>1. \A q \in Others(b) : q < D /\ D < dest_node'[b] /\ dest_node'[b] \in Others(b) => q < dest_node'[b]
    BY <1>2, <1>4
  <2> QED BY <1>1, <1>2, <1>3, <1>4, <2>1 DEF Told
<1>14. Kills(b)'
  <2> SUFFICES ASSUME NEW s \in Ranks, NEW q \in Others(s), wire'[<<s, q>>] # <<>>,
                      ~Busy(s)', ~Busy(q)'
               PROVE  s = b /\ wire'[<<s, q>>] = <<Kill>> /\ In(b, q)' /\ Told(b, q)'
    BY <1>1, SameSetup DEF Kills
  <2>1. q \in Ranks /\ q # s
    BY DEF Others
  <2>2. CASE s = r /\ q = D
    BY <1>1, <1>3, <1>4, <1>5, <1>8, <1>13, <2>2 DEF In
  <2>3. CASE ~(s = r /\ q = D)
    <3>1. wire'[<<s, q>>] = wire[<<s, q>>]
      BY <1>8, <2>3, RoutePairs
    <3>2. ~Busy(s) /\ ~Busy(q)
      BY <1>3, <1>6, <2>1 DEF Busy
    <3>3. s = b /\ wire[<<s, q>>] = <<Kill>> /\ In(b, q) /\ Told(b, q)
      BY <2>1, <3>1, <3>2 DEF Apart, Kills
    <3> QED BY <1>1, <1>3, <1>4, <1>13, <2>1, <3>1, <3>3 DEF In
  <2> QED BY <2>2, <2>3
<1> QED BY <1>1, <1>9, <1>10, <1>11, <1>12, <1>14, SameSetup DEF Roles, Apart

\* A slave that receives from the dealer of its round: an echo to a busy dealer, or
\* the kill message of b.
LEMMA SlaveRounds ==
  ASSUME EInv, Roles, NEW b \in Ranks, Apart(b), NEW r \in Ranks, NEW s \in Others(r),
         SlaveBurst(r, s) \/ SlaveRest(r, s), s = dealer_node[r]
  PROVE  Roles' /\ Apart(b)'
<1> DEFINE W == wire[<<s, r>>]
           V == wire[<<r, s>>]
<1>1. /\ UNCHANGED <<setup, dealer_node, dest_node, echoed>> /\ phase[r] \in {"burst", "rest"}
      /\ W # <<>> /\ Echo(r, s)
      /\ \A t \in Ranks \ {r} : UNCHANGED <<phase[t], left[t]>>
  BY DEF SlaveBurst, SlaveRest, Waiting, EInv, Shapes
<1>2. /\ phase'[r] \in {"burst", "rest", "end"}
      /\ phase'[r] = "end" => Head(W) = Kill
  BY DEF SlaveBurst, SlaveRest, EndsSlave, EInv, Shapes
<1>3. /\ Shapes /\ s \in Ranks /\ s # r /\ r \in Others(s)
      /\ <<s, r>> \in Routes /\ <<r, s>> \in Routes /\ <<s, r>> # <<r, s>>
      /\ W \in Seq(Nat) /\ V \in Seq(Nat) /\ Head(W) \in Nat
  <2>1. s \in Ranks /\ s # r /\ <<s, r>> \in Routes /\ <<r, s>> \in Routes
    BY RoutePairs
  <2>2. W \in Seq(Nat) /\ V \in Seq(Nat)
    BY <2>1 DEF EInv, Shapes
  <2> QED BY <1>1, <2>1, <2>2 DEF EInv, Others
<1>4. /\ wire'[<<s, r>>] = Tail(W)
      /\ wire'[<<r, s>>] = IF Head(W) = Kill THEN V ELSE Append(V, Head(W))
      /\ \A t, q : <<t, q>> \in Routes /\ ~(t = s /\ q = r) /\ ~(t = r /\ q = s)
           => wire'[<<t, q>>] = wire[<<t, q>>]
  <2>1. Taken(s, r) = [wire EXCEPT ![<<s, r>>] = Tail(W)]
    BY DEF Taken
  <2>2. /\ Taken(s, r) \in [Routes -> Seq(Nat)] /\ Taken(s, r)[<<s, r>>] = Tail(W)
        /\ \A p \in Routes : p # <<s, r>> => Taken(s, r)[p] = wire[p]
    <3>1. Tail(W) \in Seq(Nat)
      BY <1>1, <1>3
    <3>2. wire \in [Routes -> Seq(Nat)]
      BY <1>3 DEF Shapes
    <3> HIDE DEF W
    <3> QED BY <1>3, <2>1, <3>1, <3>2
  <2>3. CASE Head(W) = Kill
    BY <1>1, <1>3, <2>2, <2>3 DEF Echo
  <2>4. CASE Head(W) # Kill
    <3>1. wire' = [Taken(s, r) EXCEPT ![<<r, s>>] = Append(V, Head(W))]
      BY <1>1, <1>3, <2>2, <2>4 DEF Echo
    <3> QED BY <1>3, <2>2, <2>4, <3>1
  <2> QED BY <2>3, <2>4
<1>5. ~Busy(r) /\ ~Busy(r)' /\ \A t \in Ranks \ {r} : Busy(t)' <=> Busy(t)
  BY <1>1, <1>2 DEF Busy
<1>6. \A t \in Ranks : Role(t)'
  <2>1. dealer_node[r] \in Others(r) /\ dealer_node[r] \in Ranks
    BY <1>3
  <2> QED BY <1>1, <1>2, <2>1, SameSetup DEF Roles, Role, Deals
<1>7. \A t \in Ranks \ {r, s} : Outstanding(t)'
  <2> TAKE t \in Ranks \ {r, s}
  <2>1. \A q \in Others(t) : UNCHANGED <<wire[<<t, q>>], wire[<<q, t>>]>>
    BY <1>4, RoutePairs
  <2> QED BY <1>1, <2>1, OutstandingStays DEF Roles
<1>8. Outstanding(r)'
  BY <1>5 DEF Outstanding
<1>9. CASE Busy(s)
  <2>1. \A q \in Others(s) : Exchange(s, q)
    BY <1>3, <1>9 DEF Roles, Outstanding
  <2>2. Head(W) # Kill /\ phase'[r] # "end"
    <3>1. \A i \in 1..Len(W) : W[i] # Kill
      BY <1>3, <2>1 DEF Exchange
    <3>2. Head(W) = W[1] /\ 1 \in 1..Len(W)
      BY <1>1, <1>3
    <3> QED BY <1>2, <3>1, <3>2
  <2>3. Outstanding(s)'
    <3> SUFFICES ASSUME NEW q \in Others(s) PROVE Exchange(s, q)'
      BY <1>1, SameSetup DEF Outstanding
    <3>1. Owed(s, q)' = Owed(s, q)
      BY <1>1, <1>3 DEF Owed
    <3>2. CASE q = r
      <4>1. wire'[<<s, q>>] = Tail(W) /\ wire'[<<q, s>>] = Append(V, Head(W))
        BY <1>4, <2>2, <3>2
      <4>2. dealer_node'[q] = s
        BY <1>1, <3>2
      <4>3. \A i \in 1..Len(Tail(W)) : Tail(W)[i] # Kill
        <5>1. \A i \in 1..Len(Tail(W)) : i + 1 \in 1..Len(W) /\ Tail(W)[i] = W[i + 1]
          BY <1>1, <1>3
        <5>2. \A i \in 1..Len(W) : W[i] # Kill
          BY <2>1, <1>3 DEF Exchange
        <5> HIDE DEF W
        <5> QED BY <5>1, <5>2
      <4>4. Len(Tail(W)) + Len(Append(V, Head(W))) = Len(W) + Len(V)
        <5>1. Len(Tail(W)) = Len(W) - 1 /\ Len(Append(V, Head(W))) = Len(V) + 1
          BY <1>1, <1>3
        <5>2. \A m, n \in Nat : (m - 1) + (n + 1) = m + n
          OBVIOUS
        <5>3. Len(W) \in Nat /\ Len(V) \in Nat
          BY <1>3
        <5> QED BY <5>1, <5>2, <5>3
      <4>5. Len(W) + Len(V) = Owed(s, q)
        BY <2>1, <3>2 DEF Exchange
      <4> QED BY <3>1, <4>1, <4>2, <4>3, <4>4, <4>5 DEF Exchange
    <3>3. CASE q # r
      <4>1. wire'[<<s, q>>] = wire[<<s, q>>] /\ wire'[<<q, s>>] = wire[<<q, s>>]
        BY <1>3, <1>4, <3>3, RoutePairs
      <4>2. Heard(s, q)' => Heard(s, q)
        BY <1>1, <4>1, SameSetup DEF Heard
      <4>3. dealer_node'[q] = dealer_node[q]
        BY <1>1
      <4>4. Exchange(s, q)
        BY <2>1
      <4> HIDE DEF W, V
      <4> QED BY <3>1, <4>1, <4>2, <4>3, <4>4 DEF Exchange
    <3> QED BY <3>2, <3>3
  <2>4. \A q \in Ranks : phase'[q] = phase[q] \/ (q = r /\ phase'[q] \in {"burst", "rest"})
    BY <1>1, <1>2, <2>2
  <2>5. \A q \in Ranks : In(b, q) => In(b, q)'
    BY <1>1, <2>4 DEF In
  <2>6. Near(b)'
    BY <1>1, <2>4, SameSetup, SameRound DEF Apart, Near
  <2>7. \A q \in Others(b) : q \in Ranks
    BY DEF Others
  <2>8. Open(b)'
    BY <1>1, <2>4, <2>5, <2>7, SameSetup DEF Apart, Open
  <2>9. Kills(b)'
    <3> SUFFICES ASSUME NEW t \in Ranks, NEW q \in Others(t), wire'[<<t, q>>] # <<>>,
                        ~Busy(t)', ~Busy(q)'
                 PROVE  t = b /\ wire'[<<t, q>>] = <<Kill>> /\ In(b, q)' /\ Told(b, q)'
      BY <1>1, SameSetup DEF Kills
    <3>1. q \in Ranks /\ q # t /\ ~Busy(t) /\ ~Busy(q)
      BY <1>5 DEF Others
    <3>2. wire'[<<t, q>>] = wire[<<t, q>>]
      BY <1>4, <1>9, <3>1, RoutePairs
    <3>3. t = b /\ wire[<<t, q>>] = <<Kill>> /\ In(b, q) /\ Told(b, q)
      BY <3>1, <3>2 DEF Apart, Kills
    <3>4. b = r => dealer_node[b] # b
      BY <1>3
    <3> QED BY <1>1, <2>4, <2>5, <3>1, <3>2, <3>3, <3>4 DEF Told
  <2> QED BY <1>1, <1>6, <1>7, <1>8, <2>3, <2>6, <2>8, <2>9, SameSetup DEF Roles, Apart
<1>10. CASE ~Busy(s)
  <2>1. s = b /\ W = <<Kill>> /\ In(b, r) /\ Told(b, r)
    BY <1>1, <1>3, <1>5, <1>10 DEF Apart, Kills
  <2>2. wire'[<<s, r>>] = <<>> /\ wire'[<<r, s>>] = V
    <3>1. Head(W) = Kill /\ Tail(W) = <<>>
      BY <2>1 DEF Kill
    <3> QED BY <1>4, <3>1
  <2>3. Outstanding(s)'
    BY <1>3, <1>5, <1>10 DEF Outstanding
  <2>4. Near(b)'
    <3>1. dealer_node[r] = b /\ b # Nx(b)
      BY <2>1, Alone
    <3> QED BY <1>1, <3>1, SameSetup, SameRound DEF Apart, Near
  <2>5. Open(b)'
    <3>1. b # r /\ phase'[b] = phase[b]
      BY <1>1, <1>3, <2>1
    <3>2. dealer_node[b] = b => phase[b] \notin {"begin", "send", "wait"}
      BY <2>1 DEF Told
    <3>3. dealer_node[b] = b /\ phase[b] = "kill" => r < dest_node[b]
      BY <2>1 DEF Told
    <3>4. r \in Nat /\ dest_node[b] \in Nat
      BY <1>3, FirstDest DEF Shapes
    <3>5. \A q \in Others(b) : dealer_node[b] = b /\ phase[b] = "kill" /\ q >= dest_node[b] => q # r
      BY <3>3, <3>4
    <3>6. \A q \in Others(b) : q \in Ranks
      BY DEF Others
    <3> QED BY <1>1, <3>1, <3>2, <3>5, <3>6, SameSetup DEF Apart, Open, In
  <2>6. Kills(b)'
    <3> SUFFICES ASSUME NEW t \in Ranks, NEW q \in Others(t), wire'[<<t, q>>] # <<>>,
                        ~Busy(t)', ~Busy(q)'
                 PROVE  t = b /\ wire'[<<t, q>>] = <<Kill>> /\ In(b, q)' /\ Told(b, q)'
      BY <1>1, SameSetup DEF Kills
    <3>1. q \in Ranks /\ q # t /\ ~Busy(t) /\ ~Busy(q)
      BY <1>5 DEF Others
    <3>2. wire'[<<t, q>>] = wire[<<t, q>>] /\ ~(t = s /\ q = r)
      BY <1>4, <2>2, RoutePairs
    <3>3. t = b /\ wire[<<t, q>>] = <<Kill>> /\ In(b, q) /\ Told(b, q)
      BY <3>1, <3>2 DEF Apart, Kills
    <3>4. q # r /\ b # r
      BY <1>3, <2>1, <3>2, <3>3
    <3> QED BY <1>1, <3>1, <3>2, <3>3, <3>4 DEF Told, In
  <2> QED BY <1>1, <1>6, <1>7, <1>8, <2>3, <2>4, <2>5, <2>6, SameSetup DEF Roles, Apart
<1> QED BY <1>9, <1>10

\* The last rank to leave a round takes the base of the others with it, all in the
\* next round by then, or is the last of all.
Moved(b, c) ==
  c # b => c = Nx(b) /\ \A t \in Ranks : dealer_node'[t] = c /\ phase'[t] \notin {"kill", "end"}

LEMMA NextRoundRounds ==
  ASSUME EInv, Roles, NEW b \in Ranks, Apart(b), NEW r \in Ranks, NextRound(r)
  PROVE  AllDone' \/ (Roles' /\ \E c \in Ranks : Apart(c)' /\ Moved(b, c))
<1>1. /\ UNCHANGED <<setup, dest_node, left, wire, echoed, overtaken>> /\ phase[r] = "end"
      /\ \A t \in Ranks \ {r} : UNCHANGED <<phase[t], dealer_node[t]>>
  BY DEF NextRound, EInv, Shapes
<1>2. /\ dealer_node[r] = b /\ Nx(b) # b /\ Nx(b) \in Ranks \cup {setup.mpi_size} /\ ~Busy(b)
      /\ Shapes
  BY <1>1, Alone DEF EInv
<1>3. /\ dealer_node'[r] = Nx(b)
      /\ phase'[r] = IF Nx(b) = setup.mpi_size THEN "done" ELSE "begin"
  <2>1. setup.mpi_size \in Nat /\ setup.mpi_size > 1 /\ b \in Nat
        /\ setup.interval \in BOOLEAN
    BY <1>2, Numbers DEF Shapes, Ranks
  <2>2. /\ dealer_node'[r] = IF b + 1 = setup.mpi_size /\ setup.interval THEN 0 ELSE b + 1
        /\ phase'[r] = IF b + 1 = setup.mpi_size /\ ~setup.interval THEN "done" ELSE "begin"
    BY <1>2 DEF NextRound, Shapes
  <2>3. b + 1 = setup.mpi_size <=> b = setup.mpi_size - 1
    BY <2>1
  <2>4. CASE setup.interval /\ b = setup.mpi_size - 1
    <3>1. Nx(b) = 0 /\ 0 # setup.mpi_size
      BY <2>1, <2>4 DEF Nx
    <3> QED BY <2>2, <2>3, <2>4, <3>1
  <2>5. CASE ~(setup.interval /\ b = setup.mpi_size - 1)
    <3>1. Nx(b) = b + 1
      BY <2>5 DEF Nx
    <3> QED BY <2>2, <2>3, <2>5, <3>1
  <2> QED BY <2>4, <2>5
<1>4. ~Busy(r)' /\ \A t \in Ranks : Busy(t)' <=> Busy(t)
  BY <1>1, <1>3 DEF Busy
<1>5. Roles'
  <2>1. Role(r)'
    BY <1>1, <1>2, <1>3, SameSetup DEF Role, Deals
  <2>2. \A t \in Ranks \ {r} : Role(t)'
    BY <1>1, SameSetup DEF Roles, Role, Deals
  <2>3. ASSUME NEW t \in Ranks, Busy(t)', NEW q \in Others(t) PROVE Exchange(t, q)'
    <3>1. t # r /\ t # b /\ q \in Ranks
      BY <1>2, <1>4, <2>3 DEF Others
    <3>2. Exchange(t, q)
      BY <1>4, <2>3 DEF Roles, Outstanding
    <3>3. dealer_node[q] = t => dealer_node'[q] = t
      BY <1>1, <1>2, <3>1
    <3>4. Owed(t, q)' = Owed(t, q)
      BY <1>1, <3>1 DEF Owed
    <3>5. Heard(t, q)' => Heard(t, q)
      BY <1>1, SameSetup DEF Heard
    <3> QED BY <1>1, <3>2, <3>3, <3>4, <3>5 DEF Exchange
  <2> QED BY <1>1, <2>1, <2>2, <2>3, SameSetup DEF Roles, Outstanding
<1>6. ASSUME NEW s \in Ranks, NEW q \in Others(s), wire'[<<s, q>>] # <<>>, ~Busy(s)', ~Busy(q)'
      PROVE  /\ s = b /\ wire'[<<s, q>>] = <<Kill>> /\ In(b, q) /\ Told(b, q)
             /\ q \in Ranks /\ q # b /\ q # r
  <2>1. q \in Ranks /\ q # s
    BY DEF Others
  <2>2. s = b /\ wire'[<<s, q>>] = <<Kill>> /\ In(b, q) /\ Told(b, q)
    BY <1>1, <1>4, <1>6, <2>1 DEF Apart, Kills
  <2> QED BY <1>1, <2>1, <2>2 DEF In
<1>7. CASE \E t \in Ranks \ {r} : dealer_node[t] = b
  <2>1. Near(b)'
    BY <1>1, <1>2, <1>3, <1>7, SameSetup, SameRound DEF Apart, Near
  <2>2. Open(b)'
    <3>1. CASE b = r
      BY <1>2, <1>3, <3>1 DEF Open
    <3>2. CASE b # r
      <4>1. dealer_node[b] = b => phase[b] \notin {"begin", "send", "wait"}
        BY <1>1 DEF Apart, Open, In
      <4>2. \A q \in Others(b) : q \in Ranks
        BY DEF Others
      <4>3. dealer_node[b] = b /\ phase[b] = "kill" =>
              \A q \in Others(b) : q >= dest_node[b] => In(b, q) /\ q # r
        BY <1>1 DEF Apart, Open, In
      <4>4. \A q \in Ranks : In(b, q) /\ q # r => In(b, q)'
        BY <1>1 DEF In
      <4> QED BY <1>1, <3>2, <4>1, <4>2, <4>3, <4>4, SameSetup DEF Open
    <3> QED BY <3>1, <3>2
  <2>3. Kills(b)'
    <3>1. Told(b, r)' \/ b # r
      BY <1>2, <1>3 DEF Told
    <3>2. \A q \in Ranks : Told(b, q) => Told(b, q)'
      BY <1>1, <1>2, <1>3 DEF Told
    <3>3. \A q \in Ranks : In(b, q) /\ q # r => In(b, q)'
      BY <1>1 DEF In
    <3> QED BY <1>1, <1>6, <3>2, <3>3, SameSetup DEF Kills
  <2> QED BY <1>5, <2>1, <2>2, <2>3 DEF Apart, Moved
<1>8. CASE ~\E t \in Ranks \ {r} : dealer_node[t] = b
  <2> PICK c : c = Nx(b)
    OBVIOUS
  <2>1. \A t \in Ranks : dealer_node'[t] = c /\ (t # r => phase[t] \notin {"kill", "end"})
    BY <1>1, <1>3, <1>8 DEF Apart, Near
  <2>2. CASE c = setup.mpi_size
    <3>1. \A t \in Ranks : phase'[t] = "done"
      <4> TAKE t \in Ranks
      <4>1. dealer_node'[t] \notin Ranks /\ dealer_node'[t] # t
        BY <1>2, <2>1, <2>2, Numbers DEF Shapes, Ranks
      <4>2. Role(t)' /\ phase'[t] \in Phases
        BY <1>1, <1>2, <1>3, <1>5, SameSetup DEF Roles, Shapes, Phases
      <4>3. dealer_node'[t] \notin Others(t)
        BY <4>1 DEF Others
      <4> QED BY <1>1, <4>1, <4>2, <4>3, SameSetup DEF Role, Deals, Phases
    <3> QED BY <1>1, <3>1, SameSetup DEF AllDone
  <2>3. CASE c # setup.mpi_size
    <3>1. c \in Ranks
      BY <1>2, <2>3
    <3>2. \A t \in Ranks : phase'[t] \notin {"kill", "end"}
      BY <1>1, <1>3, <2>1
    <3>3. Near(c)'
      BY <1>1, <2>1, <3>1, <3>2, SameSetup, SameRound DEF Near
    <3>4. \A q \in Ranks : dealer_node'[q] = c /\ phase'[q] # "end"
      BY <2>1, <3>2
    <3>5. Open(c)'
      <4>1. phase'[c] # "kill"
        BY <3>1, <3>2
      <4>2. \A q \in Ranks : In(c, q)'
        BY <1>1, <3>4, SameRound DEF In
      <4> QED BY <1>1, <4>1, <4>2, SameSetup, SameRound DEF Open
    <3>6. Kills(c)'
      BY <1>1, <1>6, <1>8, SameSetup DEF Kills, In
    <3>7. Moved(b, c)
      BY <2>1, <3>2 DEF Moved
    <3> QED BY <1>5, <3>1, <3>3, <3>5, <3>6, <3>7 DEF Apart
  <2> QED BY <2>2, <2>3
<1> QED BY <1>7, <1>8

\* A kill message once overtaken stays so, and when all are done nothing moves.
LEMMA OvertakenStays ==
  ASSUME Next, overtaken
  PROVE  overtaken'
<1>1. \A r \in Ranks : Step(r) => overtaken'
  BY DEF Step, BeginDealer, BeginSlave, SendBurst, WaitBurst, SendKill, SlaveBurst, SlaveRest, NextRound
<1> QED BY <1>1 DEF Next, Abort

LEMMA DoneIsDone ==
  ASSUME EInv, Next, AllDone
  PROVE  FALSE
<1>1. 0 \in Ranks
  BY Numbers DEF EInv, Shapes, Ranks
<1>2. \A r \in Ranks : ~Step(r)
  BY DEF AllDone, Step, BeginDealer, BeginSlave, SendBurst, WaitBurst, SendKill,
         SlaveBurst, SlaveRest, NextRound
<1> QED BY <1>1, <1>2 DEF Next, AllDone, Abort

LEMMA StepSetup ==
  ASSUME NEW r \in Ranks, Step(r)
  PROVE  setup' = setup
BY DEF Step, BeginDealer, BeginSlave, SendBurst, WaitBurst, SendKill, SlaveBurst, SlaveRest, NextRound

LEMMA StepRounds ==
  ASSUME RInv, [Next]_vars
  PROVE  RInv'
<1>1. EInv /\ EInv'
  BY StepEchoes DEF RInv
<1>2. CASE UNCHANGED vars
  <2>1. Roles => \A t \in Ranks : Role(t)' /\ Outstanding(t)'
    <3>1. \A t \in Ranks : Role(t) => Role(t)'
      BY <1>2, SameSetup DEF vars, Role, Deals
    <3>2. \A t \in Ranks : Outstanding(t) => Outstanding(t)'
      BY <1>2, OutstandingStays DEF vars
    <3> QED BY <3>1, <3>2 DEF Roles
  <2>2. AllDone => AllDone'
    BY <1>2, SameSetup DEF vars, AllDone
  <2>3. \A b \in Ranks : Apart(b) => Apart(b)'
    BY <1>2, SameSetup, SameRound DEF vars, Apart, Near, Open, Kills, In, Told, Busy
  <2> QED BY <1>1, <1>2, <2>1, <2>2, <2>3, SameSetup DEF RInv, Roles, vars
<1>3. ASSUME Abort PROVE AllDone'
  BY <1>3, SameSetup DEF Abort, AllDone
<1>4. ASSUME NEW r \in Ranks, Step(r), ~overtaken', Roles, NEW b \in Ranks, Apart(b)
      PROVE  AllDone' \/ (Roles' /\ \E c \in Ranks' : Apart(c)')
  <2>1. setup' = setup
    BY <1>4, StepSetup
  <2>2. CASE \E s \in Others(r) : SlaveBurst(r, s) \/ SlaveRest(r, s)
    <3>1. PICK s \in Others(r) : SlaveBurst(r, s) \/ SlaveRest(r, s)
      BY <2>2
    <3>2. s = dealer_node[r]
      BY <1>4, <3>1 DEF SlaveBurst, SlaveRest
    <3> QED BY <1>1, <1>4, <2>1, <3>1, <3>2, SlaveRounds, SameSetup
  <2>3. CASE NextRound(r)
    BY <1>1, <1>4, <2>1, <2>3, NextRoundRounds, SameSetup
  <2>4. CASE BeginDealer(r) \/ BeginSlave(r) \/ SendBurst(r)
    BY <1>1, <1>4, <2>1, <2>4, BeginDealerRounds, BeginSlaveRounds, SendBurstRounds, SameSetup
  <2>5. CASE WaitBurst(r) \/ SendKill(r)
    BY <1>1, <1>4, <2>1, <2>5, WaitBurstRounds, SendKillRounds, SameSetup
  <2> QED BY <1>4, <2>2, <2>3, <2>4, <2>5 DEF Step
<1>5. ASSUME Next PROVE RInv'
  <2>1. overtaken' \/ AllDone' \/ (Roles' /\ \E c \in Ranks' : Apart(c)')
    BY <1>1, <1>3, <1>4, <1>5, OvertakenStays, DoneIsDone DEF RInv, Next
  <2> QED BY <1>1, <2>1 DEF RInv
<1> QED BY <1>2, <1>5

LEMMA RoundsOfRInv == RInv => OneRoundApart
<1> SUFFICES ASSUME RInv, ~overtaken, ~AllDone, NEW r \in Ranks, NEW s \in Ranks
             PROVE  \/ dealer_node[r] - dealer_node[s] \in {-1, 0, 1}
                    \/ setup.interval /\ {dealer_node[r], dealer_node[s]} = {0, setup.mpi_size - 1}
  BY DEF OneRoundApart
<1>1. PICK b \in Ranks : dealer_node[r] \in {b, Nx(b)} /\ dealer_node[s] \in {b, Nx(b)}
  BY DEF RInv, Apart, Near
<1>2. b \in Int
  BY Numbers DEF RInv, EInv, Shapes, Ranks
<1>3. CASE setup.interval /\ b = setup.mpi_size - 1
  <2>1. Nx(b) = 0
    BY <1>3 DEF Nx
  <2>2. CASE dealer_node[r] = dealer_node[s]
    <3>1. dealer_node[r] \in Int
      BY <1>1, <1>2, <2>1
    <3>2. \A n \in Int : n - n = 0
      OBVIOUS
    <3> QED BY <2>2, <3>1, <3>2
  <2>3. CASE dealer_node[r] # dealer_node[s]
    BY <1>1, <1>3, <2>1, <2>3
  <2> QED BY <2>2, <2>3
<1>4. CASE ~(setup.interval /\ b = setup.mpi_size - 1)
  <2>1. Nx(b) = b + 1
    BY <1>4 DEF Nx
  <2> QED BY <1>1, <1>2, <2>1
<1> QED BY <1>3, <1>4

\* OneRoundApart, for every number of ranks, sizes and bursts: unless a message
\* overtakes a kill message, no rank is more than one round ahead of another.
THEOREM RoundsApart == Spec => []OneRoundApart
BY InitRounds, StepRounds, RoundsOfRInv, PTL DEF Spec

--------------------------------------------------------------------------------
(* The types *)

\* The dealer a rank works with is a rank, and a slave in its burst has a receive
\* left.
Placed(r) ==
  /\ phase[r] # "done" => dealer_node[r] \in Ranks
  /\ phase[r] = "burst" => left[r] >= 1

TInv == EInv /\ TypeOK /\ \A r \in Ranks : Placed(r)

LEMMA Within ==
  ASSUME NEW R, NEW S, NEW T, NEW f \in [R -> T], \A x \in R : f[x] \in S
  PROVE  f \in [R -> S]
OBVIOUS

LEMMA InitTypes == Init => TInv
<1> SUFFICES ASSUME Init PROVE TInv
  OBVIOUS
<1>1. setup \in Setups /\ EInv
  BY InitEchoes DEF Init
<1>2. /\ setup.mpi_size \in Nat /\ setup.mpi_size > 1
      /\ setup.burst_size \in Nat /\ setup.burst_size >= 1
  BY <1>1, Numbers
<1>3. 0 \in Ranks /\ 0 \in 0..setup.mpi_size /\ 0 \in 0..setup.burst_size
  BY <1>2 DEF Ranks
<1>4. /\ dealer_node \in [Ranks -> 0..setup.mpi_size]
      /\ phase \in [Ranks -> {"begin", "send", "wait", "kill", "burst", "rest", "end", "done"}]
      /\ dest_node \in [Ranks -> Ranks] /\ data_size \in [Ranks -> {0} \cup Sizes]
      /\ left \in [Ranks -> 0..setup.burst_size]
  BY <1>3 DEF Init
<1>5. wire \in [Routes -> Seq({Kill} \cup Sizes)]
  BY DEF Init
<1>6. echoed \in [Routes \X Sizes -> 0..setup.burst_size] /\ overtaken \in BOOLEAN
  BY <1>3 DEF Init
<1>7. \A r \in Ranks : Placed(r)
  BY <1>3 DEF Init, Placed
<1> QED BY <1>1, <1>4, <1>5, <1>6, <1>7 DEF TInv, TypeOK

\* What a step of one rank must show of the rank for the types of all to stay.
LEMMA TypesKept ==
  ASSUME TInv, EInv', setup' = setup, NEW r \in Ranks,
         \A t \in Ranks \ {r} : UNCHANGED <<dealer_node[t], phase[t], dest_node[t], data_size[t], left[t]>>,
         dealer_node'[r] \in 0..setup.mpi_size,
         UNCHANGED <<dest_node[r], data_size[r]>> \/ Deals(r)' \/
           (UNCHANGED <<data_size[r]>> /\ dest_node'[r] \in Ranks),
         Deals(r)' \/ left'[r] \in 0..setup.burst_size,
         Placed(r)',
         wire' \in [Routes -> Seq({Kill} \cup Sizes)],
         echoed' \in [Routes \X Sizes -> 0..setup.burst_size]
  PROVE  TInv'
<1>1. Ranks' = Ranks /\ Routes' = Routes /\ Sizes' = Sizes /\ \A t : Others(t)' = Others(t)
  BY SameSetup
<1>2. /\ Shapes' /\ TypeOK /\ setup.burst_size \in Nat
      /\ Deals(r)' => data_size'[r] \in Sizes /\ dest_node'[r] \in Others(r)
                      /\ left'[r] \in 1..setup.burst_size
  BY <1>1, Numbers DEF TInv, EInv, Dealing, Shapes
<1>3. dealer_node' \in [Ranks -> 0..setup.mpi_size]
  <2>1. dealer_node' \in [Ranks -> Nat] /\ \A t \in Ranks : dealer_node'[t] \in 0..setup.mpi_size
    BY <1>1, <1>2 DEF Shapes, TypeOK
  <2> QED BY <2>1, Within
<1>4. dest_node' \in [Ranks -> Ranks]
  <2>1. dest_node' \in [Ranks -> Nat] /\ \A t \in Ranks : dest_node'[t] \in Ranks
    BY <1>1, <1>2 DEF Shapes, TypeOK, Others
  <2> QED BY <2>1, Within
<1>5. data_size' \in [Ranks -> {0} \cup Sizes]
  <2>1. data_size' \in [Ranks -> Nat] /\ \A t \in Ranks : data_size'[t] \in {0} \cup Sizes
    BY <1>1, <1>2 DEF Shapes, TypeOK
  <2> QED BY <2>1, Within
<1>6. left' \in [Ranks -> 0..setup.burst_size]
  <2>1. left' \in [Ranks -> Int]
    BY <1>1, <1>2 DEF Shapes
  <2>2. \A n \in 1..setup.burst_size : n \in 0..setup.burst_size
    BY <1>2
  <2>3. \A t \in Ranks : left'[t] \in 0..setup.burst_size
    BY <1>2, <2>2 DEF TypeOK
  <2> QED BY <2>1, <2>3, Within
<1>7. phase' \in [Ranks -> Phases] /\ overtaken' \in BOOLEAN /\ setup' \in Setups
  BY <1>1, <1>2 DEF Shapes
<1>8. \A t \in Ranks \ {r} : Placed(t)'
  BY <1>1 DEF TInv, Placed
<1> QED BY <1>1, <1>3, <1>4, <1>5, <1>6, <1>7, <1>8 DEF TInv, TypeOK, Phases

LEMMA DealerTypes ==
  ASSUME TInv, EInv', NEW r \in Ranks,
         BeginDealer(r) \/ SendBurst(r) \/ WaitBurst(r) \/ SendKill(r)
  PROVE  TInv'
<1>1. /\ setup' = setup /\ dealer_node' = dealer_node
      /\ \A t \in Ranks \ {r} : UNCHANGED <<phase[t], dest_node[t], data_size[t], left[t]>>
  BY DEF BeginDealer, SendBurst, WaitBurst, NextBurst, SendKill, TInv, TypeOK
<1>2. TypeOK /\ EInv /\ Shapes /\ setup \in Setups
  BY DEF TInv, EInv, Shapes
<1>3. phase[r] # "done" /\ phase'[r] \notin {"burst", "done"}
  BY DEF BeginDealer, SendBurst, WaitBurst, NextBurst, SendKill, TInv, TypeOK
<1>4. Placed(r)'
  BY <1>1, <1>3, SameSetup DEF TInv, Placed
<1>5. Deals(r)' \/ SendKill(r)
  BY DEF BeginDealer, SendBurst, WaitBurst, NextBurst, Deals, TInv, TypeOK
<1>6. SendKill(r) => /\ UNCHANGED <<data_size[r], left[r]>>
                     /\ Deals(r)' \/ dest_node'[r] = dest_node[r]
  BY DEF SendKill, Deals, TInv, TypeOK
<1>7. Deals(r) => data_size[r] \in Sizes /\ dest_node[r] \in Others(r) /\ left[r] \in 1..setup.burst_size
  BY DEF TInv, EInv, Dealing
<1>8. wire' \in [Routes -> Seq({Kill} \cup Sizes)]
  <2>1. wire \in [Routes -> Seq({Kill} \cup Sizes)]
    BY <1>2 DEF TypeOK
  <2>2. CASE BeginDealer(r)
    BY <2>1, <2>2 DEF BeginDealer
  <2>3. CASE SendBurst(r)
    <3>1. wire' = Sent(r, dest_node[r], data_size[r]) /\ Deals(r)
      BY <2>3 DEF SendBurst, Deals
    <3> QED BY <1>7, <2>1, <3>1, OnTheWire
  <2>4. CASE WaitBurst(r)
    <3>1. wire' = Taken(dest_node[r], r) /\ Waiting(dest_node[r], r) /\ Deals(r)
      BY <2>4 DEF WaitBurst, Deals
    <3> QED BY <1>7, <2>1, <3>1, OnTheWire
  <2>5. CASE SendKill(r)
    <3>1. wire' = Sent(r, dest_node[r], Kill) /\ Deals(r)
      BY <2>5 DEF SendKill, Deals
    <3> QED BY <1>7, <2>1, <3>1, OnTheWire
  <2> QED BY <2>2, <2>3, <2>4, <2>5
<1>9. echoed' \in [Routes \X Sizes -> 0..setup.burst_size]
  <2>1. /\ echoed \in [Routes \X Sizes -> 0..setup.burst_size]
        /\ setup.burst_size \in Nat /\ setup.burst_size >= 1
    BY <1>2, Numbers DEF TypeOK
  <2>2. CASE BeginDealer(r)
    <3>1. echoed' = [x \in Routes \X Sizes |-> IF x[1][1] = r THEN 0 ELSE echoed[x]]
      BY <2>1, <2>2 DEF BeginDealer
    <3>2. 0 \in 0..setup.burst_size
      BY <2>1
    <3> QED BY <2>1, <3>1, <3>2
  <2>3. CASE SendBurst(r) \/ SendKill(r)
    BY <2>1, <2>3 DEF SendBurst, SendKill
  <2>4. CASE WaitBurst(r)
    <3> DEFINE x == <<<<r, dest_node[r]>>, data_size[r]>>
    <3>1. phase[r] = "wait" /\ Deals(r) /\ echoed' = [echoed EXCEPT ![x] = @ + 1]
      BY <2>4 DEF WaitBurst, Deals
    <3>2. x \in Routes \X Sizes /\ echoed[x] = setup.burst_size - left[r]
      <4>1. dest_node[r] \in Nat /\ data_size[r] \in Nat
        BY <1>2 DEF Shapes
      <4>2. Current(r, dest_node[r], data_size[r]) /\ ~Passed(r, dest_node[r], data_size[r])
        BY <4>1 DEF Current, Passed
      <4>3. echoed[x] = Echoes(r, dest_node[r], data_size[r])
        BY <1>7, <3>1 DEF TInv, EInv, Dealing
      <4> QED BY <1>7, <3>1, <4>2, <4>3, RoutePairs DEF Echoes
    <3>3. echoed[x] + 1 \in 0..setup.burst_size
      BY <1>7, <2>1, <3>1, <3>2
    <3> HIDE DEF x
    <3> QED BY <2>1, <3>1, <3>2, <3>3
  <2> QED BY <2>2, <2>3, <2>4
<1>10. dealer_node'[r] \in 0..setup.mpi_size /\ left[r] \in 0..setup.burst_size
  BY <1>1, <1>2 DEF TypeOK
<1>11. Deals(r)' \/ (UNCHANGED <<dest_node[r], data_size[r]>> /\ left'[r] \in 0..setup.burst_size)
  BY <1>5, <1>6, <1>10
<1> QED BY <1>1, <1>4, <1>8, <1>9, <1>10, <1>11, TypesKept

LEMMA SlaveTypes ==
  ASSUME TInv, EInv', NEW r \in Ranks,
         \/ BeginSlave(r) \/ NextRound(r)
         \/ \E s \in Others(r) : SlaveBurst(r, s) \/ SlaveRest(r, s)
  PROVE  TInv'
<1>1. /\ setup' = setup /\ UNCHANGED <<dest_node, data_size, echoed>>
      /\ \A t \in Ranks \ {r} : UNCHANGED <<dealer_node[t], phase[t], left[t]>>
  <2>1. CASE BeginSlave(r) \/ NextRound(r)
    BY <2>1 DEF BeginSlave, NextRound, TInv, TypeOK
  <2>2. CASE \E s \in Others(r) : SlaveBurst(r, s) \/ SlaveRest(r, s)
    BY <2>2 DEF SlaveBurst, SlaveRest, TInv, TypeOK
  <2> QED BY <2>1, <2>2
<1>2. /\ TypeOK /\ setup \in Setups /\ setup.mpi_size \in Nat /\ setup.mpi_size > 1
      /\ setup.burst_size \in Nat /\ setup.burst_size >= 1 /\ setup.interval \in BOOLEAN
      /\ left[r] \in 0..setup.burst_size /\ phase[r] # "done"
  <2>1. phase[r] # "done"
    BY DEF BeginSlave, NextRound, SlaveBurst, SlaveRest
  <2> QED BY <2>1, Numbers DEF TInv, TypeOK
<1>3. dealer_node[r] \in Ranks
  BY <1>2 DEF TInv, Placed
<1>4. /\ left'[r] \in 0..setup.burst_size
      /\ phase'[r] = "burst" => left'[r] >= 1
  <2>1. CASE BeginSlave(r)
    <3>1. left'[r] = setup.burst_size
      BY <1>2, <2>1 DEF BeginSlave, BurstReceives, TypeOK
    <3> QED BY <1>2, <3>1
  <2>2. CASE \E s \in Others(r) : SlaveBurst(r, s)
    <3>1. /\ phase[r] = "burst" /\ left'[r] = left[r] - 1
          /\ phase'[r] = IF left[r] = 1 THEN "rest" ELSE phase[r]
      BY <1>2, <2>2 DEF SlaveBurst, TypeOK
    <3>2. left[r] >= 1
      BY <3>1 DEF TInv, Placed
    <3>3. left[r] # 1 => left[r] - 1 >= 1
      BY <1>2, <3>2
    <3>4. left[r] - 1 \in 0..setup.burst_size
      BY <1>2, <3>2
    <3> QED BY <3>1, <3>3, <3>4
  <2>3. CASE \E s \in Others(r) : SlaveRest(r, s)
    BY <1>2, <2>3 DEF SlaveRest, TypeOK
  <2>4. CASE NextRound(r)
    BY <1>2, <2>4 DEF NextRound, TypeOK
  <2> QED BY <2>1, <2>2, <2>3, <2>4
<1>5. /\ dealer_node'[r] \in 0..setup.mpi_size
      /\ phase'[r] # "done" => dealer_node'[r] \in Ranks
  <2>1. CASE NextRound(r)
    <3> DEFINE next == dealer_node[r] + 1
    <3>1. /\ dealer_node'[r] = IF next = setup.mpi_size /\ setup.interval THEN 0 ELSE next
          /\ phase'[r] = IF next = setup.mpi_size /\ ~setup.interval THEN "done" ELSE "begin"
      BY <1>2, <2>1 DEF NextRound, TypeOK
    <3>2. next \in 0..setup.mpi_size /\ (next # setup.mpi_size => next \in Ranks)
      BY <1>2, <1>3 DEF Ranks
    <3>3. 0 \in 0..setup.mpi_size /\ 0 \in Ranks
      BY <1>2 DEF Ranks
    <3> HIDE DEF next
    <3> QED BY <1>2, <3>1, <3>2, <3>3
  <2>2. CASE ~NextRound(r)
    <3>1. dealer_node' = dealer_node
      BY <2>2 DEF BeginSlave, SlaveBurst, SlaveRest
    <3> QED BY <1>2, <1>3, <3>1 DEF TypeOK
  <2> QED BY <2>1, <2>2
<1>6. wire' \in [Routes -> Seq({Kill} \cup Sizes)]
  <2>1. wire \in [Routes -> Seq({Kill} \cup Sizes)]
    BY <1>2 DEF TypeOK
  <2>2. CASE BeginSlave(r) \/ NextRound(r)
    BY <2>1, <2>2 DEF BeginSlave, NextRound
  <2>3. CASE \E s \in Others(r) : SlaveBurst(r, s) \/ SlaveRest(r, s)
    BY <2>1, <2>3, Echoed DEF SlaveBurst, SlaveRest
  <2> QED BY <2>2, <2>3
<1>7. echoed' \in [Routes \X Sizes -> 0..setup.burst_size]
  BY <1>1, <1>2 DEF TypeOK
<1>8. Placed(r)'
  BY <1>1, <1>4, <1>5, SameSetup DEF Placed
<1> QED BY <1>1, <1>4, <1>5, <1>6, <1>7, <1>8, TypesKept

LEMMA StepTypes ==
  ASSUME TInv, [Next]_vars
  PROVE  TInv'
<1>1. EInv'
  BY StepEchoes DEF TInv
<1>2. CASE UNCHANGED vars
  BY <1>1, <1>2, SameSetup DEF vars, TInv, TypeOK, Placed
<1>3. ASSUME NEW r \in Ranks, Step(r) PROVE TInv'
  BY <1>1, <1>3, DealerTypes, SlaveTypes DEF Step
<1>4. CASE Abort
  <2>1. /\ UNCHANGED <<setup, dealer_node, dest_node, data_size, left, wire, echoed, overtaken>>
        /\ phase' = [r \in Ranks |-> "done"]
    BY <1>4 DEF Abort
  <2>2. TypeOK'
    BY <2>1, SameSetup DEF TInv, TypeOK
  <2>3. \A r \in Ranks : Placed(r)'
    BY <2>1 DEF Placed
  <2> QED BY <1>1, <2>1, <2>2, <2>3, SameSetup DEF TInv
<1> QED BY <1>2, <1>3, <1>4 DEF Next

\* Every reachable state of the ranks has its type: a dealer deals a size of the
\* loop to another rank, counts no more echoes than a burst has messages, and only
\* those sizes and kill messages are under way.
THEOREM Typing == Spec => []TypeOK
<1>1. TInv => TypeOK
  BY DEF TInv
<1> QED BY <1>1, InitTypes, StepTypes, PTL DEF Spec

--------------------------------------------------------------------------------
(* Nobody is stuck *)

\* What a slave has received of its round's dealer. Before the dealer deals, a slave
\* is not past the receives it posted; from then on each of the receives that are
\* gone is an echo of the smallest size, counted by the dealer or on its way: the
\* dealer cannot go past that burst before the slave has.
Undealt(b, r) ==
  \/ r # b /\ dealer_node[r] # r
  \/ dealer_node[r] = r /\ phase[r] = "begin"

First(r, q) == echoed[<<<<r, q>>, setup.smin>>]

Starts(b, r, q) ==
  dealer_node[q] = r =>
    /\ Undealt(b, r) => phase[q] = "begin" \/ (phase[q] = "burst" /\ left[q] = setup.burst_size)
    /\ Deals(r) /\ phase[q] = "begin" => wire[<<q, r>>] = <<>> /\ First(r, q) = 0
    /\ Deals(r) /\ phase[q] = "burst" =>
         First(r, q) + Len(wire[<<q, r>>]) = setup.burst_size - left[q]

\* Whom the dealer has told to leave the round, and who has not left it, is at rest,
\* and the kill message is on its way.
Final(b, q) == In(b, q) /\ Told(b, q) => phase[q] = "rest" /\ wire[<<b, q>>] # <<>>

Progress(b) ==
  /\ \A r \in Ranks : \A q \in Others(r) : Starts(b, r, q)
  /\ \A q \in Others(b) : Final(b, q)

SInv == TInv /\ (overtaken \/ AllDone \/ (Roles /\ \E b \in Ranks : Apart(b) /\ Progress(b)))

LEMMA InitProgress == Init => SInv
<1> SUFFICES ASSUME Init PROVE SInv
  OBVIOUS
<1>1. TInv /\ EInv /\ setup \in Setups
  BY InitTypes, InitEchoes DEF Init
<1>2. 0 \in Ranks
  BY <1>1, Numbers DEF Ranks
<1>3. \A r \in Ranks : dealer_node[r] = 0 /\ phase[r] = "begin"
  BY DEF Init
<1>4. \A s \in Ranks : \A q \in Others(s) : wire[<<s, q>>] = <<>>
  BY RoutePairs DEF Init
<1>5. Roles
  BY <1>2, <1>3 DEF Roles, Role, Outstanding, Busy, Deals
<1>6. Apart(0)
  BY <1>2, <1>3, <1>4 DEF Apart, Near, Open, In, Kills
<1>7. \A q \in Others(0) : Final(0, q)
  BY <1>2, <1>3 DEF Final, Told
<1>8. \A r \in Ranks : \A q \in Others(r) : Starts(0, r, q)
  BY <1>3 DEF Starts, Deals, Others
<1> QED BY <1>1, <1>2, <1>5, <1>6, <1>7, <1>8 DEF SInv, Progress

\* A slave and a dealer that a step leaves alone.
LEMMA StartsStays ==
  ASSUME setup' = setup, NEW b, NEW c, NEW r, NEW q, Starts(b, r, q),
         UNCHANGED <<dealer_node[q], phase[q], left[q]>>,
         Undealt(c, r)' => Undealt(b, r), Deals(r)' => Deals(r),
         Deals(r)' => UNCHANGED <<wire[<<q, r>>], First(r, q)>>
  PROVE  Starts(c, r, q)'
BY DEF Starts

LEMMA FinalStays ==
  ASSUME NEW b, NEW q, Final(b, q),
         In(b, q)' => In(b, q), Told(b, q)' => Told(b, q),
         In(b, q)' /\ Told(b, q)' => phase'[q] = phase[q] /\ wire'[<<b, q>>] = wire[<<b, q>>]
  PROVE  Final(b, q)'
BY DEF Final

\* What the steps start from: the shape of the state, the slaves' receives and the
\* number of echoes of the smallest size.
LEMMA Counts ==
  ASSUME TInv, NEW r \in Ranks, NEW q \in Others(r)
  PROVE  /\ q \in Ranks /\ q # r /\ r \in Others(q) /\ <<q, r>> \in Routes /\ <<r, q>> \in Routes
         /\ setup \in Setups /\ setup.smin \in Sizes
         /\ setup.burst_size \in Nat /\ setup.burst_size >= 1
         /\ <<<<r, q>>, setup.smin>> \in Routes \X Sizes /\ First(r, q) \in Nat
         /\ left[q] \in Nat /\ (phase[q] = "burst" => left[q] >= 1)
         /\ Len(wire[<<q, r>>]) \in Nat /\ Len(wire[<<r, q>>]) \in Nat
<1>1. /\ q \in Ranks /\ q # r /\ r \in Others(q) /\ <<q, r>> \in Routes /\ <<r, q>> \in Routes
      /\ setup \in Setups /\ TypeOK /\ Shapes
  BY RoutePairs DEF Others, TInv, EInv, Shapes
<1>2. setup.smin \in Sizes /\ setup.burst_size \in Nat /\ setup.burst_size >= 1
  BY <1>1, Numbers, SizesDoubled DEF Doubled
<1>3. <<<<r, q>>, setup.smin>> \in Routes \X Sizes
  BY <1>1, <1>2
<1>4. First(r, q) \in Nat
  BY <1>1, <1>3 DEF First, Shapes
<1>5. left[q] \in Nat /\ (phase[q] = "burst" => left[q] >= 1)
  BY <1>1, <1>2 DEF TInv, TypeOK, Placed
<1>6. Len(wire[<<q, r>>]) \in Nat /\ Len(wire[<<r, q>>]) \in Nat
  <2>1. wire[<<q, r>>] \in Seq(Nat) /\ wire[<<r, q>>] \in Seq(Nat)
    BY <1>1 DEF Shapes
  <2> QED BY <2>1
<1> QED BY <1>1, <1>2, <1>3, <1>4, <1>5, <1>6

\* A dealer that has all echoes of the smallest size from a slave of its round has
\* seen it to the end of its burst.
LEMMA PastBurst ==
  ASSUME TInv, NEW b, NEW r \in Ranks, NEW q \in Others(r), Starts(b, r, q),
         Deals(r), dealer_node[q] = r, First(r, q) = setup.burst_size
  PROVE  phase[q] \notin {"begin", "burst"}
<1>1. /\ setup.burst_size \in Nat /\ setup.burst_size >= 1 /\ left[q] \in Nat
      /\ Len(wire[<<q, r>>]) \in Nat /\ (phase[q] = "burst" => left[q] >= 1)
  BY Counts
<1>2. phase[q] # "begin"
  <2>1. setup.burst_size # 0
    BY <1>1
  <2> QED BY <2>1 DEF Starts
<1>3. phase[q] # "burst"
  <2> SUFFICES ASSUME phase[q] = "burst" PROVE FALSE
    OBVIOUS
  <2>1. setup.burst_size + Len(wire[<<q, r>>]) = setup.burst_size - left[q] /\ left[q] >= 1
    BY <1>1 DEF Starts
  <2> QED BY <1>1, <2>1
<1> QED BY <1>2, <1>3

LEMMA BeginDealerProgress ==
  ASSUME TInv, Roles', NEW b \in Ranks, Apart(b), Progress(b), NEW r \in Ranks, BeginDealer(r)
  PROVE  Progress(b)'
<1>1. /\ UNCHANGED <<setup, dealer_node, wire>> /\ phase[r] = "begin" /\ dealer_node[r] = r
      /\ phase'[r] = "send" /\ left'[r] = setup.burst_size
      /\ \A t \in Ranks \ {r} : UNCHANGED <<phase[t], left[t]>>
      /\ echoed' = [x \in DOMAIN echoed |-> IF x[1][1] = r THEN 0 ELSE echoed[x]]
  BY DEF BeginDealer, TInv, TypeOK
<1>2. \A t \in Ranks : \A q \in Others(t) : First(t, q)' = IF t = r THEN 0 ELSE First(t, q)
  <2> TAKE t \in Ranks
  <2> TAKE q \in Others(t)
  <2>1. <<<<t, q>>, setup.smin>> \in DOMAIN echoed
    BY Counts DEF TInv, TypeOK
  <2> QED BY <1>1, <2>1 DEF First
<1>3. ASSUME NEW q \in Others(r) PROVE Starts(b, r, q)'
  <2>1. q \in Ranks /\ q # r /\ setup \in Setups /\ setup.burst_size \in Nat /\ <<q, r>> \in Routes
    BY Counts
  <2>2. wire'[<<q, r>>] = <<>>
    <3>1. Exchange(r, q)' /\ Owed(r, q)' = 0
      BY <1>1, <2>1, SameSetup DEF Roles, Outstanding, Busy, Owed
    <3>2. Len(wire[<<r, q>>]) + Len(wire[<<q, r>>]) = 0
      BY <1>1, <3>1 DEF Exchange
    <3>3. Len(wire[<<q, r>>]) = 0
      <4>1. Len(wire[<<q, r>>]) \in Nat /\ Len(wire[<<r, q>>]) \in Nat
        BY Counts
      <4>2. \A m, n \in Nat : m + n = 0 => n = 0
        OBVIOUS
      <4> QED BY <3>2, <4>1, <4>2
    <3>4. wire[<<q, r>>] \in Seq(Nat)
      BY <2>1 DEF TInv, EInv, Shapes
    <3> QED BY <1>1, <3>3, <3>4
  <2>3. dealer_node[q] = r => phase[q] = "begin" \/ (phase[q] = "burst" /\ left[q] = setup.burst_size)
    BY <1>1 DEF Progress, Starts, Undealt
  <2>4. ~Undealt(b, r)'
    BY <1>1 DEF Undealt
  <2>5. 0 + Len(<<>>) = setup.burst_size - setup.burst_size
    BY <2>1
  <2> QED BY <1>1, <1>2, <2>1, <2>2, <2>3, <2>4, <2>5 DEF Starts
<1>4. ASSUME NEW t \in Ranks \ {r}, NEW q \in Others(t) PROVE Starts(b, t, q)'
  <2>1. CASE q = r
    BY <1>1, <2>1 DEF Starts
  <2>2. CASE q # r
    <3>1. q \in Ranks /\ Starts(b, t, q)
      BY DEF Others, Progress
    <3>2. (Undealt(b, t)' => Undealt(b, t)) /\ (Deals(t)' => Deals(t))
      BY <1>1 DEF Undealt, Deals
    <3> QED BY <1>1, <1>2, <2>2, <3>1, <3>2, StartsStays
  <2> QED BY <2>1, <2>2
<1>5. ASSUME NEW q \in Others(b) PROVE Final(b, q)'
  <2>1. q \in Ranks /\ q # b /\ Final(b, q)
    BY DEF Others, Progress
  <2>2. CASE b = r
    BY <1>1, <2>2 DEF Final, Told
  <2>3. CASE b # r
    <3>1. q # r \/ ~In(b, q)'
      BY <1>1, <2>3 DEF In
    <3>2. dealer_node[b] = b => phase'[b] = phase[b]
      BY <1>1, <2>3
    <3>3. Told(b, q)' => Told(b, q)
      <4>1. dest_node'[b] = dest_node[b]
        BY <2>3 DEF BeginDealer, TInv, TypeOK
      <4> QED BY <1>1, <3>2, <4>1 DEF Told
    <3> QED BY <1>1, <2>1, <3>1, <3>3, FinalStays DEF In
  <2> QED BY <2>2, <2>3
<1> QED BY <1>1, <1>3, <1>4, <1>5, SameSetup DEF Progress

LEMMA BeginSlaveProgress ==
  ASSUME TInv, NEW b \in Ranks, Apart(b), Progress(b), NEW r \in Ranks, BeginSlave(r)
  PROVE  Progress(b)'
<1>1. /\ UNCHANGED <<setup, dealer_node, dest_node, wire, echoed>>
      /\ phase[r] = "begin" /\ dealer_node[r] # r
      /\ phase'[r] = "burst" /\ left'[r] = setup.burst_size
      /\ \A t \in Ranks \ {r} : UNCHANGED <<phase[t], left[t]>>
  BY DEF BeginSlave, BurstReceives, Others, TInv, TypeOK
<1>2. \A t \in Ranks : \A q \in Others(t) : First(t, q)' = First(t, q)
  BY <1>1 DEF First
<1>3. \A t \in Ranks : (Undealt(b, t)' <=> Undealt(b, t)) /\ (Deals(t)' <=> Deals(t))
  BY <1>1 DEF Undealt, Deals
<1>4. ASSUME NEW t \in Ranks, NEW q \in Others(t) PROVE Starts(b, t, q)'
  <2>1. q \in Ranks /\ Starts(b, t, q) /\ setup.burst_size \in Nat
    BY Counts DEF Progress
  <2>2. CASE q = r
    <3>1. Deals(t) /\ dealer_node[q] = t => wire[<<q, t>>] = <<>> /\ First(t, q) = 0
      BY <1>1, <2>1, <2>2 DEF Starts
    <3>2. 0 + Len(<<>>) = setup.burst_size - setup.burst_size
      BY <2>1
    <3> QED BY <1>1, <1>2, <1>3, <2>2, <3>1, <3>2 DEF Starts
  <2>3. CASE q # r
    BY <1>1, <1>2, <1>3, <2>1, <2>3, StartsStays
  <2> QED BY <2>2, <2>3
<1>5. ASSUME NEW q \in Others(b) PROVE Final(b, q)'
  <2>1. q \in Ranks /\ Final(b, q)
    BY DEF Others, Progress
  <2>2. (Told(b, q)' => Told(b, q)) /\ (In(b, q)' <=> In(b, q))
    BY <1>1, <2>1 DEF Told, In
  <2>3. CASE q = r
    BY <1>1, <2>1, <2>2, <2>3 DEF Final
  <2>4. CASE q # r
    BY <1>1, <2>1, <2>2, <2>4, FinalStays
  <2> QED BY <2>3, <2>4
<1> QED BY <1>1, <1>4, <1>5, SameSetup DEF Progress

LEMMA SendBurstProgress ==
  ASSUME TInv, Roles, NEW b \in Ranks, Apart(b), Progress(b), NEW r \in Ranks, SendBurst(r)
  PROVE  Progress(b)'
<1>1. /\ UNCHANGED <<setup, dealer_node, dest_node, echoed>> /\ wire' = Sent(r, dest_node[r], data_size[r])
      /\ phase[r] = "send" /\ phase'[r] \in {"send", "wait"}
      /\ \A t \in Ranks \ {r} : UNCHANGED <<phase[t], left[t]>>
  BY DEF SendBurst, TInv, TypeOK
<1>2. dealer_node[r] = r
  BY <1>1 DEF Roles, Role, Deals
<1>3. \A t, q : <<t, q>> \in Routes /\ t # r => wire'[<<t, q>>] = wire[<<t, q>>]
  BY <1>1 DEF Sent, TInv, TypeOK
<1>4. \A t \in Ranks : \A q \in Others(t) : First(t, q)' = First(t, q)
  BY <1>1 DEF First
<1>5. \A t \in Ranks : (Undealt(b, t)' <=> Undealt(b, t)) /\ (Deals(t)' <=> Deals(t))
  BY <1>1 DEF Undealt, Deals
<1>6. ASSUME NEW t \in Ranks, NEW q \in Others(t) PROVE Starts(b, t, q)'
  <2>1. q \in Ranks /\ q # t /\ Starts(b, t, q) /\ <<q, t>> \in Routes
    BY RoutePairs DEF Progress
  <2>2. CASE q = r
    BY <1>1, <1>2, <2>1, <2>2 DEF Starts
  <2>3. CASE q # r
    BY <1>1, <1>3, <1>4, <1>5, <2>1, <2>3, StartsStays
  <2> QED BY <2>2, <2>3
<1>7. ASSUME NEW q \in Others(b) PROVE Final(b, q)'
  <2>1. q \in Ranks /\ q # b /\ Final(b, q) /\ <<b, q>> \in Routes
    BY RoutePairs DEF Progress
  <2>2. CASE b = r
    BY <1>1, <1>2, <2>2 DEF Final, Told
  <2>3. CASE b # r
    <3>1. q = r => ~In(b, q)'
      BY <1>1, <1>2, <2>3 DEF In
    <3>2. (Told(b, q)' => Told(b, q)) /\ (In(b, q)' /\ q # r => In(b, q))
      BY <1>1, <2>1, <2>3 DEF Told, In
    <3> QED BY <1>1, <1>3, <2>1, <2>3, <3>1, <3>2, FinalStays
  <2> QED BY <2>2, <2>3
<1> QED BY <1>1, <1>6, <1>7, SameSetup DEF Progress

\* An echo that the dealer counts is of the smallest size as long as its slave is in
\* the burst.
LEMMA WaitBurstProgress ==
  ASSUME TInv, Roles, NEW b \in Ranks, Apart(b), Progress(b), NEW r \in Ranks, WaitBurst(r)
  PROVE  Progress(b)'
<1> DEFINE D == dest_node[r]
           Z == data_size[r]
           W == wire[<<D, r>>]
<1>1. /\ UNCHANGED <<setup, dealer_node>> /\ phase[r] = "wait" /\ W # <<>>
      /\ wire' = Taken(D, r) /\ echoed' = [echoed EXCEPT ![<<<<r, D>>, Z>>] = @ + 1]
      /\ \A t \in Ranks \ {r} : UNCHANGED <<phase[t], left[t], dest_node[t]>>
      /\ phase'[r] \in {"wait", "send", "kill"}
      /\ phase'[r] = "kill" => dest_node'[r] = NextDest(0, r)
  BY DEF WaitBurst, NextBurst, Waiting, TInv, TypeOK
<1>2. /\ dealer_node[r] = r /\ Deals(r) /\ Busy(r) /\ setup \in Setups
      /\ Z \in Sizes /\ D \in Others(r) /\ D \in Ranks /\ D # r /\ Z \in Nat
      /\ \A s \in Others(r), n \in Sizes : echoed[<<<<r, s>>, n>>] = Echoes(r, s, n)
  BY <1>1, RoutePairs DEF Roles, Role, Deals, Busy, TInv, EInv, Dealing, Shapes
<1>3. dealer_node[D] = r
  BY <1>1, <1>2 DEF Roles, Outstanding, Exchange, Heard
<1>4. /\ <<D, r>> \in Routes /\ wire'[<<D, r>>] = Tail(W)
      /\ \A t, q : <<t, q>> \in Routes /\ (t # D \/ q # r) => wire'[<<t, q>>] = wire[<<t, q>>]
  BY <1>1, <1>2, RoutePairs DEF Taken, TInv, TypeOK
<1>5. \A t \in Ranks : \A q \in Others(t) :
        First(t, q)' = IF t = r /\ q = D /\ Z = setup.smin THEN First(t, q) + 1 ELSE First(t, q)
  <2> TAKE t \in Ranks
  <2> TAKE q \in Others(t)
  <2> DEFINE x == <<<<r, D>>, Z>>
             y == <<<<t, q>>, setup.smin>>
  <2>1. x \in DOMAIN echoed /\ y \in DOMAIN echoed
    BY <1>2, Counts, RoutePairs DEF TInv, TypeOK
  <2>2. x = y <=> t = r /\ q = D /\ Z = setup.smin
    OBVIOUS
  <2> HIDE DEF x
  <2>3. echoed'[y] = IF x = y THEN echoed[y] + 1 ELSE echoed[y]
    BY <1>1, <2>1 DEF x
  <2> QED BY <1>1, <2>2, <2>3 DEF First
<1>6. ASSUME dealer_node[D] = r, phase[D] \in {"begin", "burst"} PROVE phase[D] = "burst" /\ Z = setup.smin
  <2>1. Starts(b, r, D)
    BY <1>2 DEF Progress
  <2>2. phase[D] = "burst"
    BY <1>1, <1>2, <1>6, <2>1 DEF Starts
  <2>3. First(r, D) # setup.burst_size
    BY <1>2, <1>6, <2>1, PastBurst
  <2>4. ~Passed(r, D, setup.smin)
    BY <1>2, <2>3, Counts DEF Echoes, First
  <2>5. setup.smin \in Nat /\ Z >= setup.smin /\ ~(setup.smin < Z)
    BY <1>2, <2>4, SizeSteps, Numbers DEF Passed
  <2> QED BY <1>2, <2>2, <2>5
<1>7. ASSUME NEW q \in Others(r) PROVE Starts(b, r, q)'
  <2>1. q \in Ranks /\ q # r /\ Starts(b, r, q) /\ <<q, r>> \in Routes
    BY RoutePairs DEF Progress
  <2>2. UNCHANGED <<dealer_node[q], phase[q], left[q]>> /\ ~Undealt(b, r)'
    BY <1>1, <1>2, <2>1 DEF Undealt
  <2>3. CASE q = D /\ phase[D] \in {"begin", "burst"}
    <3>1. phase[q] = "burst" /\ Z = setup.smin
      BY <1>3, <1>6, <2>3
    <3>2. First(r, q) + Len(W) = setup.burst_size - left[q]
      BY <1>2, <1>3, <2>1, <2>3, <3>1 DEF Starts
    <3>3. First(r, q) \in Nat /\ Len(W) \in Nat
      BY <2>3, Counts
    <3>4. Len(Tail(W)) = Len(W) - 1
      <4>1. W \in Seq(Nat)
        BY <1>4 DEF TInv, EInv, Shapes
      <4> QED BY <1>1, <4>1
    <3>5. \A m, n \in Nat : (m + 1) + (n - 1) = m + n
      OBVIOUS
    <3>6. First(r, q)' + Len(wire'[<<q, r>>]) = First(r, q) + Len(W)
      <4>1. First(r, q)' = First(r, q) + 1
        BY <1>5, <2>3, <3>1
      <4>2. Len(wire'[<<q, r>>]) = Len(W) - 1
        BY <1>4, <2>3, <3>4
      <4> HIDE DEF W
      <4> QED BY <3>3, <3>5, <4>1, <4>2
    <3> HIDE DEF W
    <3> QED BY <1>1, <2>2, <3>1, <3>2, <3>6 DEF Starts
  <2>4. CASE q = D /\ phase[D] \notin {"begin", "burst"}
    BY <2>2, <2>4 DEF Starts
  <2>5. CASE q # D
    <3>1. First(r, q)' = First(r, q) /\ wire'[<<q, r>>] = wire[<<q, r>>]
      BY <1>4, <1>5, <2>1, <2>5
    <3>2. Deals(r)
      BY <1>2
    <3> HIDE DEF D, Z, W
    <3> QED BY <1>1, <2>1, <2>2, <3>1, <3>2, StartsStays
  <2> QED BY <2>3, <2>4, <2>5
<1>8. ASSUME NEW t \in Ranks \ {r}, NEW q \in Others(t) PROVE Starts(b, t, q)'
  <2>1. q \in Ranks /\ Starts(b, t, q) /\ <<q, t>> \in Routes
    BY RoutePairs DEF Progress
  <2>2. CASE q = r
    BY <1>1, <1>2, <2>2 DEF Starts
  <2>3. CASE q # r
    <3>1. (Undealt(b, t)' <=> Undealt(b, t)) /\ (Deals(t)' <=> Deals(t))
      BY <1>1 DEF Undealt, Deals
    <3> QED BY <1>1, <1>4, <1>5, <2>1, <2>3, <3>1, StartsStays
  <2> QED BY <2>2, <2>3
<1>9. ASSUME NEW q \in Others(b) PROVE Final(b, q)'
  <2>1. q \in Ranks /\ q # b /\ Final(b, q) /\ <<b, q>> \in Routes
    BY RoutePairs DEF Progress
  <2>2. CASE b = r
    <3>1. q \in Nat /\ NextDest(0, b) <= q /\ NextDest(0, b) \in Nat
      BY <1>2, FirstDest
    <3>2. ~(q < NextDest(0, b))
      BY <3>1
    <3> QED BY <1>1, <1>2, <2>2, <3>2 DEF Final, Told
  <2>3. CASE b # r
    <3>1. q = r => ~In(b, q)'
      BY <1>1, <1>2, <2>3 DEF In
    <3>2. (Told(b, q)' => Told(b, q)) /\ (In(b, q)' /\ q # r => In(b, q))
      BY <1>1, <2>1, <2>3 DEF Told, In
    <3>3. q # r => wire'[<<b, q>>] = wire[<<b, q>>]
      BY <1>4, <2>1
    <3> QED BY <1>1, <2>1, <3>1, <3>2, <3>3, FinalStays
  <2> QED BY <2>2, <2>3
<1> QED BY <1>1, <1>7, <1>8, <1>9, SameSetup DEF Progress

\* The kill message goes to a slave that is at rest.
LEMMA SendKillProgress ==
  ASSUME TInv, Roles, NEW b \in Ranks, Apart(b), Progress(b), NEW r \in Ranks, SendKill(r)
  PROVE  Progress(b)'
<1> DEFINE D == dest_node[r]
<1>1. /\ UNCHANGED <<setup, dealer_node, left, echoed>> /\ phase[r] = "kill"
      /\ wire' = Sent(r, D, Kill)
      /\ phase'[r] = IF LastDest(r) THEN "end" ELSE "kill"
      /\ \A t \in Ranks \ {r} : phase'[t] = phase[t]
      /\ ~LastDest(r) => dest_node'[r] = NextDest(D + 1, r)
  BY DEF SendKill, TInv, TypeOK
<1>2. r = b /\ dealer_node[b] = b
  BY <1>1, Alone DEF TInv
<1>3. /\ Deals(b) /\ setup \in Setups /\ D \in Others(b) /\ D \in Ranks /\ D # b
      /\ \A s \in Others(b), n \in Sizes : echoed[<<<<b, s>>, n>>] = setup.burst_size
  <2>1. Deals(b) /\ setup \in Setups /\ Dealing(b)
    BY <1>1, <1>2 DEF Deals, TInv, EInv, Shapes
  <2>2. D \in Others(b) /\ D \in Ranks /\ D # b
    BY <1>2, <2>1, RoutePairs DEF Dealing
  <2>3. \A s \in Others(b), n \in Sizes : echoed[<<<<b, s>>, n>>] = setup.burst_size
    BY <1>1, <1>2, <2>1 DEF Dealing, Echoes
  <2> QED BY <2>1, <2>2, <2>3
<1>4. /\ <<b, D>> \in Routes /\ wire'[<<b, D>>] = Append(wire[<<b, D>>], Kill)
      /\ \A p \in Routes : p # <<b, D>> => wire'[p] = wire[p]
  BY <1>1, <1>2, <1>3, RoutePairs DEF Sent, TInv, TypeOK
<1>5. ASSUME NEW t \in Ranks, NEW q \in Others(t) PROVE Starts(b, t, q)'
  <2>1. q \in Ranks /\ q # t /\ Starts(b, t, q) /\ <<q, t>> \in Routes
    BY RoutePairs DEF Progress
  <2>2. First(t, q)' = First(t, q)
    BY <1>1 DEF First
  <2>3. CASE q = b
    <3>1. dealer_node'[q] # t
      BY <1>1, <1>2, <2>1, <2>3
    <3> QED BY <3>1 DEF Starts
  <2>4. CASE q # b
    <3>1. wire'[<<q, t>>] = wire[<<q, t>>]
      BY <1>4, <2>1, <2>4
    <3>2. (Undealt(b, t)' => Undealt(b, t)) /\ (Deals(t)' => Deals(t))
      BY <1>1, <1>2 DEF Undealt, Deals
    <3> QED BY <1>1, <1>2, <2>1, <2>2, <2>4, <3>1, <3>2, StartsStays
  <2> QED BY <2>3, <2>4
<1>6. phase[D] = "rest"
  <2>1. dealer_node[D] = b /\ phase[D] # "end"
    <3>1. D \in Nat /\ D >= D
      BY <1>3, FirstDest
    <3> QED BY <1>1, <1>2, <1>3, <3>1 DEF Apart, Open, In
  <2>2. phase[D] \notin {"begin", "burst"}
    <3>1. First(b, D) = setup.burst_size
      BY <1>3, Counts DEF First
    <3> QED BY <1>3, <2>1, <3>1, PastBurst DEF Progress
  <2>3. ~Deals(D)
    BY <1>3, <2>1 DEF Roles, Role
  <2>4. phase[D] # "done"
    <3>1. b # setup.mpi_size
      BY <1>3, Numbers DEF Ranks
    <3> QED BY <1>3, <2>1, <3>1 DEF Roles, Role
  <2>5. phase[D] \in Phases
    BY <1>3 DEF TInv, EInv, Shapes
  <2> QED BY <2>1, <2>2, <2>3, <2>4, <2>5 DEF Phases, Deals
<1>7. ASSUME NEW q \in Others(b) PROVE Final(b, q)'
  <2>1. q \in Ranks /\ q # b /\ Final(b, q) /\ <<b, q>> \in Routes
    BY RoutePairs DEF Progress
  <2>2. CASE q = D
    <3>1. wire'[<<b, q>>] # <<>>
      <4>1. wire[<<b, D>>] \in Seq(Nat) /\ Kill \in Nat
        BY <1>4 DEF TInv, EInv, Shapes, Kill
      <4> QED BY <1>4, <2>2, <4>1
    <3> QED BY <1>1, <1>2, <1>6, <2>1, <2>2, <3>1 DEF Final
  <2>3. CASE q # D
    <3>1. wire'[<<b, q>>] = wire[<<b, q>>]
      BY <1>4, <2>1, <2>3
    <3>2. (In(b, q)' => In(b, q)) /\ phase'[q] = phase[q]
      BY <1>1, <1>2, <2>1 DEF In
    <3>3. Told(b, q)' => q <= D
      <4>1. LastDest(b) => q <= D
        BY <1>2, <1>3, DestSteps DEF LastDest
      <4>2. ~LastDest(b) /\ q < NextDest(D + 1, b) => q <= D
        BY <1>2, <1>3, DestSteps DEF LastDest
      <4> QED BY <1>1, <1>2, <4>1, <4>2 DEF Told
    <3>4. q <= D => Told(b, q)
      <4>1. q \in Nat /\ D \in Nat
        BY <1>3, FirstDest
      <4>2. q <= D => q < D
        BY <2>3, <4>1
      <4> QED BY <1>1, <1>2, <4>2 DEF Told
    <3> HIDE DEF D
    <3> QED BY <2>1, <3>1, <3>2, <3>3, <3>4, FinalStays
  <2> QED BY <2>2, <2>3
<1> QED BY <1>1, <1>5, <1>7, SameSetup DEF Progress

\* A slave's receive comes from a dealer that deals, or is the kill message of the
\* hindmost round, which finds it at rest.
LEMMA SlaveProgress ==
  ASSUME TInv, Roles, NEW b \in Ranks, Apart(b), Progress(b), NEW r \in Ranks, NEW s \in Others(r),
         SlaveBurst(r, s) \/ SlaveRest(r, s), s = dealer_node[r]
  PROVE  Progress(b)'
<1> DEFINE W == wire[<<s, r>>]
           V == wire[<<r, s>>]
<1>1. /\ UNCHANGED <<setup, dealer_node, dest_node, echoed>> /\ phase[r] \in {"burst", "rest"}
      /\ W # <<>> /\ Echo(r, s)
      /\ \A t \in Ranks \ {r} : UNCHANGED <<phase[t], left[t]>>
  BY DEF SlaveBurst, SlaveRest, Waiting, TInv, TypeOK
<1>2. /\ phase[r] = "burst" => /\ left'[r] = left[r] - 1
                               /\ phase'[r] = IF left[r] = 1 THEN "rest" ELSE "burst"
      /\ phase[r] = "rest" => phase'[r] = IF Head(W) = Kill THEN "end" ELSE "rest"
  BY DEF SlaveBurst, SlaveRest, EndsSlave, TInv, TypeOK
<1>3. /\ s \in Ranks /\ s # r /\ r \in Others(s)
      /\ <<s, r>> \in Routes /\ <<r, s>> \in Routes /\ <<s, r>> # <<r, s>>
      /\ W \in Seq(Nat) /\ V \in Seq(Nat) /\ Head(W) \in Nat
  <2>1. s \in Ranks /\ s # r /\ <<s, r>> \in Routes /\ <<r, s>> \in Routes
    BY RoutePairs
  <2>2. W \in Seq(Nat) /\ V \in Seq(Nat)
    BY <2>1 DEF TInv, EInv, Shapes
  <2> QED BY <1>1, <2>1, <2>2 DEF Others
<1>4. /\ wire'[<<r, s>>] = IF Head(W) = Kill THEN V ELSE Append(V, Head(W))
      /\ \A t, q : <<t, q>> \in Routes /\ ~(t = s /\ q = r) /\ ~(t = r /\ q = s)
           => wire'[<<t, q>>] = wire[<<t, q>>]
  <2>1. /\ Taken(s, r) \in [Routes -> Seq(Nat)] /\ Taken(s, r)[<<r, s>>] = V
        /\ \A p \in Routes : p # <<s, r>> => Taken(s, r)[p] = wire[p]
    <3>1. wire \in [Routes -> Seq(Nat)]
      BY DEF TInv, EInv, Shapes
    <3>2. Taken(s, r) \in [Routes -> Seq(Nat)] /\ Taken(s, r)[<<r, s>>] = V
      BY <1>1, <3>1, OnTheWire DEF Waiting
    <3>3. \A p \in Routes : p # <<s, r>> => Taken(s, r)[p] = wire[p]
      BY <3>1 DEF Taken
    <3> QED BY <3>2, <3>3
  <2>2. CASE Head(W) = Kill
    BY <1>1, <1>3, <2>1, <2>2 DEF Echo
  <2>3. CASE Head(W) # Kill
    <3>1. wire' = [Taken(s, r) EXCEPT ![<<r, s>>] = Append(V, Head(W))]
      BY <1>1, <2>1, <2>3 DEF Echo
    <3> QED BY <1>3, <2>1, <2>3, <3>1
  <2> QED BY <2>2, <2>3
<1>5. Busy(s) => Head(W) # Kill /\ ~Undealt(b, s)
  <2> SUFFICES ASSUME Busy(s) PROVE Head(W) # Kill /\ ~Undealt(b, s)
    OBVIOUS
  <2>1. Exchange(s, r) /\ dealer_node[s] = s /\ phase[s] # "begin"
    BY <1>3 DEF Roles, Role, Outstanding, Busy, Deals
  <2>2. Head(W) = W[1] /\ 1 \in 1..Len(W)
    BY <1>1, <1>3
  <2> QED BY <2>1, <2>2 DEF Exchange, Undealt
<1>6. ~Busy(s) => /\ s = b /\ Head(W) = Kill /\ In(b, r) /\ Told(b, r) /\ phase[r] = "rest"
                  /\ ~Undealt(b, s)
  <2> SUFFICES ASSUME ~Busy(s)
               PROVE  /\ s = b /\ Head(W) = Kill /\ In(b, r) /\ Told(b, r) /\ phase[r] = "rest"
                      /\ ~Undealt(b, s)
    OBVIOUS
  <2>1. ~Busy(r)
    BY <1>1 DEF Busy
  <2>2. s = b /\ W = <<Kill>> /\ In(b, r) /\ Told(b, r)
    BY <1>1, <1>3, <2>1 DEF Apart, Kills
  <2>3. phase[r] = "rest"
    BY <1>3, <2>2 DEF Progress, Final
  <2>4. ~Undealt(b, s)
    BY <2>2 DEF Told, Undealt
  <2>5. Head(W) = Kill
    BY <2>2
  <2> HIDE DEF W
  <2> QED BY <2>2, <2>3, <2>4, <2>5
<1>7. \A t \in Ranks : \A q \in Others(t) : First(t, q)' = First(t, q)
  BY <1>1 DEF First
<1>8. \A t \in Ranks : (Undealt(b, t)' => Undealt(b, t)) /\ (Deals(t)' => Deals(t))
  <2>1. \A t \in Ranks : Undealt(b, t)' => Undealt(b, t)
    BY <1>1, <1>3 DEF Undealt
  <2>2. ~Deals(r)'
    BY <1>1, <1>2 DEF Deals
  <2> QED BY <1>1, <2>1, <2>2 DEF Deals
<1>9. ASSUME NEW t \in Ranks, NEW q \in Others(t) PROVE Starts(b, t, q)'
  <2>1. q \in Ranks /\ q # t /\ Starts(b, t, q) /\ <<q, t>> \in Routes
    BY RoutePairs DEF Progress
  <2>2. CASE q = r /\ t = s /\ phase[r] = "burst" /\ phase'[r] = "burst"
    <3>1. Busy(s) /\ left'[r] = left[r] - 1 /\ Head(W) # Kill
      BY <1>2, <1>5, <1>6, <2>2
    <3>2. Deals(s) /\ First(s, r) + Len(V) = setup.burst_size - left[r]
      BY <2>1, <2>2, <3>1 DEF Starts, Deals, Busy
    <3>3. Len(wire'[<<r, s>>]) = Len(V) + 1
      <4>1. wire'[<<r, s>>] = Append(V, Head(W))
        BY <1>4, <3>1
      <4>2. \A v \in Seq(Nat), n \in Nat : Len(Append(v, n)) = Len(v) + 1
        OBVIOUS
      <4> HIDE DEF V, W
      <4> QED BY <1>3, <4>1, <4>2
    <3>4. /\ First(s, r) \in Nat /\ Len(V) \in Nat /\ setup.burst_size \in Nat /\ left[r] \in Nat
      BY <1>3, Counts
    <3>5. First(s, r) + (Len(V) + 1) = setup.burst_size - (left[r] - 1)
      <4> DEFINE f == First(s, r)
                 l == Len(V)
                 n == setup.burst_size
                 m == left[r]
      <4>1. f \in Nat /\ l \in Nat /\ n \in Nat /\ m \in Nat /\ f + l = n - m
        BY <3>2, <3>4
      <4> HIDE DEF f, l, n, m
      <4>2. f + (l + 1) = n - (m - 1)
        BY <4>1
      <4> QED BY <4>2 DEF f, l, n, m
    <3>6. First(s, r)' + Len(wire'[<<r, s>>]) = setup.burst_size - left'[r]
      <4>1. First(s, r)' = First(s, r)
        BY <1>3, <1>7
      <4> HIDE DEF V
      <4> QED BY <3>1, <3>3, <3>5, <4>1
    <3> QED BY <1>1, <1>5, <1>8, <2>2, <3>1, <3>6 DEF Starts
  <2>3. CASE q = r /\ t = s /\ ~(phase[r] = "burst" /\ phase'[r] = "burst")
    <3>1. phase'[r] \notin {"begin", "burst"} /\ ~Undealt(b, s)'
      BY <1>1, <1>2, <1>3, <1>5, <1>6, <1>8, <2>3
    <3> QED BY <2>3, <3>1 DEF Starts
  <2>4. CASE q = r /\ t # s
    BY <1>1, <2>4 DEF Starts
  <2>5. CASE q # r
    <3>1. Deals(t)' => wire'[<<q, t>>] = wire[<<q, t>>]
      <4>1. t = r => ~Deals(t)'
        BY <1>1, <1>2 DEF Deals
      <4> QED BY <1>4, <2>1, <2>5, <4>1
    <3> QED BY <1>1, <1>7, <1>8, <2>1, <2>5, <3>1, StartsStays
  <2> QED BY <2>2, <2>3, <2>4, <2>5
<1>10. ASSUME NEW q \in Others(b) PROVE Final(b, q)'
  <2>1. q \in Ranks /\ q # b /\ Final(b, q) /\ <<b, q>> \in Routes
    BY RoutePairs DEF Progress
  <2>2. Told(b, q)' => Told(b, q)
    <3>1. CASE b = r
      BY <1>1, <1>3, <3>1 DEF Told
    <3>2. CASE b # r
      BY <1>1, <3>2 DEF Told
    <3> QED BY <3>1, <3>2
  <2>3. CASE q = r
    <3>1. CASE Busy(s)
      <4>1. s = b => dealer_node[b] = b /\ phase[b] \in {"send", "wait"}
        BY <1>3, <3>1 DEF Roles, Role, Deals, Busy
      <4>2. ~(In(b, r) /\ Told(b, r))
        BY <4>1 DEF In, Told
      <4>3. In(b, r)' => dealer_node[r] = b
        BY <1>1 DEF In
      <4>4. s = b => ~Told(b, r)
        BY <4>1 DEF Told
      <4> QED BY <2>2, <2>3, <4>3, <4>4 DEF Final
    <3>2. CASE ~Busy(s)
      BY <1>2, <1>6, <2>3, <3>2 DEF Final, In
    <3> QED BY <3>1, <3>2
  <2>4. CASE q # r
    <3>1. In(b, q)' => In(b, q)
      BY <1>1, <2>1, <2>4 DEF In
    <3>2. CASE b = r /\ q = s
      <4>1. V # <<>> => wire'[<<b, q>>] # <<>>
        <5>1. wire'[<<b, q>>] = IF Head(W) = Kill THEN V ELSE Append(V, Head(W))
          BY <1>4, <3>2
        <5>2. Append(V, Head(W)) # <<>>
          <6>1. \A v \in Seq(Nat), n \in Nat : Append(v, n) # <<>>
            OBVIOUS
          <6> QED BY <1>3, <6>1
        <5> HIDE DEF V, W
        <5> QED BY <5>1, <5>2
      <4>2. phase'[q] = phase[q]
        BY <1>1, <2>1, <2>4
      <4> QED BY <2>1, <2>2, <3>1, <3>2, <4>1, <4>2 DEF Final
    <3>3. CASE ~(b = r /\ q = s)
      <4>1. wire'[<<b, q>>] = wire[<<b, q>>]
        BY <1>4, <2>1, <2>4, <3>3
      <4> QED BY <1>1, <2>1, <2>2, <2>4, <3>1, <4>1, FinalStays
    <3> QED BY <3>2, <3>3
  <2> QED BY <2>3, <2>4
<1> QED BY <1>1, <1>9, <1>10, SameSetup DEF Progress

\* A rank that goes on finds its new dealer not dealing yet, or counts for nothing
\* with it so far.
LEMMA NextRoundProgress ==
  ASSUME TInv, Roles, NEW b \in Ranks, Apart(b), Progress(b), NEW r \in Ranks, NextRound(r),
         NEW c \in Ranks, Moved(b, c)
  PROVE  Progress(c)'
<1>1. /\ UNCHANGED <<setup, dest_node, left, wire, echoed>> /\ phase[r] = "end"
      /\ phase'[r] \in {"begin", "done"}
      /\ \A t \in Ranks \ {r} : UNCHANGED <<phase[t], dealer_node[t]>>
  BY DEF NextRound, TInv, TypeOK
<1>2. /\ dealer_node[r] = b /\ Nx(b) # b /\ ~Busy(b) /\ EInv
      /\ \A t \in Ranks : phase[t] = "kill" => t = b /\ dealer_node[b] = b
  BY <1>1, Alone DEF TInv
<1>3. /\ dealer_node'[r] \in Ranks => phase'[r] = "begin"
      /\ dealer_node'[r] \in Ranks => dealer_node'[r] = Nx(b)
  <2>1. setup.mpi_size \in Nat /\ setup.mpi_size > 1 /\ setup.interval \in BOOLEAN /\ b \in Nat
    BY <1>2, Numbers DEF EInv, Shapes, Ranks
  <2>2. /\ dealer_node'[r] = IF b + 1 = setup.mpi_size /\ setup.interval THEN 0 ELSE b + 1
        /\ phase'[r] = IF b + 1 = setup.mpi_size /\ ~setup.interval THEN "done" ELSE "begin"
    BY <1>2 DEF NextRound, EInv, Shapes
  <2>3. b + 1 = setup.mpi_size => b + 1 \notin Ranks
    BY <2>1 DEF Ranks
  <2>4. b + 1 = setup.mpi_size <=> b = setup.mpi_size - 1
    BY <2>1
  <2> QED BY <2>2, <2>3, <2>4 DEF Nx
<1>4. \A t \in Ranks : \A q \in Others(t) : First(t, q)' = First(t, q)
  BY <1>1 DEF First
<1>5. \A t \in Ranks : Deals(t)' => Deals(t) /\ t # r
  BY <1>1 DEF Deals
<1>6. ASSUME NEW q \in Others(c) PROVE Final(c, q)'
  <2>1. q \in Ranks /\ q # c
    BY DEF Others
  <2>2. CASE c = b
    <3>1. Final(b, q)
      BY <2>2 DEF Progress
    <3>2. q = r => ~In(b, q)'
      <4>1. q = r => dealer_node'[q] # b
        BY <1>2, <1>3
      <4> QED BY <4>1 DEF In
    <3>3. In(b, q)' => In(b, q)
      BY <1>1, <2>1, <3>2 DEF In
    <3>4. Told(b, q)' => Told(b, q)
      <4>1. CASE b = r
        BY <1>1, <4>1 DEF Told
      <4>2. CASE b # r
        BY <1>1, <4>2 DEF Told
      <4> QED BY <4>1, <4>2
    <3> QED BY <1>1, <2>1, <2>2, <3>1, <3>2, <3>3, <3>4, FinalStays
  <2>3. CASE c # b
    BY <2>3 DEF Moved, Final, Told
  <2> QED BY <2>2, <2>3
<1>7. ASSUME NEW t \in Ranks, NEW q \in Others(t), dealer_node'[q] = t PROVE Starts(c, t, q)'
  <2>1. q \in Ranks /\ q # t /\ Starts(b, t, q) /\ setup \in Setups
    BY RoutePairs DEF Progress, TInv, TypeOK
  <2>2. CASE q = r
    <3>1. phase'[q] = "begin" /\ t = Nx(b)
      BY <1>3, <1>7, <2>2
    <3>2. ASSUME Deals(t)' PROVE wire'[<<q, t>>] = <<>> /\ First(t, q)' = 0
      <4>1. Busy(t)
        BY <1>2, <1>5, <3>1, <3>2 DEF Deals, Busy
      <4>2. ~Heard(t, q)
        BY <1>2, <2>2, <3>1, <4>1 DEF Roles, Outstanding, Exchange
      <4>3. setup.smin \in Sizes /\ First(t, q) \in Nat
        BY Counts
      <4>4. wire[<<q, t>>] = <<>> /\ ~(First(t, q) > 0)
        BY <4>2, <4>3 DEF Heard, First
      <4>5. First(t, q) = 0
        BY <4>3, <4>4
      <4> QED BY <1>1, <1>4, <4>4, <4>5
    <3> QED BY <3>1, <3>2 DEF Starts
  <2>3. CASE q # r
    <3>1. dealer_node[q] = t
      BY <1>1, <1>7, <2>1, <2>3
    <3>2. Undealt(c, t)' => Undealt(b, t)
      <4> SUFFICES ASSUME Undealt(c, t)' PROVE Undealt(b, t)
        OBVIOUS
      <4>1. CASE c = b /\ t # r
        BY <1>1, <4>1 DEF Undealt
      <4>2. CASE c = b /\ t = r
        <5>1. t # b
          <6>1. t = b => dealer_node'[b] # b
            BY <1>2, <1>3, <4>2
          <6> QED BY <4>2, <6>1 DEF Undealt
        <5> QED BY <1>2, <4>2, <5>1 DEF Undealt
      <4>3. CASE c # b
        <5>1. t = c /\ dealer_node'[t] = t /\ t # b
          BY <1>7, <2>1, <4>3 DEF Moved
        <5>2. phase'[t] = "begin"
          BY <5>1 DEF Undealt
        <5>3. CASE t = r
          BY <1>2, <5>1, <5>3 DEF Undealt
        <5>4. CASE t # r
          BY <1>1, <5>1, <5>2, <5>4 DEF Undealt
        <5> QED BY <5>3, <5>4
      <4> QED BY <4>1, <4>2, <4>3
    <3> QED BY <1>1, <1>4, <1>5, <2>1, <2>3, <3>2, StartsStays
  <2> QED BY <2>2, <2>3
<1>8. \A t \in Ranks : \A q \in Others(t) : Starts(c, t, q)'
  BY <1>7 DEF Starts
<1> QED BY <1>1, <1>6, <1>8, SameSetup DEF Progress

LEMMA StepProgress ==
  ASSUME SInv, [Next]_vars
  PROVE  SInv'
<1>1. TInv /\ TInv' /\ EInv
  BY StepTypes DEF SInv, TInv
<1>2. CASE UNCHANGED vars
  <2>1. ASSUME Roles, NEW b \in Ranks, Apart(b), Progress(b), ~AllDone, ~overtaken
        PROVE  Roles' /\ Apart(b)' /\ Progress(b)'
    <3>1. \A t \in Ranks : Role(t)' /\ Outstanding(t)'
      <4>1. \A t \in Ranks : Role(t) => Role(t)'
        BY <1>2, SameSetup DEF vars, Role, Deals
      <4>2. \A t \in Ranks : Outstanding(t) => Outstanding(t)'
        BY <1>2, OutstandingStays DEF vars
      <4> QED BY <2>1, <4>1, <4>2 DEF Roles
    <3>2. Apart(b)'
      BY <1>2, <2>1, SameSetup, SameRound DEF vars, Apart, Near, Open, Kills, In, Told, Busy
    <3>3. \A r \in Ranks : \A q \in Others(r) : Starts(b, r, q)'
      BY <1>2, <2>1, StartsStays DEF vars, Progress, Undealt, Deals, First
    <3>4. \A q \in Others(b) : Final(b, q)'
      BY <1>2, <2>1, FinalStays DEF vars, Progress, In, Told
    <3> QED BY <1>2, <3>1, <3>2, <3>3, <3>4, SameSetup DEF vars, Roles, Progress
  <2>2. AllDone => AllDone'
    BY <1>2, SameSetup DEF vars, AllDone
  <2> QED BY <1>1, <1>2, <2>1, <2>2, SameSetup DEF SInv, vars
<1>3. ASSUME Abort PROVE AllDone'
  BY <1>3, SameSetup DEF Abort, AllDone
<1>4. ASSUME NEW r \in Ranks, Step(r), ~overtaken', Roles, NEW b \in Ranks, Apart(b), Progress(b)
      PROVE  AllDone' \/ (Roles' /\ \E c \in Ranks' : Apart(c)' /\ Progress(c)')
  <2>1. setup' = setup
    BY <1>4, StepSetup
  <2>2. CASE \E s \in Others(r) : SlaveBurst(r, s) \/ SlaveRest(r, s)
    <3>1. PICK s \in Others(r) : SlaveBurst(r, s) \/ SlaveRest(r, s)
      BY <2>2
    <3>2. s = dealer_node[r]
      BY <1>4, <3>1 DEF SlaveBurst, SlaveRest
    <3>3. Roles' /\ Apart(b)' /\ Progress(b)'
      BY <1>1, <1>4, <3>1, <3>2, SlaveRounds, SlaveProgress
    <3> QED BY <1>4, <2>1, <3>3, SameSetup
  <2>3. CASE NextRound(r)
    <3>1. AllDone' \/ (Roles' /\ \E c \in Ranks : Apart(c)' /\ Moved(b, c))
      BY <1>1, <1>4, <2>3, NextRoundRounds
    <3>2. \A c \in Ranks : Moved(b, c) => Progress(c)'
      BY <1>1, <1>4, <2>3, NextRoundProgress
    <3> QED BY <2>1, <3>1, <3>2, SameSetup
  <2>4. CASE BeginDealer(r) \/ BeginSlave(r) \/ SendBurst(r)
    <3>1. Roles' /\ Apart(b)'
      BY <1>1, <1>4, <2>4, BeginDealerRounds, BeginSlaveRounds, SendBurstRounds
    <3>2. Progress(b)'
      BY <1>1, <1>4, <2>4, <3>1, BeginDealerProgress, BeginSlaveProgress, SendBurstProgress
    <3> QED BY <1>4, <2>1, <3>1, <3>2, SameSetup
  <2>5. CASE WaitBurst(r) \/ SendKill(r)
    <3>1. Roles' /\ Apart(b)'
      BY <1>1, <1>4, <2>5, WaitBurstRounds, SendKillRounds
    <3>2. Progress(b)'
      BY <1>1, <1>4, <2>5, WaitBurstProgress, SendKillProgress
    <3> QED BY <1>4, <2>1, <3>1, <3>2, SameSetup
  <2> QED BY <1>4, <2>2, <2>3, <2>4, <2>5 DEF Step
<1>5. ASSUME Next PROVE SInv'
  <2>1. overtaken' \/ AllDone' \/ (Roles' /\ \E c \in Ranks' : Apart(c)' /\ Progress(c)')
    BY <1>1, <1>3, <1>4, <1>5, OvertakenStays, DoneIsDone DEF SInv, Next
  <2> QED BY <1>1, <2>1 DEF SInv
<1> QED BY <1>2, <1>5

\* What a rank needs for its next step.
CanStep(r) ==
  \/ phase[r] \in {"begin", "send", "kill", "end"}
  \/ phase[r] = "wait" /\ Waiting(dest_node[r], r)
  \/ phase[r] \in {"burst", "rest"} /\ \E s \in Others(r) : Waiting(s, r)

NeverStuck == AllDone \/ overtaken \/ \E r \in Ranks : CanStep(r)

LEMMA MovesOfSInv == SInv => NeverStuck
<1> SUFFICES ASSUME SInv, ~AllDone, ~overtaken, \A r \in Ranks : ~CanStep(r)
             PROVE  FALSE
  BY DEF NeverStuck
<1>1. Roles /\ TInv /\ EInv /\ setup \in Setups
  BY DEF SInv, TInv, EInv, Shapes
<1>2. PICK b \in Ranks : Apart(b) /\ Progress(b)
  BY DEF SInv
<1>3. \A r \in Ranks : phase[r] \in {"wait", "burst", "rest", "done"}
  BY <1>1 DEF CanStep, EInv, Shapes, Phases
<1>4. b # setup.mpi_size
  BY <1>1, Numbers DEF Ranks
<1>5. \A r \in Ranks : phase[r] # "wait"
  <2> SUFFICES ASSUME NEW r \in Ranks, phase[r] = "wait" PROVE FALSE
    OBVIOUS
  <2> DEFINE D == dest_node[r]
  <2>1. /\ Busy(r) /\ D \in Others(r) /\ D \in Ranks /\ D # r /\ r \in Others(D)
        /\ left[r] \in Nat /\ left[r] >= 1
    <3>1. Deals(r) /\ Busy(r)
      BY DEF Deals, Busy
    <3>2. D \in Others(r) /\ left[r] \in 1..setup.burst_size
      BY <1>1, <3>1 DEF EInv, Dealing
    <3>3. left[r] \in Nat /\ left[r] >= 1
      BY <1>1, <3>2, Numbers
    <3>4. D \in Ranks /\ D # r /\ r \in Others(D)
      BY <1>1, <3>2, Counts
    <3> QED BY <3>1, <3>2, <3>3, <3>4
  <2>2. Len(wire[<<r, D>>]) + Len(wire[<<D, r>>]) = left[r]
    BY <1>1, <2>1 DEF Roles, Outstanding, Exchange, Owed
  <2>3. wire[<<D, r>>] = <<>>
    BY DEF CanStep, Waiting
  <2>4. Waiting(r, D)
    <3>1. Len(wire[<<D, r>>]) = 0
      BY <2>3
    <3>2. Len(wire[<<r, D>>]) # 0
      <4>1. Len(wire[<<r, D>>]) \in Nat
        BY <1>1, <2>1, Counts
      <4> QED BY <2>1, <2>2, <3>1, <4>1
    <3> QED BY <3>2 DEF Waiting
  <2>5. phase[D] \notin {"burst", "rest"}
    BY <2>1, <2>4 DEF CanStep
  <2>6. phase[D] # "wait"
    BY <1>1, <1>2, <2>1, Alone DEF Busy
  <2>7. phase[D] # "done"
    <3>1. r = b => dealer_node[D] = b
      BY <1>1, <1>2, <2>1, Alone DEF In
    <3>2. r # b => r = Nx(b)
      BY <1>1, <1>2, <2>1, Alone
    <3>3. dealer_node[D] \in {b, Nx(b)}
      BY <1>2, <2>1 DEF Apart, Near
    <3>4. r # setup.mpi_size
      BY <1>1, Numbers DEF Ranks
    <3> QED BY <1>1, <1>4, <2>1, <3>1, <3>2, <3>3, <3>4 DEF Roles, Role
  <2> QED BY <1>3, <2>1, <2>5, <2>6, <2>7
<1>6. PICK r \in Ranks : dealer_node[r] = b
  BY <1>2 DEF Apart, Near
<1>7. phase[r] \in {"burst", "rest"} /\ b \in Others(r) /\ r \in Others(b) /\ r # b
  <2>1. phase[r] \in {"burst", "rest"}
    BY <1>1, <1>3, <1>4, <1>5, <1>6 DEF Roles, Role
  <2> QED BY <1>1, <1>6, <2>1, Counts DEF Roles, Role
<1>8. In(b, r) /\ Told(b, r)
  <2>1. dealer_node[b] # b
    BY <1>1, <1>3, <1>4, <1>5 DEF Roles, Role, Others
  <2> QED BY <1>6, <1>7, <2>1 DEF In, Told
<1>9. wire[<<b, r>>] # <<>>
  BY <1>2, <1>7, <1>8 DEF Progress, Final
<1> QED BY <1>7, <1>9 DEF CanStep, Waiting

\* Unless a message overtakes a kill message or all ranks are done, some rank can go
\* on, for every number of ranks, sizes and bursts: no dealer waits for an echo that
\* nobody will send, no slave for a kill message that was taken for another message.
THEOREM NobodyWaitsForNothing == Spec => []NeverStuck
BY InitProgress, StepProgress, MovesOfSInv, PTL DEF Spec

\* Unless overtaken, the kill message never falls into the receives of a burst, which
\* do not look at it: the slave would wait for another one for ever.
KillsFindRest ==
  ~overtaken => \A r \in Ranks : phase[r] = "burst" =>
    LET s == dealer_node[r] IN Waiting(s, r) => Head(wire[<<s, r>>]) # Kill

LEMMA RestOfSInv == SInv => KillsFindRest
<1> SUFFICES ASSUME SInv, ~overtaken, NEW r \in Ranks, phase[r] = "burst",
                    NEW s, s = dealer_node[r], Waiting(s, r)
             PROVE  Head(wire[<<s, r>>]) # Kill
  BY DEF KillsFindRest
<1>1. TInv /\ Roles /\ ~Busy(r)
  BY DEF SInv, AllDone, Busy
<1>2. PICK b \in Ranks : Apart(b) /\ Progress(b)
  BY DEF SInv, AllDone
<1>3. s \in Others(r) /\ s \in Ranks /\ r \in Others(s) /\ <<s, r>> \in Routes
  <2>1. s \in Others(r)
    BY <1>1 DEF Roles, Role
  <2> QED BY <1>1, <2>1, Counts
<1>4. Busy(s)
  <2> SUFFICES ASSUME ~Busy(s) PROVE FALSE
    OBVIOUS
  <2>1. s = b /\ In(b, r) /\ Told(b, r)
    BY <1>1, <1>2, <1>3 DEF Apart, Kills, Waiting
  <2> QED BY <1>2, <1>3, <2>1 DEF Progress, Final
<1>5. Exchange(s, r)
  BY <1>1, <1>3, <1>4 DEF Roles, Outstanding
<1>6. Head(wire[<<s, r>>]) = wire[<<s, r>>][1] /\ 1 \in 1..Len(wire[<<s, r>>])
  <2>1. wire[<<s, r>>] \in Seq(Nat) /\ wire[<<s, r>>] # <<>>
    BY <1>1, <1>3 DEF TInv, EInv, Shapes, Waiting
  <2> QED BY <2>1
<1> QED BY <1>5, <1>6 DEF Exchange

\* KillsFindRest, for every number of ranks, sizes and bursts: a slave has taken all
\* the receives of its burst before its dealer sends it the kill message.
THEOREM KillsComeLast == Spec => []KillsFindRest
BY InitProgress, StepProgress, RestOfSInv, PTL DEF Spec
================================================================================
