------------------------------ MODULE RouteCheck ------------------------------
(***************************************************************************)
(* mpi_routecheck.c: every rank in turn is the dealer, which sends bursts  *)
(* of messages of growing sizes to each other rank in turn and waits for   *)
(* their echo, then sends everybody a zero-length kill message; the others *)
(* echo whatever they receive until the kill arrives.                      *)
(*                                                                         *)
(* The slaves receive from any source, and MPI keeps the order of messages *)
(* only between two ranks: nothing keeps a dealer's kill message from      *)
(* arriving after messages of the next dealer.                             *)
(***************************************************************************)
EXTENDS Integers, Sequences, FiniteSets

CONSTANTS
  Setups  \* the command lines of interest

ASSUME RouteCheckAssumption ==
  \A s \in Setups :
    /\ s.mpi_size \in Nat /\ s.mpi_size > 1
    /\ s.smin \in Nat \ {0} /\ s.emax \in Nat /\ s.smin <= s.emax
    /\ s.burst_size \in 1..16   \* MAX_BURST
    /\ s.interval \in BOOLEAN

VARIABLES
  setup,        \* the command line, the same for every rank
  dealer_node,  \* rank -> the dealer of the round it is in; mpi_size at the end
  phase,        \* rank -> where in the round it is
  dest_node,    \* dealer -> the rank it deals to
  data_size,    \* dealer -> the size it sends
  left,         \* rank -> messages of its burst still to come
  wire,         \* <<from, to>> -> sizes of the messages under way, in order
  echoed,       \* history: <<<<dealer, slave>>, size>> -> echoes of its last round
  overtaken     \* history: a slave received from another than its round's dealer

vars == <<setup, dealer_node, phase, dest_node, data_size, left, wire, echoed, overtaken>>

Ranks == 0..(setup.mpi_size - 1)
Others(r) == Ranks \ {r}
Routes == {p \in Ranks \X Ranks : p[1] # p[2]}

\* The sizes: the smallest, and the double of a size while that is not larger than
\* the greatest; the least such set.
Doubled(S) == setup.smin \in S /\ \A n \in S : n * 2 <= setup.emax => n * 2 \in S
Sizes == {n \in setup.smin..setup.emax :
            \A S \in SUBSET (setup.smin..setup.emax) : Doubled(S) => n \in S}

Kill == 0   \* the length of a kill message
Waiting(from, to) == wire[<<from, to>>] # <<>>
Sent(from, to, size) == [wire EXCEPT ![<<from, to>>] = Append(@, size)]
Taken(from, to) == [wire EXCEPT ![<<from, to>>] = Tail(@)]

\* The rank after n that is not the dealer, or mpi_size when there is none.
NextDest(n, r) == IF n = r THEN n + 1 ELSE n

Init ==
  /\ setup \in Setups
  /\ dealer_node = [r \in Ranks |-> 0]
  /\ phase = [r \in Ranks |-> "begin"]
  /\ dest_node = [r \in Ranks |-> 0]
  /\ data_size = [r \in Ranks |-> 0]
  /\ left = [r \in Ranks |-> 0]
  /\ wire = [p \in Routes |-> <<>>]
  /\ echoed = [x \in Routes \X Sizes |-> 0]
  /\ overtaken = FALSE

\* A rank begins the round as its dealer or as a slave, which posts the receives
\* of a burst at once.
BeginDealer(r) ==
  /\ phase[r] = "begin" /\ dealer_node[r] = r
  /\ phase' = [phase EXCEPT ![r] = "send"]
  /\ dest_node' = [dest_node EXCEPT ![r] = NextDest(0, r)]
  /\ data_size' = [data_size EXCEPT ![r] = setup.smin]
  /\ left' = [left EXCEPT ![r] = setup.burst_size]
  /\ echoed' = [x \in DOMAIN echoed |-> IF x[1][1] = r THEN 0 ELSE echoed[x]]
  /\ UNCHANGED <<setup, dealer_node, wire, overtaken>>

\* Variant: one receive more than the dealer's burst has messages.
OneMoreReceive == setup.burst_size + 1

BurstReceives == setup.burst_size

BeginSlave(r) ==
  /\ phase[r] = "begin" /\ dealer_node[r] \in Others(r)
  /\ phase' = [phase EXCEPT ![r] = "burst"]
  /\ left' = [left EXCEPT ![r] = BurstReceives]
  /\ UNCHANGED <<setup, dealer_node, dest_node, data_size, wire, echoed, overtaken>>

\* The dealer has posted its receives from the destination and sends a burst.
SendBurst(r) ==
  /\ phase[r] = "send"
  /\ wire' = Sent(r, dest_node[r], data_size[r])
  /\ left' = [left EXCEPT ![r] = IF @ = 1 THEN setup.burst_size ELSE @ - 1]
  /\ phase' = [phase EXCEPT ![r] = IF left[r] = 1 THEN "wait" ELSE @]
  /\ UNCHANGED <<setup, dealer_node, dest_node, data_size, echoed, overtaken>>

\* Variant: the largest size is left out.
LastSizeOff(r) == data_size[r] * 2 >= setup.emax

LastSize(r) == data_size[r] * 2 > setup.emax
LastDest(r) == NextDest(dest_node[r] + 1, r) = setup.mpi_size

\* What the dealer does when the last echo of a burst is there: the next size,
\* the next destination with the smallest size, or the kill messages.
NextBurst(r) ==
  /\ data_size' = [data_size EXCEPT ![r] = IF LastSize(r) THEN setup.smin ELSE @ * 2]
  /\ dest_node' = [dest_node EXCEPT ![r] = IF ~LastSize(r) THEN @
                                           ELSE NextDest(IF LastDest(r) THEN 0 ELSE @ + 1, r)]
  /\ phase' = [phase EXCEPT ![r] = IF LastSize(r) /\ LastDest(r) THEN "kill" ELSE "send"]

WaitBurst(r) ==
  /\ phase[r] = "wait"
  /\ Waiting(dest_node[r], r)
  /\ wire' = Taken(dest_node[r], r)
  /\ echoed' = [echoed EXCEPT ![<<<<r, dest_node[r]>>, data_size[r]>>] = @ + 1]
  /\ IF left[r] > 1
     THEN /\ left' = [left EXCEPT ![r] = @ - 1]
          /\ UNCHANGED <<phase, dest_node, data_size>>
     ELSE /\ left' = [left EXCEPT ![r] = setup.burst_size]
          /\ NextBurst(r)
  /\ UNCHANGED <<setup, dealer_node, overtaken>>

SendKill(r) ==
  /\ phase[r] = "kill"
  /\ wire' = Sent(r, dest_node[r], Kill)
  /\ IF LastDest(r)
     THEN phase' = [phase EXCEPT ![r] = "end"] /\ UNCHANGED dest_node
     ELSE dest_node' = [dest_node EXCEPT ![r] = NextDest(@ + 1, r)] /\ UNCHANGED phase
  /\ UNCHANGED <<setup, dealer_node, data_size, left, echoed, overtaken>>

\* A slave echoes what it receives, unless it has length zero.
Echo(r, s) ==
  LET size == Head(wire[<<s, r>>])
  IN  wire' = IF size = Kill THEN Taken(s, r)
              ELSE [Taken(s, r) EXCEPT ![<<r, s>>] = Append(@, size)]

\* The burst the slave posted: a kill message among it is just not echoed.
SlaveBurst(r, s) ==
  /\ phase[r] = "burst"
  /\ Waiting(s, r)
  /\ Echo(r, s)
  /\ left' = [left EXCEPT ![r] = @ - 1]
  /\ phase' = [phase EXCEPT ![r] = IF left[r] = 1 THEN "rest" ELSE @]
  /\ overtaken' = (overtaken \/ s # dealer_node[r])
  /\ UNCHANGED <<setup, dealer_node, dest_node, data_size, echoed>>

\* Variant: the largest message ends the round as well.
EndsSlaveEarly(r, size) == size = Kill \/ size = setup.emax

EndsSlave(r, size) == size = Kill

\* "Process any remaining incoming packets including the kill packet", which
\* ends the slave's round whoever sent it.
SlaveRest(r, s) ==
  /\ phase[r] = "rest"
  /\ Waiting(s, r)
  /\ Echo(r, s)
  /\ phase' = [phase EXCEPT ![r] = IF EndsSlave(r, Head(wire[<<s, r>>])) THEN "end" ELSE @]
  /\ overtaken' = (overtaken \/ s # dealer_node[r])
  /\ UNCHANGED <<setup, dealer_node, dest_node, data_size, left, echoed>>

\* The next dealer's round; with option -interval the rounds begin again after
\* the last one.
NextRound(r) ==
  /\ phase[r] = "end"
  /\ LET next == dealer_node[r] + 1
         again == next = setup.mpi_size /\ setup.interval
         done  == next = setup.mpi_size /\ ~setup.interval
     IN  /\ dealer_node' = [dealer_node EXCEPT ![r] = IF again THEN 0 ELSE next]
         /\ phase' = [phase EXCEPT ![r] = IF done THEN "done" ELSE "begin"]
  /\ UNCHANGED <<setup, dest_node, data_size, left, wire, echoed, overtaken>>

\* Rank 0 aborts the job at the end of a round when the interval is over.
Abort ==
  /\ setup.interval /\ phase[0] = "end"
  /\ phase' = [r \in Ranks |-> "done"]
  /\ UNCHANGED <<setup, dealer_node, dest_node, data_size, left, wire, echoed, overtaken>>

AllDone == \A r \in Ranks : phase[r] = "done"

Step(r) ==
  \/ BeginDealer(r) \/ BeginSlave(r)
  \/ SendBurst(r) \/ WaitBurst(r) \/ SendKill(r)
  \/ \E s \in Others(r) : SlaveBurst(r, s) \/ SlaveRest(r, s)
  \/ NextRound(r)

Next == (\E r \in Ranks : Step(r)) \/ Abort

Spec == Init /\ [][Next]_vars

\* Every process runs and MPI makes progress; after the interval every look at
\* the clock aborts the job.
AllRanks == UNION {0..(s.mpi_size - 1) : s \in Setups}
FairSpec ==
  /\ Spec
  /\ \A r \in AllRanks : WF_vars(r \in Ranks /\ Step(r))
  /\ SF_vars(Abort)

--------------------------------------------------------------------------------

TypeOK ==
  /\ setup \in Setups
  /\ dealer_node \in [Ranks -> 0..setup.mpi_size]
  /\ phase \in [Ranks -> {"begin", "send", "wait", "kill", "burst", "rest", "end", "done"}]
  /\ dest_node \in [Ranks -> Ranks]
  /\ data_size \in [Ranks -> {0} \cup Sizes]
  /\ left \in [Ranks -> 0..setup.burst_size]
  /\ wire \in [Routes -> Seq({Kill} \cup Sizes)]
  /\ echoed \in [Routes \X Sizes -> 0..setup.burst_size]
  /\ overtaken \in BOOLEAN

\* A dealer that goes on to the kill messages has had every message of every
\* size echoed by every other rank, whatever overtakes what.
RoutesExercised ==
  \A r \in Ranks : phase[r] = "kill" =>
    \A s \in Others(r), size \in Sizes : echoed[<<<<r, s>>, size>>] = setup.burst_size

\* Unless a message overtakes a kill message, no rank is more than one round
\* ahead of another.
OneRoundApart ==
  ~overtaken /\ ~AllDone =>
    \A r, s \in Ranks :
      \/ dealer_node[r] - dealer_node[s] \in {-1, 0, 1}
      \/ setup.interval /\ {dealer_node[r], dealer_node[s]} = {0, setup.mpi_size - 1}

\* The program ends by itself, or with the interval, unless a message overtakes
\* a kill message: then a slave can be left waiting for ever.
EndsUnlessOvertaken == <>(AllDone \/ overtaken)
================================================================================
