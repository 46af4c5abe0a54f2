--------------------------- MODULE TokenSmash_proofs ---------------------------
(***************************************************************************)
(* Proofs about TokenSmash, for every topology, size and number of tokens: *)
(* the tags tell all messages apart, a token is in one place, no buffer is *)
(* received into while it is being sent, rank 0 shuts the others down only *)
(* when every token of every dealer has finished, every bounce finds its   *)
(* receive posted, a finished token has visited every neighbour, the       *)
(* integrity checks count what was corrupted, and nobody hangs.            *)
(***************************************************************************)
EXTENDS TokenSmash, FiniteSetTheorems, WellFoundedInduction, TLAPS

\* With at most 255 tokens per dealer, no two tokens share a tag, and no tag is
\* the one of a control word or of a statistics message.
THEOREM TagsDistinct ==
  ASSUME NEW d \in Nat, NEW e \in Nat, NEW j \in 1..255, NEW k \in 1..255
  PROVE  /\ Tag(<<d, j>>) = Tag(<<e, k>>) => d = e /\ j = k
         /\ Tag(<<d, j>>) \notin {GENERIC_TAG, CTRL_WORD_TAG, STATS_TAG}
BY DEF Tag, DEALER_ID, GENERIC_TAG, CTRL_WORD_TAG, STATS_TAG

--------------------------------------------------------------------------------

PCs == {"init", "barrier", "loop", "repost", "left", "gone"}
Status(t) == token_obj[t].status
Finished(d) == {j \in 1..setup.tokens : Status(<<d, j>>) = "FINISHED"}
HeardDone == {i \in Ranks \ {0} : dealer_ctrl[i] = "DONE"}

\* What the proof needs of the types.
Shapes ==
  /\ setup \in Setups
  /\ pc \in [Ranks -> PCs]
  /\ wire = [t \in Tokens |-> wire[t]]
  /\ got = [t \in Tokens |-> got[t]]
  /\ token_obj = [t \in Tokens |-> [edge |-> token_obj[t].edge, cycles |-> token_obj[t].cycles,
                                    status |-> token_obj[t].status]]
  /\ \A t \in Tokens : Status(t) \in {"IDLE", "RUNNING", "FINISHED"}
  /\ tokens_finished \in [Ranks -> Nat]
  /\ ctrl_status \in [Ranks -> {"RUNNING", "DONE"}]
  /\ dealer_ctrl \in [Ranks \ {0} -> {"RUNNING", "DONE"}]
  /\ timeup \in BOOLEAN

\* A running token is in one place, any other in none.
InOnePlace(t) ==
  \/ /\ Status(t) # "RUNNING" /\ wire[t] = <<>> /\ got[t] = {}
  \/ /\ Status(t) = "RUNNING" /\ wire[t] = <<>> /\ \E m \in got[t] : got[t] = {m}
  \/ /\ Status(t) = "RUNNING" /\ wire[t] = <<wire[t][1]>> /\ got[t] = {}

Places ==
  /\ \A t \in Tokens : InOnePlace(t)
  /\ \A t \in Tokens : pc[t[1]] = "init" => Status(t) = "IDLE"

\* The counters and the control words say what they are meant to say.
Counts ==
  /\ \A d \in Dealers : tokens_finished[d] = Cardinality(Finished(d))
  /\ \A d \in Dealers : ctrl_status[d] = "DONE" =>
       \A j \in 1..setup.tokens : Status(<<d, j>>) = "FINISHED"
  /\ \A i \in Ranks \ {0} : <<i, 0>> \in ctrl => ctrl_status[i] = "DONE"
  /\ \A i \in Ranks \ {0} : dealer_ctrl[i] = "DONE" => ctrl_status[i] = "DONE"
  /\ dealers_finished = Cardinality(HeardDone) + (IF ctrl_status[0] = "DONE" THEN 1 ELSE 0)

AllFinished == \A t \in Tokens : Status(t) = "FINISHED"
LeftDone == pc[0] \in {"left", "gone"} /\ ~timeup => AllFinished

IInv == Shapes /\ Places /\ Counts /\ LeftDone

--------------------------------------------------------------------------------
LEMMA IntervalSize ==
  ASSUME NEW n \in Nat
  PROVE  /\ IsFiniteSet(1..n) /\ Cardinality(1..n) = n
         /\ n > 0 => IsFiniteSet(0..(n - 1)) /\ Cardinality(0..(n - 1)) = n
<1>1. IsFiniteSet(1..n) /\ Cardinality(1..n) = IF 1 > n THEN 0 ELSE n - 1 + 1
  BY FS_Interval
<1>2. n > 0 => IsFiniteSet(0..(n - 1)) /\ Cardinality(0..(n - 1)) = IF 0 > n - 1 THEN 0 ELSE n - 1 - 0 + 1
  BY FS_Interval
<1>3. QED BY <1>1, <1>2

\* The numbers of the command line, and which ranks deal.
LEMMA Sizes ==
  ASSUME Shapes
  PROVE  /\ setup.mpi_size \in Nat /\ setup.mpi_size > 1
         /\ setup.tokens \in Nat /\ setup.tokens > 0
         /\ Ranks = 0..(setup.mpi_size - 1) /\ 0 \in Ranks
         /\ Dealers \subseteq Ranks /\ 0 \in Dealers
         /\ Mesh => Dealers = Ranks
<1>1. setup \in Setups
  BY DEF Shapes
<1>2. /\ setup.mpi_size \in Nat /\ setup.mpi_size > 1
      /\ setup.tokens \in 1..255
  BY <1>1, TokenSmashAssumption
<1>3. 0 \in Ranks
  BY <1>2 DEF Ranks
<1>4. Mesh => Dealers = Ranks
  BY DEF Dealers
<1>5. Dealers \subseteq Ranks /\ 0 \in Dealers
  BY <1>3 DEF Dealers
<1>6. setup.tokens \in Nat /\ setup.tokens > 0
  BY <1>2
<1>7. Ranks = 0..(setup.mpi_size - 1)
  BY DEF Ranks
<1>8. QED BY <1>2, <1>3, <1>4, <1>5, <1>6, <1>7

LEMMA TokenParts ==
  ASSUME NEW t \in Tokens
  PROVE  t[1] \in Dealers /\ t[2] \in 1..setup.tokens /\ t = <<t[1], t[2]>>
BY DEF Tokens

\* The command line does not change, nor what is computed from it.
LEMMA SameSetup ==
  ASSUME setup' = setup
  PROVE  /\ Ranks' = Ranks /\ Dealers' = Dealers /\ Tokens' = Tokens /\ Mesh' = Mesh
         /\ \A t : start_edge(t)' = start_edge(t)
BY DEF Ranks, Dealers, Tokens, Mesh, start_edge, num_edges, Edges, Neighbours,
       xplus, xminus, yplus, yminus, zplus, zminus, xsize, plane, space

LEMMA SetupStays ==
  ASSUME [Next]_vars
  PROVE  setup' = setup
<1>1. CASE UNCHANGED vars
  BY <1>1 DEF vars
<1>2. CASE \E r \in Ranks : Start(r) \/ Repost(r)
  BY <1>2 DEF Start, Repost
<1>3. CASE \E r \in Ranks : Handle(r)
  BY <1>3 DEF Handle, FinishToken, DealToken, BounceToken
<1>4. CASE \E t \in Tokens : Deliver(t) \/ Corrupt(t)
  BY <1>4 DEF Deliver, Corrupt
<1>5. CASE \E r \in Ranks, told \in BOOLEAN : ControlOther(r, told)
  BY <1>5 DEF ControlOther
<1>6. CASE \E heard \in SUBSET Unheard : ControlMesh(heard)
  BY <1>6 DEF ControlMesh
<1>7. CASE BeginLoop \/ ControlStar \/ TimeUp \/ EndBarrier \/ Ended
  BY <1>7 DEF BeginLoop, ControlStar, TimeUp, EndBarrier, Ended, vars
<1>8. QED BY <1>1, <1>2, <1>3, <1>4, <1>5, <1>6, <1>7 DEF Next

\* A dealer whose count of finished tokens is the number of its tokens has none
\* left to finish.
LEMMA AllMineFinished ==
  ASSUME Shapes, NEW d \in Dealers, tokens_finished[d] = Cardinality(Finished(d)), AllMine(d)
  PROVE  \A j \in 1..setup.tokens : Status(<<d, j>>) = "FINISHED"
<1>1. setup.tokens \in Nat /\ setup.tokens > 0
  BY Sizes
<1>2. IsFiniteSet(1..setup.tokens) /\ Cardinality(1..setup.tokens) = setup.tokens
  BY <1>1, IntervalSize
<1>3. Finished(d) \in SUBSET (1..setup.tokens)
  BY DEF Finished
<1>4. Finished(d) = 1..setup.tokens
  BY <1>2, <1>3, FS_Subset DEF AllMine
<1>5. QED BY <1>4 DEF Finished

LEMMA FinishedFinite ==
  ASSUME Shapes, NEW d
  PROVE  IsFiniteSet(Finished(d)) /\ Cardinality(Finished(d)) \in Nat
<1>1. IsFiniteSet(1..setup.tokens)
  BY Sizes, IntervalSize
<1>2. Finished(d) \in SUBSET (1..setup.tokens)
  BY DEF Finished
<1>3. QED BY <1>1, <1>2, FS_Subset, FS_CardinalityType

LEMMA HeardFinite ==
  ASSUME Shapes
  PROVE  /\ IsFiniteSet(HeardDone) /\ Cardinality(HeardDone) \in Nat
         /\ IsFiniteSet(Ranks \ {0})
         /\ Cardinality(Ranks \ {0}) = setup.mpi_size - 1
<1>1. IsFiniteSet(Ranks) /\ Cardinality(Ranks) = setup.mpi_size /\ 0 \in Ranks
  BY Sizes, IntervalSize
<1>2. IsFiniteSet(Ranks \ {0}) /\ Cardinality(Ranks \ {0}) = setup.mpi_size - 1
  BY <1>1, FS_RemoveElement
<1>3. HeardDone \in SUBSET (Ranks \ {0})
  BY DEF HeardDone
<1>4. QED BY <1>2, <1>3, FS_Subset, FS_CardinalityType

--------------------------------------------------------------------------------
\* The statuses after a step: a start sets a dealer's tokens running, the last
\* bounce finishes a token, and nothing else changes one.
LEMMA StartStatus ==
  ASSUME IInv, NEW r \in Ranks, Start(r)
  PROVE  /\ token_obj' = [t \in Tokens |-> [edge |-> token_obj'[t].edge,
                             cycles |-> token_obj'[t].cycles, status |-> token_obj'[t].status]]
         /\ \A t \in Tokens : Status(t)' = IF t[1] = r THEN "RUNNING" ELSE Status(t)
BY DEF Start, Status, IInv, Shapes, Object

\* Writing one token's object leaves a table of objects.
LEMMA ObjectWritten ==
  ASSUME Shapes, NEW u \in Tokens, NEW e, NEW c, NEW s,
         token_obj' = [token_obj EXCEPT ![u] = Object(e, c, s)]
  PROVE  /\ token_obj' = [t \in Tokens |-> [edge |-> token_obj'[t].edge,
                             cycles |-> token_obj'[t].cycles, status |-> token_obj'[t].status]]
         /\ \A t \in Tokens : Status(t)' = IF t = u THEN s ELSE Status(t)
<1>1. token_obj = [t \in Tokens |-> [edge |-> token_obj[t].edge, cycles |-> token_obj[t].cycles,
                                    status |-> token_obj[t].status]]
  BY DEF Shapes
<1>2. \A t \in Tokens : token_obj'[t] = IF t = u THEN Object(e, c, s) ELSE token_obj[t]
  BY <1>1
<1>3. \A t \in Tokens : token_obj'[t] = [edge |-> token_obj'[t].edge,
                             cycles |-> token_obj'[t].cycles, status |-> token_obj'[t].status]
  <2> TAKE t \in Tokens
  <2>1. CASE t = u
    BY <1>2, <2>1 DEF Object
  <2>2. CASE t # u
    BY <1>1, <1>2, <2>2
  <2> QED BY <2>1, <2>2
<1>4. token_obj' = [t \in Tokens |-> token_obj'[t]]
  BY <1>1
<1>5. \A t \in Tokens : Status(t)' = IF t = u THEN s ELSE Status(t)
  BY <1>2 DEF Status, Object
<1> QED BY <1>3, <1>4, <1>5

LEMMA FinishStatus ==
  ASSUME IInv, NEW u \in Tokens, NEW m, FinishToken(u, m)
  PROVE  /\ token_obj' = [t \in Tokens |-> [edge |-> token_obj'[t].edge,
                             cycles |-> token_obj'[t].cycles, status |-> token_obj'[t].status]]
         /\ \A t \in Tokens : Status(t)' = IF t = u THEN "FINISHED" ELSE Status(t)
BY ObjectWritten DEF FinishToken, IInv

LEMMA DealStatus ==
  ASSUME IInv, NEW u \in Tokens, NEW m, DealToken(u, m)
  PROVE  /\ token_obj' = [t \in Tokens |-> [edge |-> token_obj'[t].edge,
                             cycles |-> token_obj'[t].cycles, status |-> token_obj'[t].status]]
         /\ \A t \in Tokens : Status(t)' = IF t = u THEN "RUNNING" ELSE Status(t)
<1> DEFINE next == (token_obj[u].edge + 1) % num_edges(u[1])
<1>1. token_obj' = [token_obj EXCEPT ![u] = Object(next, CyclesNow(u), "RUNNING")]
  BY DEF DealToken
<1> HIDE DEF next
<1> QED BY <1>1, ObjectWritten DEF IInv

LEMMA KeepStatus ==
  ASSUME IInv, UNCHANGED <<setup, token_obj>>
  PROVE  /\ token_obj' = [t \in Tokens |-> [edge |-> token_obj'[t].edge,
                             cycles |-> token_obj'[t].cycles, status |-> token_obj'[t].status]]
         /\ \A t \in Tokens : Status(t)' = Status(t)
BY DEF Status, IInv, Shapes

LEMMA OneMessage ==
  ASSUME NEW x
  PROVE  Append(<<>>, x) = <<x>> /\ <<x>> = <<(<<x>>)[1]>> /\ Tail(<<x>>) = <<>>
OBVIOUS

\* The counters stay right in a step that changes no status and no counter.
LEMMA CountsKept ==
  ASSUME IInv, setup' = setup, \A t \in Tokens : Status(t)' = "FINISHED" <=> Status(t) = "FINISHED",
         UNCHANGED <<tokens_finished, control>>
  PROVE  Counts'
<1>1. Ranks' = Ranks /\ Dealers' = Dealers /\ Tokens' = Tokens
  BY SameSetup
<1>2. \A d \in Dealers, j \in 1..setup.tokens : <<d, j>> \in Tokens
  BY DEF Tokens
<1>3. \A d \in Dealers : Finished(d)' = Finished(d)
  BY <1>2 DEF Finished
<1>4. HeardDone' = HeardDone
  BY <1>1 DEF HeardDone, control
<1>5. QED BY <1>1, <1>2, <1>3, <1>4 DEF Counts, IInv, control

--------------------------------------------------------------------------------
\* Init.
LEMMA InitInv == Init => IInv
<1> SUFFICES ASSUME Init PROVE IInv
  OBVIOUS
<1>1. Shapes
  BY DEF Init, Shapes, Object, Status, PCs
<1>2. Places
  BY <1>1, TokenParts, Sizes DEF Init, Places, InOnePlace, Status, Object
<1>3. \A d \in Dealers : Finished(d) = {}
  <2>1. \A d \in Dealers, j \in 1..setup.tokens : <<d, j>> \in Tokens
    BY DEF Tokens
  <2>2. \A t \in Tokens : Status(t) = "IDLE"
    BY DEF Init, Status, Object
  <2>3. QED BY <2>1, <2>2 DEF Finished
<1>4. HeardDone = {}
  BY DEF Init, HeardDone
<1>5. Counts
  <2>1. Cardinality({}) = 0
    BY FS_EmptySet
  <2>2. \A d \in Dealers : tokens_finished[d] = Cardinality(Finished(d))
    BY <1>1, <1>3, <2>1, Sizes DEF Init
  <2>3. /\ \A i \in Ranks : ctrl_status[i] = "RUNNING" /\ <<i, 0>> \notin ctrl
        /\ \A i \in Ranks \ {0} : dealer_ctrl[i] = "RUNNING"
    BY DEF Init
  <2>4. dealers_finished = Cardinality(HeardDone) + (IF ctrl_status[0] = "DONE" THEN 1 ELSE 0)
    BY <1>1, <1>4, <2>1, <2>3, Sizes DEF Init
  <2>5. QED BY <1>1, <2>2, <2>3, <2>4, Sizes DEF Counts
<1>6. LeftDone
  BY <1>1, Sizes DEF Init, LeftDone
<1>7. QED BY <1>1, <1>2, <1>5, <1>6 DEF IInv

\* The steps up to the main loop.
LEMMA StartKeeps ==
  ASSUME IInv, NEW r \in Ranks, Start(r)
  PROVE  IInv'
<1>1. setup' = setup /\ Ranks' = Ranks /\ Dealers' = Dealers /\ Tokens' = Tokens
  BY SameSetup DEF Start
<1>2. \A t \in Tokens : t[1] = r => Status(t) = "IDLE" /\ wire[t] = <<>> /\ got[t] = {}
  BY DEF IInv, Places, InOnePlace, Start
<1>3. Shapes'
  BY <1>1, StartStatus DEF IInv, Shapes, Start, control, PCs
<1>4. \A t \in Tokens : got'[t] = got[t] /\
        wire'[t] = IF t[1] = r THEN Append(<<>>, Message(r, EdgeRank(r, start_edge(t)), 0, FALSE))
                   ELSE wire[t]
  BY <1>2 DEF Start
<1>5. Places'
  <2>1. \A t \in Tokens : InOnePlace(t)'
    <3> SUFFICES ASSUME NEW t \in Tokens PROVE InOnePlace(t)'
      BY <1>1
    <3>1. CASE t[1] = r
      <4> DEFINE m == Message(r, EdgeRank(r, start_edge(t)), 0, FALSE)
      <4>1. wire'[t] = Append(<<>>, m) /\ got'[t] = {} /\ Status(t)' = "RUNNING"
        BY <1>2, <1>4, <3>1, StartStatus
      <4> HIDE DEF m
      <4>2. wire'[t] = <<m>> /\ <<m>> = <<(<<m>>)[1]>>
        BY <4>1, OneMessage
      <4>3. QED BY <4>1, <4>2 DEF InOnePlace
    <3>2. CASE t[1] # r
      <4>1. InOnePlace(t)
        BY DEF IInv, Places
      <4>2. wire'[t] = wire[t] /\ got'[t] = got[t] /\ Status(t)' = Status(t)
        BY <1>4, <3>2, StartStatus
      <4> QED BY <4>1, <4>2 DEF InOnePlace
    <3>3. QED BY <3>1, <3>2
  <2>2. \A t \in Tokens : pc'[t[1]] = "init" => Status(t)' = "IDLE"
    BY <1>1, StartStatus, Sizes, TokenParts DEF IInv, Shapes, Places, Start
  <2>3. QED BY <1>1, <2>1, <2>2 DEF Places
<1>6. \A t \in Tokens : Status(t)' = "FINISHED" <=> Status(t) = "FINISHED"
  BY <1>2, StartStatus
<1>7. Counts'
  BY <1>1, <1>6, CountsKept DEF Start
<1>8. LeftDone'
  BY <1>1, <1>6, Sizes DEF IInv, LeftDone, AllFinished, Shapes, Start
<1>9. QED BY <1>3, <1>5, <1>7, <1>8 DEF IInv

\* The barriers, and time.
LEMMA BarrierKeeps ==
  ASSUME IInv, BeginLoop \/ EndBarrier \/ TimeUp \/ UNCHANGED vars
  PROVE  IInv'
<1>1. setup' = setup
  BY DEF BeginLoop, EndBarrier, TimeUp, vars
<1>2. Ranks' = Ranks /\ Dealers' = Dealers /\ Tokens' = Tokens
  BY <1>1, SameSetup
<1>3. UNCHANGED <<wire, got, token_obj, tokens_finished, control>>
  BY DEF BeginLoop, EndBarrier, TimeUp, vars, passing, control
<1>4. /\ pc' \in [Ranks -> PCs] /\ timeup' \in BOOLEAN /\ (timeup => timeup')
      /\ \A r \in Ranks : pc'[r] = "init" => pc[r] = "init"
      /\ pc'[0] \in {"left", "gone"} => pc[0] \in {"left", "gone"}
  <2>1. pc \in [Ranks -> PCs] /\ timeup \in BOOLEAN /\ 0 \in Ranks
    BY Sizes DEF IInv, Shapes
  <2>2. CASE BeginLoop
    BY <2>1, <2>2 DEF BeginLoop, PCs
  <2>3. CASE EndBarrier
    BY <2>1, <2>3 DEF EndBarrier, PCs
  <2>4. CASE TimeUp \/ UNCHANGED vars
    BY <2>1, <2>4 DEF TimeUp, vars, PCs
  <2>5. QED BY <2>2, <2>3, <2>4
<1>5. Shapes'
  BY <1>1, <1>2, <1>3, <1>4, KeepStatus DEF IInv, Shapes, control
<1>6. Places'
  BY <1>1, <1>2, <1>3, <1>4, KeepStatus, Sizes, TokenParts DEF IInv, Places, InOnePlace
<1>7. Counts'
  BY <1>1, <1>3, KeepStatus, CountsKept
<1>8. LeftDone'
  BY <1>1, <1>2, <1>3, <1>4, KeepStatus DEF IInv, LeftDone, AllFinished
<1>9. QED BY <1>5, <1>6, <1>7, <1>8 DEF IInv

--------------------------------------------------------------------------------
\* Steps of the main loop that pass a token on: its status stays.
LEMMA PassingKeeps ==
  ASSUME IInv, UNCHANGED <<setup, timeup, control, tokens_finished>>,
         NEW u \in Tokens, Status(u) = "RUNNING",
         \A t \in Tokens : Status(t)' = Status(t),
         token_obj' = [t \in Tokens |-> [edge |-> token_obj'[t].edge,
                         cycles |-> token_obj'[t].cycles, status |-> token_obj'[t].status]],
         pc' \in [Ranks -> PCs],
         \A r \in Ranks : pc'[r] = "init" => pc[r] = "init",
         pc'[0] \in {"left", "gone"} => pc[0] \in {"left", "gone"},
         wire' = [wire EXCEPT ![u] = wire'[u]], got' = [got EXCEPT ![u] = got'[u]],
         InOnePlace(u)'
  PROVE  IInv'
<1>1. setup' = setup /\ Ranks' = Ranks /\ Dealers' = Dealers /\ Tokens' = Tokens
  BY SameSetup
<1>2. /\ wire' = [t \in Tokens |-> wire'[t]] /\ got' = [t \in Tokens |-> got'[t]]
      /\ \A t \in Tokens \ {u} : wire'[t] = wire[t] /\ got'[t] = got[t]
  BY DEF IInv, Shapes
<1>3. Shapes'
  BY <1>1, <1>2 DEF IInv, Shapes, control
<1>4. Places'
  <2>1. \A t \in Tokens \ {u} : InOnePlace(t)'
    BY <1>2 DEF IInv, Places, InOnePlace
  <2>2. \A t \in Tokens : pc'[t[1]] = "init" => Status(t)' = "IDLE"
    BY Sizes, TokenParts DEF IInv, Places
  <2>3. QED BY <1>1, <2>1, <2>2 DEF Places
<1>5. Counts'
  BY <1>1, CountsKept DEF control
<1>6. LeftDone'
  BY <1>1 DEF IInv, LeftDone, AllFinished
<1>7. QED BY <1>3, <1>4, <1>5, <1>6 DEF IInv

LEMMA DeliverKeeps ==
  ASSUME IInv, NEW u \in Tokens, Deliver(u)
  PROVE  IInv'
<1>1. /\ UNCHANGED <<setup, pc, timeup, control, token_obj, tokens_finished>>
      /\ wire[u] # <<>> /\ wire' = [wire EXCEPT ![u] = Tail(wire[u])]
  BY DEF Deliver, control
<1>2. PICK b : got' = [got EXCEPT ![u] = got[u] \cup {b}]
  <2>1. \E k \in 1..Len(posted[u][Head(wire[u]).dst]) :
          got' = [got EXCEPT ![u] = got[u] \cup {[rank |-> Head(wire[u]).dst,
                    role |-> posted[u][Head(wire[u]).dst][k].role, bad |-> Head(wire[u]).bad]}]
    BY DEF Deliver
  <2>2. QED BY <2>1
<1>3. Status(u) = "RUNNING" /\ wire[u] = <<wire[u][1]>> /\ got[u] = {}
  BY <1>1 DEF IInv, Places, InOnePlace
<1>4. wire'[u] = <<>> /\ got'[u] = {b}
  <2>1. wire'[u] = Tail(wire[u]) /\ got'[u] = {} \cup {b}
    BY <1>1, <1>2, <1>3 DEF IInv, Shapes
  <2>2. Tail(<<wire[u][1]>>) = <<>>
    BY OneMessage
  <2>3. QED BY <1>3, <2>1, <2>2
<1>5. pc' \in [Ranks -> PCs]
  BY <1>1 DEF IInv, Shapes
<1>6. InOnePlace(u)'
  BY <1>1, <1>3, <1>4, KeepStatus DEF InOnePlace
<1>7. wire' = [wire EXCEPT ![u] = wire'[u]] /\ got' = [got EXCEPT ![u] = got'[u]]
  BY <1>1, <1>2 DEF IInv, Shapes
<1>8. QED BY <1>1, <1>3, <1>5, <1>6, <1>7, KeepStatus, PassingKeeps

LEMMA CorruptKeeps ==
  ASSUME IInv, NEW u \in Tokens, Corrupt(u)
  PROVE  IInv'
<1> DEFINE m == Message(Head(wire[u]).src, Head(wire[u]).dst, Head(wire[u]).role, TRUE)
<1>1. /\ UNCHANGED <<setup, pc, timeup, control, token_obj, tokens_finished, got>>
      /\ wire[u] # <<>> /\ wire' = [wire EXCEPT ![u] = <<m>> \o Tail(wire[u])]
  BY DEF Corrupt, control
<1> HIDE DEF m
<1>2. Status(u) = "RUNNING" /\ wire[u] = <<wire[u][1]>> /\ got[u] = {}
  BY <1>1 DEF IInv, Places, InOnePlace
<1>3. wire'[u] = <<m>> /\ <<m>> = <<(<<m>>)[1]>>
  <2>1. wire'[u] = <<m>> \o Tail(wire[u])
    BY <1>1 DEF IInv, Shapes
  <2>2. Tail(<<wire[u][1]>>) = <<>>
    BY OneMessage
  <2>3. <<m>> \o <<>> = <<m>>
    OBVIOUS
  <2>4. QED BY <1>2, <2>1, <2>2, <2>3, OneMessage
<1>4. pc' \in [Ranks -> PCs] /\ got' = [got EXCEPT ![u] = got'[u]]
      /\ wire' = [wire EXCEPT ![u] = wire'[u]]
  BY <1>1 DEF IInv, Shapes
<1>5. InOnePlace(u)'
  BY <1>1, <1>2, <1>3, KeepStatus DEF InOnePlace
<1>6. QED BY <1>1, <1>2, <1>4, <1>5, KeepStatus, PassingKeeps

\* A step that moves no token and takes no rank back to its start leaves each in its place.
LEMMA PlacesKept ==
  ASSUME IInv, UNCHANGED <<setup, wire, got, token_obj>>,
         \A r \in Ranks : pc'[r] = "init" => pc[r] = "init"
  PROVE  Places'
<1> SUFFICES ASSUME NEW t \in Tokens
             PROVE  InOnePlace(t)' /\ (pc'[t[1]] = "init" => Status(t)' = "IDLE")
  BY SameSetup DEF Places
<1>1. InOnePlace(t) /\ (pc[t[1]] = "init" => Status(t) = "IDLE")
  BY DEF IInv, Places
<1>2. Status(t)' = Status(t)
  BY KeepStatus
<1>3. t[1] \in Ranks
  BY Sizes, TokenParts DEF IInv
<1>4. InOnePlace(t)'
  BY <1>1, <1>2 DEF InOnePlace
<1> QED BY <1>1, <1>2, <1>3, <1>4

LEMMA RepostKeeps ==
  ASSUME IInv, NEW r \in Ranks, Repost(r)
  PROVE  IInv'
<1>1. setup' = setup /\ Ranks' = Ranks /\ Dealers' = Dealers /\ Tokens' = Tokens
  BY SameSetup DEF Repost
<1>2. UNCHANGED <<wire, got, token_obj, tokens_finished, control, timeup>>
  BY DEF Repost, control
<1>3. /\ pc' \in [Ranks -> PCs]
      /\ \A q \in Ranks : pc'[q] = "init" => pc[q] = "init"
      /\ pc'[0] \in {"left", "gone"} => pc[0] \in {"left", "gone"}
  BY Sizes DEF Repost, IInv, Shapes, PCs
<1>4. Shapes'
  BY <1>1, <1>2, <1>3, KeepStatus DEF IInv, Shapes, control
<1>5. Places'
  BY <1>1, <1>2, <1>3, PlacesKept
<1>6. Counts'
  BY <1>1, <1>2, KeepStatus, CountsKept
<1>7. LeftDone'
  BY <1>1, <1>2, <1>3, KeepStatus DEF IInv, LeftDone, AllFinished
<1>8. QED BY <1>4, <1>5, <1>6, <1>7 DEF IInv

\* A handled receive held its token: nothing of it is under way.
LEMMA Received ==
  ASSUME IInv, NEW u \in Tokens, NEW m \in got[u]
  PROVE  Status(u) = "RUNNING" /\ wire[u] = <<>> /\ got[u] \ {m} = {}
BY DEF IInv, Places, InOnePlace

LEMMA BounceKeeps ==
  ASSUME IInv, NEW u \in Tokens, NEW r \in Ranks, NEW m \in got[u], BounceToken(u, r, m)
  PROVE  IInv'
<1> DEFINE b == Message(r, u[1], m.role, m.bad)
<1>1. /\ UNCHANGED <<setup, timeup, control, token_obj, tokens_finished>>
      /\ wire' = [wire EXCEPT ![u] = Append(wire[u], b)] /\ got' = [got EXCEPT ![u] = got[u] \ {m}]
      /\ pc' = [pc EXCEPT ![r] = "repost"] /\ pc[r] = "loop"
  BY DEF BounceToken, Send, control
<1> HIDE DEF b
<1>2. Status(u) = "RUNNING" /\ wire[u] = <<>> /\ got[u] \ {m} = {}
  BY Received
<1>3. wire'[u] = <<b>> /\ <<b>> = <<(<<b>>)[1]>> /\ got'[u] = {}
  <2>1. wire'[u] = Append(<<>>, b) /\ got'[u] = {}
    BY <1>1, <1>2 DEF IInv, Shapes
  <2>2. QED BY <2>1, OneMessage
<1>4. InOnePlace(u)'
  BY <1>1, <1>2, <1>3, KeepStatus DEF InOnePlace
<1>5. /\ pc' \in [Ranks -> PCs]
      /\ \A q \in Ranks : pc'[q] = "init" => pc[q] = "init"
      /\ pc'[0] \in {"left", "gone"} => pc[0] \in {"left", "gone"}
  BY <1>1, Sizes DEF IInv, Shapes, PCs
<1>6. wire' = [wire EXCEPT ![u] = wire'[u]] /\ got' = [got EXCEPT ![u] = got'[u]]
  BY <1>1 DEF IInv, Shapes
<1>7. QED BY <1>1, <1>2, <1>4, <1>5, <1>6, KeepStatus, PassingKeeps

LEMMA DealKeeps ==
  ASSUME IInv, NEW u \in Tokens, NEW m \in got[u], DealToken(u, m)
  PROVE  IInv'
<1>1. PICK b : wire' = [wire EXCEPT ![u] = Append(wire[u], b)]
  BY DEF DealToken, Send
<1>2. /\ UNCHANGED <<setup, pc, timeup, control, tokens_finished>>
      /\ got' = [got EXCEPT ![u] = got[u] \ {m}]
  BY DEF DealToken, control
<1>3. Status(u) = "RUNNING" /\ wire[u] = <<>> /\ got[u] \ {m} = {}
  BY Received
<1>4. wire'[u] = <<b>> /\ <<b>> = <<(<<b>>)[1]>> /\ got'[u] = {}
  <2>1. wire'[u] = Append(<<>>, b) /\ got'[u] = {}
    BY <1>1, <1>2, <1>3 DEF IInv, Shapes
  <2>2. QED BY <2>1, OneMessage
<1>5. Status(u)' = "RUNNING" /\ \A t \in Tokens : Status(t)' = Status(t)
  BY <1>3, DealStatus
<1>6. InOnePlace(u)'
  BY <1>4, <1>5 DEF InOnePlace
<1>7. pc' \in [Ranks -> PCs]
  BY <1>2 DEF IInv, Shapes
<1>8. wire' = [wire EXCEPT ![u] = wire'[u]] /\ got' = [got EXCEPT ![u] = got'[u]]
  BY <1>1, <1>2 DEF IInv, Shapes
<1>9. QED BY <1>2, <1>3, <1>5, <1>6, <1>7, <1>8, DealStatus, PassingKeeps

\* The last bounce of a token.
LEMMA FinishKeeps ==
  ASSUME IInv, NEW u \in Tokens, NEW m \in got[u], FinishToken(u, m)
  PROVE  IInv'
<1>1. /\ UNCHANGED <<setup, pc, wire, timeup, control>> /\ pc[u[1]] = "loop"
      /\ got' = [got EXCEPT ![u] = got[u] \ {m}]
      /\ tokens_finished' = [tokens_finished EXCEPT ![u[1]] = tokens_finished[u[1]] + 1]
  BY DEF FinishToken, control
<1>2. Ranks' = Ranks /\ Dealers' = Dealers /\ Tokens' = Tokens
  BY <1>1, SameSetup
<1>3. Status(u) = "RUNNING" /\ wire[u] = <<>> /\ got[u] \ {m} = {}
  BY Received
<1>4. u[1] \in Dealers /\ u[1] \in Ranks /\ u[2] \in 1..setup.tokens /\ u = <<u[1], u[2]>>
  BY TokenParts, Sizes DEF IInv
<1>5. Shapes'
  <2>1. got' = [t \in Tokens |-> got'[t]]
    BY <1>1 DEF IInv, Shapes
  <2>2. tokens_finished' \in [Ranks -> Nat]
    BY <1>1, <1>4 DEF IInv, Shapes
  <2>3. \A t \in Tokens : Status(t)' \in {"IDLE", "RUNNING", "FINISHED"}
    BY FinishStatus DEF IInv, Shapes
  <2>4. QED BY <1>1, <1>2, <2>1, <2>2, <2>3, FinishStatus DEF IInv, Shapes, control
<1>6. Places'
  <2>1. got'[u] = {} /\ \A t \in Tokens \ {u} : got'[t] = got[t]
    BY <1>1, <1>3 DEF IInv, Shapes
  <2>2. InOnePlace(u)'
    BY <1>1, <1>3, <2>1, FinishStatus DEF InOnePlace
  <2>3. \A t \in Tokens \ {u} : InOnePlace(t)'
    BY <1>1, <2>1, FinishStatus DEF IInv, Places, InOnePlace
  <2>4. \A t \in Tokens : pc'[t[1]] = "init" => Status(t)' = "IDLE"
    BY <1>1, FinishStatus DEF IInv, Places
  <2>5. QED BY <1>2, <2>2, <2>3, <2>4 DEF Places
<1>7. Counts'
  <2>1. \A d \in Dealers, j \in 1..setup.tokens : <<d, j>> \in Tokens
    BY DEF Tokens
  <2>2. \A d \in Dealers : d # u[1] => Finished(d)' = Finished(d)
    BY <1>1, <1>4, <2>1, FinishStatus DEF Finished
  <2>3. Finished(u[1])' = Finished(u[1]) \cup {u[2]} /\ u[2] \notin Finished(u[1])
    BY <1>1, <1>3, <1>4, <2>1, FinishStatus DEF Finished
  <2>4. Cardinality(Finished(u[1])') = Cardinality(Finished(u[1])) + 1
    <3>1. IsFiniteSet(Finished(u[1]))
      BY FinishedFinite DEF IInv
    <3>2. QED BY <2>3, <3>1, FS_AddElement
  <2>5. \A d \in Dealers : tokens_finished'[d] = Cardinality(Finished(d)')
    <3>1. \A d \in Dealers : d # u[1] => tokens_finished'[d] = tokens_finished[d]
      BY <1>1, Sizes DEF IInv, Shapes
    <3>2. tokens_finished'[u[1]] = tokens_finished[u[1]] + 1
      BY <1>1, <1>4 DEF IInv, Shapes
    <3>3. QED BY <1>4, <2>2, <2>4, <3>1, <3>2 DEF IInv, Counts
  <2>6. \A d \in Dealers : ctrl_status'[d] = "DONE" =>
          \A j \in 1..setup.tokens : Status(<<d, j>>)' = "FINISHED"
    BY <1>1, <2>1, FinishStatus DEF IInv, Counts, control
  <2>7. HeardDone' = HeardDone
    BY <1>1, <1>2 DEF HeardDone, control
  <2>8. QED BY <1>1, <1>2, <2>5, <2>6, <2>7 DEF IInv, Counts, control
<1>8. LeftDone'
  BY <1>1, <1>2, FinishStatus DEF IInv, LeftDone, AllFinished
<1>9. QED BY <1>5, <1>6, <1>7, <1>8 DEF IInv

--------------------------------------------------------------------------------
\* Control coordination changes no token.
LEMMA ControlKeeps ==
  ASSUME IInv, UNCHANGED <<setup, timeup, passing>>,
         pc' \in [Ranks -> PCs], \A r \in Ranks : pc'[r] = "init" => pc[r] = "init"
  PROVE  Places' /\ (\A d \in Dealers : Finished(d)' = Finished(d))
<1>1. Ranks' = Ranks /\ Dealers' = Dealers /\ Tokens' = Tokens
  BY SameSetup
<1>2. UNCHANGED <<wire, got, token_obj>>
  BY DEF passing
<1>3. Places'
  BY <1>2, PlacesKept
<1>4. \A d \in Dealers, j \in 1..setup.tokens : <<d, j>> \in Tokens
  BY DEF Tokens
<1>5. QED BY <1>1, <1>2, <1>3, <1>4, KeepStatus DEF Finished

LEMMA ControlOtherKeeps ==
  ASSUME IInv, NEW r \in Ranks, NEW told \in BOOLEAN, ControlOther(r, told)
  PROVE  IInv'
<1> DEFINE notify == Mesh /\ AllMine(r) /\ ctrl_status[r] = "RUNNING"
<1>1. /\ UNCHANGED <<setup, timeup, passing, dealer_ctrl, dealers_finished>>
      /\ r # 0 /\ pc[r] = "loop"
      /\ pc' = [pc EXCEPT ![r] = IF told THEN "left" ELSE pc[r]]
      /\ ctrl' = (IF told THEN ctrl \ {<<0, r>>} ELSE ctrl) \cup (IF notify THEN {<<r, 0>>} ELSE {})
      /\ ctrl_status' = [ctrl_status EXCEPT ![r] = IF notify THEN "DONE" ELSE ctrl_status[r]]
  BY DEF ControlOther
<1>2. Ranks' = Ranks /\ Dealers' = Dealers /\ Tokens' = Tokens
  BY <1>1, SameSetup
<1>3. /\ pc' \in [Ranks -> PCs]
      /\ \A q \in Ranks : pc'[q] = "init" => pc[q] = "init"
      /\ pc'[0] = pc[0]
  BY <1>1, Sizes DEF IInv, Shapes, PCs
<1>4. Places' /\ \A d \in Dealers : Finished(d)' = Finished(d)
  BY <1>1, <1>3, ControlKeeps
<1>5. UNCHANGED <<wire, got, token_obj, tokens_finished>>
  BY <1>1 DEF passing
<1>6. Shapes'
  <2>1. ctrl_status' \in [Ranks -> {"RUNNING", "DONE"}]
    BY <1>1 DEF IInv, Shapes
  <2>2. QED BY <1>1, <1>2, <1>3, <1>5, <2>1, KeepStatus DEF IInv, Shapes
<1>7. notify => \A j \in 1..setup.tokens : Status(<<r, j>>) = "FINISHED"
  <2>1. Shapes
    BY DEF IInv
  <2>2. notify => r \in Dealers
    BY <2>1, Sizes
  <2>3. r \in Dealers => tokens_finished[r] = Cardinality(Finished(r))
    BY DEF IInv, Counts
  <2>4. QED BY <2>1, <2>2, <2>3, AllMineFinished
<1>8. Counts'
  <2>1. \A d \in Ranks \ {r} : ctrl_status'[d] = ctrl_status[d]
    BY <1>1 DEF IInv, Shapes
  <2>2. ctrl_status'[r] = (IF notify THEN "DONE" ELSE ctrl_status[r])
    BY <1>1 DEF IInv, Shapes
  <2>3. \A d \in Dealers, j \in 1..setup.tokens : Status(<<d, j>>)' = Status(<<d, j>>)
    BY <1>5 DEF Status
  <2>4. \A d \in Dealers : ctrl_status'[d] = "DONE" =>
          \A j \in 1..setup.tokens : Status(<<d, j>>)' = "FINISHED"
    <3> HIDE DEF notify
    <3>1. Dealers \subseteq Ranks
      BY Sizes DEF IInv
    <3>2. QED BY <1>7, <2>1, <2>2, <2>3, <3>1 DEF IInv, Counts
  <2>5. \A i \in Ranks \ {0} : <<i, 0>> \in ctrl' => ctrl_status'[i] = "DONE"
    <3> HIDE DEF notify
    <3>1. \A i \in Ranks \ {0} : <<i, 0>> \in ctrl' => <<i, 0>> \in ctrl \/ (notify /\ i = r)
      BY <1>1
    <3>2. QED BY <2>1, <2>2, <3>1 DEF IInv, Counts
  <2>6. \A i \in Ranks \ {0} : dealer_ctrl'[i] = "DONE" => ctrl_status'[i] = "DONE"
    <3> HIDE DEF notify
    <3>1. QED BY <1>1, <2>1, <2>2 DEF IInv, Counts
  <2>7. HeardDone' = HeardDone /\ ctrl_status'[0] = ctrl_status[0]
    <3>1. HeardDone' = HeardDone
      BY <1>1, <1>2 DEF HeardDone
    <3>2. 0 \in Ranks
      BY Sizes DEF IInv
    <3>3. QED BY <1>1, <2>1, <3>1, <3>2
  <2>8. QED BY <1>1, <1>2, <1>4, <1>5, <2>4, <2>5, <2>6, <2>7 DEF IInv, Counts
<1>9. LeftDone'
  BY <1>1, <1>2, <1>3, <1>5, KeepStatus DEF IInv, LeftDone, AllFinished
<1>10. QED BY <1>4, <1>6, <1>8, <1>9 DEF IInv

\* Rank 0 in a mesh: each dealer is counted once, when its tokens have finished,
\* so a full count means that they all have.
LEMMA ControlMeshKeeps ==
  ASSUME IInv, NEW heard \in SUBSET Unheard, ControlMesh(heard)
  PROVE  IInv'
<1> DEFINE mine == AllMine(0) /\ ctrl_status[0] = "RUNNING"
           done == dealers_finished + Cardinality(heard) + (IF mine THEN 1 ELSE 0)
           words == ctrl \ {<<i, 0>> : i \in heard}
<1>1. /\ UNCHANGED <<setup, timeup, passing>>
      /\ Mesh /\ pc[0] = "loop"
      /\ dealer_ctrl' = [i \in Ranks \ {0} |-> IF i \in heard THEN "DONE" ELSE dealer_ctrl[i]]
      /\ dealers_finished' = done
      /\ ctrl_status' = [ctrl_status EXCEPT ![0] = IF mine THEN "DONE" ELSE ctrl_status[0]]
      /\ IF AllDone(done) \/ timeup THEN LeaveAndTell(words) ELSE ctrl' = words /\ pc' = pc
  BY DEF ControlMesh
<1>2. Ranks' = Ranks /\ Dealers' = Dealers /\ Tokens' = Tokens /\ 0 \in Ranks /\ Dealers = Ranks
  BY <1>1, SameSetup, Sizes DEF IInv
<1>3. /\ pc' \in [Ranks -> PCs]
      /\ \A q \in Ranks : pc'[q] = "init" => pc[q] = "init"
      /\ pc'[0] \in {"left", "gone"} => AllDone(done) \/ timeup
  <2> HIDE DEF done, words
  <2>1. pc \in [Ranks -> PCs]
    BY DEF IInv, Shapes
  <2>2. CASE AllDone(done) \/ timeup
    <3>1. pc' = [pc EXCEPT ![0] = "left"]
      BY <1>1, <2>2 DEF LeaveAndTell
    <3>2. QED BY <1>2, <2>1, <2>2, <3>1 DEF PCs
  <2>3. CASE ~(AllDone(done) \/ timeup)
    <3>1. pc' = pc
      BY <1>1, <2>3
    <3>2. QED BY <1>1, <2>1, <2>3, <3>1
  <2>4. QED BY <2>2, <2>3
<1>4. Places' /\ \A d \in Dealers : Finished(d)' = Finished(d)
  BY <1>1, <1>3, ControlKeeps
<1>5. UNCHANGED <<wire, got, token_obj, tokens_finished>>
  BY <1>1 DEF passing
<1>6. Shapes'
  <2>1. ctrl_status' \in [Ranks -> {"RUNNING", "DONE"}]
    BY <1>1 DEF IInv, Shapes
  <2>2. dealer_ctrl' \in [Ranks \ {0} -> {"RUNNING", "DONE"}]
    BY <1>1 DEF IInv, Shapes
  <2>3. QED BY <1>1, <1>2, <1>3, <1>5, <2>1, <2>2, KeepStatus DEF IInv, Shapes
<1>7. /\ \A d \in Ranks \ {0} : ctrl_status'[d] = ctrl_status[d]
      /\ ctrl_status'[0] = (IF mine THEN "DONE" ELSE ctrl_status[0])
  BY <1>1, <1>2 DEF IInv, Shapes
<1>8. \A d \in Dealers : ctrl_status'[d] = "DONE" =>
        \A j \in 1..setup.tokens : Status(<<d, j>>)' = "FINISHED"
  <2>1. \A d \in Dealers, j \in 1..setup.tokens : Status(<<d, j>>)' = Status(<<d, j>>)
    BY <1>5 DEF Status
  <2>2. Shapes /\ tokens_finished[0] = Cardinality(Finished(0))
    BY <1>2 DEF IInv, Counts
  <2>3. mine => \A j \in 1..setup.tokens : Status(<<0, j>>) = "FINISHED"
    BY <1>2, <2>2, AllMineFinished
  <2>4. QED BY <1>2, <1>7, <2>1, <2>3 DEF IInv, Counts
<1>9. \A i \in heard : i \in Ranks \ {0} /\ dealer_ctrl[i] = "RUNNING" /\ ctrl_status[i] = "DONE"
  BY DEF Unheard, IInv, Counts
<1>10. \A i \in Ranks \ {0} : dealer_ctrl'[i] = "DONE" => ctrl_status'[i] = "DONE"
  BY <1>1, <1>7, <1>9 DEF IInv, Counts
<1>11. \A i \in Ranks \ {0} : <<i, 0>> \in ctrl' => ctrl_status'[i] = "DONE"
  <2> HIDE DEF done
  <2>1. \A i \in Ranks \ {0} : <<i, 0>> \in ctrl' => <<i, 0>> \in ctrl
    BY <1>1 DEF LeaveAndTell
  <2>2. QED BY <1>7, <2>1 DEF IInv, Counts
<1>12. HeardDone' = HeardDone \cup heard /\ HeardDone \cap heard = {}
  BY <1>1, <1>2, <1>9 DEF HeardDone
<1>13. /\ IsFiniteSet(HeardDone) /\ IsFiniteSet(heard)
       /\ Cardinality(HeardDone) \in Nat /\ Cardinality(heard) \in Nat
       /\ IsFiniteSet(Ranks \ {0}) /\ Cardinality(Ranks \ {0}) = setup.mpi_size - 1
  <2>1. /\ IsFiniteSet(HeardDone) /\ Cardinality(HeardDone) \in Nat /\ IsFiniteSet(Ranks \ {0})
        /\ Cardinality(Ranks \ {0}) = setup.mpi_size - 1
    BY HeardFinite DEF IInv
  <2>2. heard \in SUBSET (Ranks \ {0})
    BY <1>9
  <2>3. QED BY <2>1, <2>2, FS_Subset, FS_CardinalityType
<1>14. Cardinality(HeardDone') = Cardinality(HeardDone) + Cardinality(heard)
  <2>1. Cardinality(HeardDone \cap heard) = 0
    BY <1>12, FS_EmptySet
  <2>2. Cardinality(HeardDone \cup heard) = Cardinality(HeardDone) + Cardinality(heard)
                                              - Cardinality(HeardDone \cap heard)
    BY <1>13, FS_Union
  <2>3. QED BY <1>12, <1>13, <2>1, <2>2
<1>15. dealers_finished' = Cardinality(HeardDone') + (IF ctrl_status'[0] = "DONE" THEN 1 ELSE 0)
  <2>1. dealers_finished = Cardinality(HeardDone) + (IF ctrl_status[0] = "DONE" THEN 1 ELSE 0)
    BY DEF IInv, Counts
  <2>2. ctrl_status[0] \in {"RUNNING", "DONE"}
    BY <1>2 DEF IInv, Shapes
  <2>3. dealers_finished' = dealers_finished + Cardinality(heard) + (IF mine THEN 1 ELSE 0)
    BY <1>1
  <2>4. CASE mine
    BY <1>7, <1>13, <1>14, <2>1, <2>3, <2>4
  <2>5. CASE ~mine
    <3> HIDE DEF mine
    <3>1. QED BY <1>7, <1>13, <1>14, <2>1, <2>3, <2>5
  <2>6. QED BY <2>4, <2>5
<1>16. Counts'
  <2>1. \A d \in Dealers : tokens_finished'[d] = Cardinality(Finished(d)')
    BY <1>4, <1>5 DEF IInv, Counts
  <2>2. QED BY <1>1, <1>2, <1>8, <1>10, <1>11, <1>15, <2>1 DEF Counts
<1>17. LeftDone'
  <2> SUFFICES ASSUME pc'[0] \in {"left", "gone"}, ~timeup' PROVE AllFinished'
    BY DEF LeftDone
  <2>1. done = setup.mpi_size
    <3> HIDE DEF done
    <3>1. QED BY <1>1, <1>3 DEF AllDone
  <2>2. HeardDone' \in SUBSET (Ranks \ {0})
    BY <1>2 DEF HeardDone
  <2>3. Cardinality(HeardDone') \in Nat /\ Cardinality(HeardDone') <= setup.mpi_size - 1
    BY <1>13, <2>2, FS_Subset, FS_CardinalityType
  <2>4. setup.mpi_size \in Nat
    BY Sizes DEF IInv
  <2>5. Cardinality(HeardDone') = setup.mpi_size - 1 /\ ctrl_status'[0] = "DONE"
    <3>1. dealers_finished' = setup.mpi_size
      BY <1>1, <2>1
    <3>2. CASE ctrl_status'[0] = "DONE"
      BY <1>15, <2>3, <2>4, <3>1, <3>2
    <3>3. CASE ctrl_status'[0] # "DONE"
      BY <1>15, <2>3, <2>4, <3>1, <3>3
    <3>4. QED BY <3>2, <3>3
  <2>6. HeardDone' = Ranks \ {0}
    BY <1>13, <2>2, <2>5, FS_Subset
  <2>7. \A d \in Dealers : ctrl_status'[d] = "DONE"
    BY <1>2, <1>10, <2>5, <2>6 DEF HeardDone
  <2>8. \A d \in Dealers, j \in 1..setup.tokens : Status(<<d, j>>)' = "FINISHED"
    BY <1>8, <2>7
  <2>9. QED BY <1>2, <2>8, TokenParts DEF AllFinished
<1>18. QED BY <1>4, <1>6, <1>16, <1>17 DEF IInv

\* Rank 0 in a star waits for its own tokens only: there are no others.
LEMMA ControlStarKeeps ==
  ASSUME IInv, ControlStar
  PROVE  IInv'
<1>1. /\ UNCHANGED <<setup, timeup, passing, ctrl_status, dealer_ctrl, dealers_finished>>
      /\ ~Mesh /\ pc[0] = "loop" /\ (AllMine(0) \/ timeup)
      /\ pc' = [pc EXCEPT ![0] = "left"]
      /\ ctrl' = ctrl \cup {<<0, i>> : i \in Ranks \ {0}}
  BY DEF ControlStar, LeaveAndTell
<1>2. Ranks' = Ranks /\ Dealers' = Dealers /\ Tokens' = Tokens /\ 0 \in Ranks /\ Dealers = {0}
  BY <1>1, SameSetup, Sizes DEF IInv, Dealers
<1>3. /\ pc' \in [Ranks -> PCs]
      /\ \A q \in Ranks : pc'[q] = "init" => pc[q] = "init"
  <2>1. pc \in [Ranks -> PCs]
    BY DEF IInv, Shapes
  <2>2. QED BY <1>1, <1>2, <2>1 DEF PCs
<1>4. Places' /\ \A d \in Dealers : Finished(d)' = Finished(d)
  BY <1>1, <1>3, ControlKeeps
<1>5. UNCHANGED <<wire, got, token_obj, tokens_finished>>
  BY <1>1 DEF passing
<1>6. Shapes'
  BY <1>1, <1>2, <1>3, <1>5, KeepStatus DEF IInv, Shapes
<1>7. Counts'
  <2>1. \A d \in Dealers : ctrl_status'[d] = "DONE" =>
          \A j \in 1..setup.tokens : Status(<<d, j>>)' = "FINISHED"
    BY <1>1, <1>5 DEF IInv, Counts, Status
  <2>2. \A i \in Ranks \ {0} : <<i, 0>> \in ctrl' => <<i, 0>> \in ctrl
    BY <1>1
  <2>3. HeardDone' = HeardDone
    BY <1>1, <1>2 DEF HeardDone
  <2>4. QED BY <1>1, <1>2, <1>4, <1>5, <2>1, <2>2, <2>3 DEF IInv, Counts
<1>8. LeftDone'
  <2>1. Shapes /\ tokens_finished[0] = Cardinality(Finished(0))
    BY <1>2 DEF IInv, Counts
  <2>2. AllMine(0) => \A j \in 1..setup.tokens : Status(<<0, j>>) = "FINISHED"
    BY <1>2, <2>1, AllMineFinished
  <2>3. AllMine(0) => \A t \in Tokens : Status(t) = "FINISHED"
    BY <1>2, <2>2, TokenParts
  <2>4. QED BY <1>1, <1>2, <1>5, <2>3, KeepStatus DEF LeftDone, AllFinished
<1>9. QED BY <1>4, <1>6, <1>7, <1>8 DEF IInv

--------------------------------------------------------------------------------
LEMMA StepKeeps ==
  ASSUME IInv, [Next]_vars
  PROVE  IInv'
<1>1. CASE UNCHANGED vars
  BY <1>1, BarrierKeeps
<1>2. CASE \E r \in Ranks : Start(r) \/ Repost(r)
  BY <1>2, StartKeeps, RepostKeeps
<1>3. CASE \E r \in Ranks : Handle(r)
  BY <1>3, FinishKeeps, DealKeeps, BounceKeeps DEF Handle
<1>4. CASE \E t \in Tokens : Deliver(t) \/ Corrupt(t)
  BY <1>4, DeliverKeeps, CorruptKeeps
<1>5. CASE \E r \in Ranks, told \in BOOLEAN : ControlOther(r, told)
  BY <1>5, ControlOtherKeeps
<1>6. CASE \E heard \in SUBSET Unheard : ControlMesh(heard)
  BY <1>6, ControlMeshKeeps
<1>7. CASE BeginLoop \/ ControlStar \/ TimeUp \/ EndBarrier \/ Ended
  BY <1>7, BarrierKeeps, ControlStarKeeps DEF Ended
<1>8. QED BY <1>1, <1>2, <1>3, <1>4, <1>5, <1>6, <1>7 DEF Next

LEMMA InvDone == IInv => ShutdownMeansDone
BY DEF IInv, LeftDone, AllFinished, Places, InOnePlace, ShutdownMeansDone, Status

\* ShutdownMeansDone, for every topology, size and number of tokens: rank 0's
\* count of dealers is full only when all tokens are finished.
THEOREM ShutdownSafe == Spec => []ShutdownMeansDone
<1>1. Init => IInv
  BY InitInv
<1>2. IInv /\ [Next]_vars => IInv'
  BY StepKeeps
<1>3. IInv => ShutdownMeansDone
  BY InvDone
<1>4. QED BY <1>1, <1>2, <1>3, PTL DEF Spec

\* A token that is running is in exactly one place, so that no tag ever has two
\* messages at once (part of MessagesExpected).
THEOREM OneCopyAlways == Spec => []OneCopy
<1>1. IInv => OneCopy
  <2>1. \A x : Len(<<x>>) = 1 /\ Cardinality({x}) = 1
    BY FS_Singleton
  <2>2. Len(<<>>) = 0 /\ Cardinality({}) = 0
    BY FS_EmptySet
  <2> SUFFICES ASSUME IInv, NEW t \in Tokens
               PROVE  Len(wire[t]) + Cardinality(got[t])
                        = (IF token_obj[t].status = "RUNNING" THEN 1 ELSE 0)
    BY DEF OneCopy
  <2>3. InOnePlace(t)
    BY DEF IInv, Places
  <2>4. CASE Status(t) # "RUNNING" /\ wire[t] = <<>> /\ got[t] = {}
    BY <2>2, <2>4 DEF Status
  <2>5. CASE Status(t) = "RUNNING" /\ wire[t] = <<>> /\ \E m \in got[t] : got[t] = {m}
    <3>1. Len(wire[t]) = 0 /\ Cardinality(got[t]) = 1
      BY <2>1, <2>2, <2>5
    <3>2. QED BY <2>5, <3>1 DEF Status
  <2>6. CASE Status(t) = "RUNNING" /\ wire[t] = <<wire[t][1]>> /\ got[t] = {}
    <3>1. Len(wire[t]) = 1 /\ Cardinality(got[t]) = 0
      BY <2>1, <2>2, <2>6
    <3>2. QED BY <2>6, <3>1 DEF Status
  <2>7. QED BY <2>3, <2>4, <2>5, <2>6 DEF InOnePlace
<1>2. QED BY <1>1, InitInv, StepKeeps, PTL DEF Spec

\* A receive completes into a buffer only when the send made from it has been
\* delivered, so that a rank's wait for that send ends (part of MessagesExpected).
THEOREM BuffersFree == Spec => []BufferFree
<1>1. IInv => BufferFree
  <2> SUFFICES ASSUME IInv, NEW t \in Tokens, NEW m \in got[t] PROVE 1..Len(wire[t]) = {}
    BY DEF BufferFree
  <2>1. wire[t] = <<>>
    BY Received
  <2> QED BY <2>1
<1>2. QED BY <1>1, InitInv, StepKeeps, PTL DEF Spec

--------------------------------------------------------------------------------
(* The mesh *)

LEMMA Divided ==
  ASSUME NEW a \in Nat, NEW b \in Nat \ {0}
  PROVE  a % b \in 0..(b - 1) /\ a \div b \in Nat /\ a = b * (a \div b) + (a % b)
OBVIOUS

LEMMA NextMultiple ==
  ASSUME NEW b \in Nat, NEW q \in Int, NEW w \in Int, q < w
  PROVE  b * q + b <= b * w
OBVIOUS

\* In a row, a plane or the space of n blocks of b ranks: the block of a rank, and
\* that all of the block is inside.
LEMMA Block ==
  ASSUME NEW b \in Nat \ {0}, NEW n \in Nat, NEW r \in 0..(b * n - 1)
  PROVE  /\ r % b \in 0..(b - 1) /\ r \div b \in Nat /\ r = b * (r \div b) + (r % b)
         /\ b * (r \div b) \in Nat /\ b * (r \div b) + b <= b * n
<1>0. b * n \in Int
  OBVIOUS
<1>1. r \in Nat /\ r < b * n
  BY <1>0
<1>2. r % b \in 0..(b - 1) /\ r \div b \in Nat /\ r = b * (r \div b) + (r % b)
  BY <1>1, Divided
<1>3. b * (r \div b) \in Nat
  BY <1>2
<1>4. b * (r \div b) < b * n
  BY <1>1, <1>2, <1>3
<1>5. r \div b < n
  <2>1. SUFFICES ASSUME ~(r \div b < n) PROVE FALSE
    OBVIOUS
  <2>2. CASE r \div b = n
    BY <1>4, <2>2
  <2>3. CASE n < r \div b
    BY <1>2, <1>4, <2>3, NextMultiple
  <2> QED BY <1>2, <2>1, <2>2, <2>3
<1> QED BY <1>2, <1>3, <1>5, NextMultiple

\* The sizes of a mesh.
LEMMA MeshSizes ==
  ASSUME setup \in Setups, Mesh
  PROVE  /\ xsize \in Nat /\ xsize > 1 /\ setup.ysize \in Nat \ {0} /\ setup.zsize \in Nat \ {0}
         /\ plane \in Nat \ {0} /\ plane >= xsize /\ plane = xsize * setup.ysize
         /\ space = plane * setup.zsize /\ space = xsize * (setup.ysize * setup.zsize)
         /\ space \in Nat \ {0} /\ space >= plane /\ Ranks = 0..(space - 1)
<1>1. /\ xsize \in Nat \ {0, 1} /\ setup.ysize \in Nat \ {0} /\ setup.zsize \in Nat \ {0}
      /\ setup.mpi_size = setup.xsize * setup.ysize * setup.zsize
  BY TokenSmashAssumption DEF Mesh, xsize
<1> DEFINE y == setup.ysize
           z == setup.zsize
<1>2. plane = xsize * y /\ space = plane * z /\ setup.mpi_size = space
  BY <1>1 DEF plane, space, xsize
<1>3. xsize \in Nat \ {0} /\ y \in Nat \ {0} /\ z \in Nat \ {0}
  BY <1>1
<1> HIDE DEF y, z
<1>4. ASSUME NEW a \in Nat \ {0}, NEW b \in Nat \ {0}
      PROVE  a * b \in Nat \ {0} /\ a * b >= a
  <2>1. a * b = a * (b - 1) + a /\ a * (b - 1) \in Nat
    BY <1>4
  <2> QED BY <1>4, <2>1
<1>5. plane \in Nat \ {0} /\ plane >= xsize
  BY <1>2, <1>3, <1>4
<1>6. space \in Nat \ {0} /\ space >= plane
  BY <1>2, <1>3, <1>4, <1>5
<1>7. space = xsize * (y * z)
  BY <1>2, <1>3
<1> QED BY <1>1, <1>2, <1>5, <1>6, <1>7 DEF y, z, Ranks

\* The neighbours of a rank in the torus are ranks, in every direction.
LEMMA NeighboursAreRanks ==
  ASSUME setup \in Setups, Mesh, NEW r \in Ranks
  PROVE  /\ xplus(r) \in Ranks /\ xminus(r) \in Ranks
         /\ yplus(r) \in Ranks /\ yminus(r) \in Ranks
         /\ zplus(r) \in Ranks /\ zminus(r) \in Ranks
<1>1. /\ xsize \in Nat /\ xsize > 1 /\ setup.ysize \in Nat /\ setup.zsize \in Nat
      /\ plane \in Nat \ {0} /\ plane >= xsize /\ space \in Nat \ {0} /\ space >= plane
      /\ Ranks = 0..(space - 1) /\ r \in 0..(space - 1)
  BY MeshSizes
<1>2. /\ r % xsize \in 0..(xsize - 1) /\ xsize * (r \div xsize) \in Nat
      /\ r = xsize * (r \div xsize) + (r % xsize)
      /\ xsize * (r \div xsize) + xsize <= space
  <2> DEFINE rows == setup.ysize * setup.zsize
  <2>1. space = xsize * rows /\ rows \in Nat
    <3>1. space = xsize * rows
      BY MeshSizes
    <3>2. setup.ysize \in Nat /\ setup.zsize \in Nat
      BY <1>1
    <3> QED BY <3>1, <3>2
  <2> HIDE DEF rows
  <2>2. xsize \in Nat \ {0} /\ r \in 0..(xsize * rows - 1)
    BY <1>1, <2>1
  <2> QED BY <2>1, <2>2, Block
<1>3. /\ r % plane \in 0..(plane - 1) /\ plane * (r \div plane) \in Nat
      /\ r = plane * (r \div plane) + (r % plane)
      /\ plane * (r \div plane) + plane <= space
  <2>1. space = plane * setup.zsize
    BY MeshSizes
  <2> QED BY <1>1, <2>1, Block
<1>4. (r \div plane) * plane = plane * (r \div plane)
  <2>1. r \in Nat /\ plane \in Nat \ {0}
    BY <1>1
  <2>2. r \div plane \in Nat
    BY <2>1, Divided
  <2> QED BY <2>1, <2>2
<1> DEFINE row == xsize * (r \div xsize)
           base == plane * (r \div plane)
<1>5. row \in Nat /\ base \in Nat
  BY <1>2, <1>3
<1>6. xplus(r) \in 0..(space - 1) /\ xminus(r) \in 0..(space - 1)
  <2> HIDE DEF row
  <2>1. /\ r % xsize \in 0..(xsize - 1) /\ row \in Nat
        /\ r = row + (r % xsize) /\ row + xsize <= space
    BY <1>2 DEF row
  <2> QED BY <1>1, <2>1 DEF xplus, xminus
<1>7. yplus(r) \in 0..(space - 1)
  <2>1. (r + xsize) % plane \in 0..(plane - 1)
    <3>1. r + xsize \in Nat /\ plane \in Nat \ {0}
      BY <1>1
    <3> QED BY <3>1, Divided
  <2>2. yplus(r) = ((r + xsize) % plane) + base
    BY <1>4 DEF yplus, base
  <2>3. base + plane <= space
    BY <1>3 DEF base
  <2> HIDE DEF base
  <2> QED BY <1>1, <1>5, <2>1, <2>2, <2>3
<1>8. yminus(r) \in 0..(space - 1)
  <2>1. yminus(r) = IF r - base < xsize THEN plane - (xsize - r) ELSE r - xsize
    BY <1>4 DEF yminus, base
  <2>2. base + plane <= space /\ r >= base /\ r < base + plane
    BY <1>1, <1>3 DEF base
  <2> HIDE DEF base
  <2> QED BY <1>1, <1>5, <2>1, <2>2
<1>9. zplus(r) \in 0..(space - 1) /\ zminus(r) \in 0..(space - 1)
  <2>1. (r + plane) % space \in 0..(space - 1)
    <3>1. r + plane \in Nat /\ space \in Nat \ {0}
      BY <1>1
    <3> QED BY <3>1, Divided
  <2> QED BY <1>1, <2>1 DEF zplus, zminus
<1> QED BY <1>1, <1>6, <1>7, <1>8, <1>9

\* The edges of a dealer are ranks.
LEMMA EdgesAreRanks ==
  ASSUME setup \in Setups, NEW d \in Dealers
  PROVE  /\ num_edges(d) \in Nat \ {0}
         /\ \A e \in 0..(num_edges(d) - 1) : EdgeRank(d, e) \in Ranks
<1>1. CASE Mesh
  <2>1. d \in Ranks
    BY <1>1 DEF Dealers
  <2>2. CASE setup.topology = "MESH_3D"
    <3>1. Edges(d) = <<xplus(d), xminus(d), yplus(d), yminus(d)>> \o <<zplus(d), zminus(d)>>
      BY <1>1, <2>2 DEF Edges, Neighbours
    <3>2. Len(Edges(d)) = 6 /\ \A k \in 1..6 : Edges(d)[k] \in Ranks
      BY <1>1, <2>1, <3>1, NeighboursAreRanks
    <3> QED BY <3>2 DEF num_edges, EdgeRank
  <2>3. CASE setup.topology # "MESH_3D"
    <3>1. Edges(d) = <<xplus(d), xminus(d), yplus(d), yminus(d)>>
      BY <1>1, <2>3 DEF Edges, Neighbours
    <3> QED BY <1>1, <2>1, <3>1, NeighboursAreRanks DEF num_edges, EdgeRank
  <2> QED BY <2>2, <2>3
<1>2. CASE ~Mesh
  <2>1. setup.mpi_size \in Nat /\ setup.mpi_size > 1
    BY TokenSmashAssumption
  <2>2. Edges(d) = [e \in 1..(setup.mpi_size - 1) |-> e]
    BY <1>2 DEF Edges
  <2>3. Len(Edges(d)) = setup.mpi_size - 1
    BY <2>1, <2>2
  <2> QED BY <2>1, <2>2, <2>3 DEF num_edges, EdgeRank, Ranks
<1> QED BY <1>1, <1>2

--------------------------------------------------------------------------------
(* The route of a token *)

\* The rank whose bounce the dealer of a token waits for, and whether it is there.
Expected(t) == EdgeRank(t[1], token_obj[t].edge)
Returned(t) == \E m \in got[t] : m.role = 0

Mail      == [src : Ranks, dst : Ranks, role : 0..6, bad : BOOLEAN]
Completed == [rank : Ranks, role : 0..6, bad : BOOLEAN]

\* What rank r posts receives for: as the token's dealer from anybody, as an edge
\* from the dealer.
Receivable(r, t) ==
  {x \in [src : Ranks, role : 0..6] : IF x.role = 0 THEN r = t[1] ELSE x.src = t[1]}

OnMail(t) == wire[t] # <<>> =>
  /\ wire[t][1] \in Mail
  /\ \/ wire[t][1].src = t[1] /\ wire[t][1].dst = Expected(t)
     \/ wire[t][1].src = Expected(t) /\ wire[t][1].dst = t[1]
OnReceived(t) == \A m \in got[t] :
  m \in Completed /\ m.rank = IF m.role = 0 THEN t[1] ELSE Expected(t)
Awaited(t) == Status(t) = "RUNNING" /\ ~Returned(t) =>
  \E k \in 1..Len(posted[t][t[1]]) : posted[t][t[1]][k] = [src |-> Expected(t), role |-> 0]

\* A token is between its dealer and the edge expected to bounce it, and a running
\* token that is not back has a receive posted for that edge.
Route(t) ==
  /\ token_obj[t].edge \in 0..(num_edges(t[1]) - 1)
  /\ posted[t] = [r \in Ranks |-> posted[t][r]]
  /\ \A r \in Ranks : posted[t][r] \in Seq(Receivable(r, t))
  /\ OnMail(t) /\ OnReceived(t) /\ Awaited(t)

Routes ==
  /\ posted = [t \in Tokens |-> posted[t]]
  /\ owed \in [Ranks -> SUBSET [token : Tokens, role : 1..6]]
  /\ \A t \in Tokens : Route(t)

LEMMA SameMesh ==
  ASSUME setup' = setup
  PROVE  /\ \A d : num_edges(d)' = num_edges(d)
         /\ \A d, e : EdgeRank(d, e)' = EdgeRank(d, e)
         /\ \A r, t : Receivable(r, t)' = Receivable(r, t)
         /\ Mail' = Mail /\ Completed' = Completed
BY DEF Ranks, Mesh, num_edges, EdgeRank, Edges, Neighbours, Receivable, Mail, Completed,
       xplus, xminus, yplus, yminus, zplus, zminus, xsize, plane, space

\* A token that a step does not touch stays on its route.
LEMMA RouteStays ==
  ASSUME Shapes, setup' = setup, NEW t \in Tokens, Route(t),
         UNCHANGED <<token_obj[t], posted[t], wire[t], got[t]>>
  PROVE  Route(t)'
<1>1. t[1]' = t[1] /\ Expected(t)' = Expected(t) /\ Returned(t)' = Returned(t)
  BY SameMesh DEF Expected, Returned
<1>2. Ranks' = Ranks
  BY SameSetup
<1> QED BY <1>1, <1>2, SameMesh DEF Route, OnMail, OnReceived, Awaited, Status

\* A receive is taken out of a queue.
LEMMA Removed ==
  ASSUME NEW S, NEW q \in Seq(S), NEW k \in 1..Len(q)
  PROVE  LET s == SubSeq(q, 1, k - 1) \o SubSeq(q, k + 1, Len(q))
         IN  /\ s \in Seq(S) /\ Len(s) = Len(q) - 1
             /\ \A j \in 1..(Len(q) - 1) : s[j] = IF j < k THEN q[j] ELSE q[j + 1]
<1> DEFINE a == SubSeq(q, 1, k - 1)
           b == SubSeq(q, k + 1, Len(q))
<1>0. Len(q) \in Nat /\ k \in Nat
  OBVIOUS
<1>1. Len(a) = k - 1 /\ \A j \in 1..(k - 1) : a[j] = q[j]
  BY <1>0
<1>2. a \in Seq(S)
  BY <1>0
<1>3. Len(b) = Len(q) - k /\ \A j \in 1..(Len(q) - k) : b[j] = q[j + k]
  BY <1>0
<1>4. b \in Seq(S)
  BY <1>0
<1> HIDE DEF a, b
<1>5. a \o b \in Seq(S) /\ Len(a \o b) = Len(q) - 1
  <2>1. a \o b \in Seq(S) /\ Len(a \o b) = Len(a) + Len(b)
    BY <1>2, <1>4
  <2>2. Len(a) = k - 1 /\ Len(b) = Len(q) - k
    BY <1>1, <1>3
  <2> QED BY <1>0, <2>1, <2>2
<1>6. \A j \in 1..(Len(q) - 1) : (a \o b)[j] = IF j < k THEN q[j] ELSE q[j + 1]
  BY <1>0, <1>1, <1>2, <1>3, <1>4
<1> QED BY <1>5, <1>6 DEF a, b

LEMMA Appended ==
  ASSUME NEW S, NEW q \in Seq(S), NEW x \in S
  PROVE  /\ Append(q, x) \in Seq(S) /\ Len(Append(q, x)) = Len(q) + 1
         /\ Append(q, x)[Len(q) + 1] = x /\ \A j \in 1..Len(q) : Append(q, x)[j] = q[j]
OBVIOUS

LEMMA Joined ==
  ASSUME NEW S, NEW a \in Seq(S), NEW b \in Seq(S)
  PROVE  a \o b \in Seq(S) /\ (Len(a) > 0 => Len(a \o b) > 0 /\ (a \o b)[1] = a[1])
OBVIOUS

LEMMA StartEdge ==
  ASSUME Shapes, NEW t \in Tokens
  PROVE  /\ t[1] \in Ranks /\ num_edges(t[1]) \in Nat \ {0}
         /\ start_edge(t) \in 0..(num_edges(t[1]) - 1)
         /\ \A e \in 0..(num_edges(t[1]) - 1) : EdgeRank(t[1], e) \in Ranks
<1>1. t[1] \in Dealers /\ t[2] - 1 \in Nat
  BY TokenParts, Sizes
<1>2. /\ num_edges(t[1]) \in Nat \ {0}
      /\ \A e \in 0..(num_edges(t[1]) - 1) : EdgeRank(t[1], e) \in Ranks
  BY <1>1, EdgesAreRanks DEF Shapes
<1>3. start_edge(t) \in 0..(num_edges(t[1]) - 1)
  BY <1>1, <1>2, Divided DEF start_edge
<1> QED BY <1>1, <1>2, <1>3, Sizes

LEMMA PrepostedOk ==
  ASSUME Shapes, NEW t \in Tokens, NEW r \in Ranks
  PROVE  /\ Preposted(r, t) \in Seq(Receivable(r, t))
         /\ t[1] = r => /\ 1 \in 1..Len(Preposted(r, t))
                        /\ Preposted(r, t)[1] = [src |-> EdgeRank(r, start_edge(t)), role |-> 0]
<1> DEFINE S == Receivable(r, t)
           own == [src |-> EdgeRank(r, start_edge(t)), role |-> 0]
           p0 == IF t[1] = r THEN <<own>> ELSE <<>>
           p1 == p0 \o AsEdge(r, t, 1)
           p2 == p1 \o AsEdge(r, t, 2)
           p3 == p2 \o AsEdge(r, t, 3)
           p4 == p3 \o AsEdge(r, t, 4)
           p5 == p4 \o AsEdge(r, t, 5)
           p6 == p5 \o AsEdge(r, t, 6)
<1>1. \A i \in 1..6 : AsEdge(r, t, i) \in Seq(S)
  <2>1. \A i \in 1..6 : [src |-> t[1], role |-> i] \in S
    BY StartEdge DEF Receivable
  <2> HIDE DEF S
  <2> QED BY <2>1 DEF AsEdge
<1>2. p0 \in Seq(S) /\ (t[1] = r => Len(p0) > 0 /\ p0[1] = own)
  <2>1. t[1] = r => own \in S
    BY StartEdge DEF Receivable
  <2> HIDE DEF S, own
  <2> QED BY <2>1
<1>3. Preposted(r, t) = p6
  BY DEF Preposted
<1> HIDE DEF S, own, p0
<1>4. p1 \in Seq(S) /\ (t[1] = r => Len(p1) > 0 /\ p1[1] = own)
  BY <1>1, <1>2, Joined
<1> HIDE DEF p1
<1>5. p2 \in Seq(S) /\ (t[1] = r => Len(p2) > 0 /\ p2[1] = own)
  BY <1>1, <1>4, Joined
<1> HIDE DEF p2
<1>6. p3 \in Seq(S) /\ (t[1] = r => Len(p3) > 0 /\ p3[1] = own)
  BY <1>1, <1>5, Joined
<1> HIDE DEF p3
<1>7. p4 \in Seq(S) /\ (t[1] = r => Len(p4) > 0 /\ p4[1] = own)
  BY <1>1, <1>6, Joined
<1> HIDE DEF p4
<1>8. p5 \in Seq(S) /\ (t[1] = r => Len(p5) > 0 /\ p5[1] = own)
  BY <1>1, <1>7, Joined
<1> HIDE DEF p5
<1>9. p6 \in Seq(S) /\ (t[1] = r => Len(p6) > 0 /\ p6[1] = own)
  BY <1>1, <1>8, Joined
<1> HIDE DEF p6
<1>10. Len(p6) \in Nat
  BY <1>9
<1> QED BY <1>3, <1>9, <1>10 DEF S, own

LEMMA InitRoutes == Init => Routes
<1> SUFFICES ASSUME Init PROVE Routes
  OBVIOUS
<1>1. Shapes /\ Ranks = Ranks
  BY InitInv DEF IInv
<1>2. ASSUME NEW t \in Tokens PROVE Route(t)
  <2>1. /\ posted[t] = [r \in Ranks |-> <<>>] /\ wire[t] = <<>> /\ got[t] = {}
        /\ token_obj[t].edge = start_edge(t) /\ Status(t) = "IDLE"
    BY DEF Init, Status, Object
  <2> QED BY <1>1, <2>1, StartEdge DEF Route, OnMail, OnReceived, Awaited
<1> QED BY <1>2 DEF Routes, Init

LEMMA StartRoutes ==
  ASSUME IInv, Routes, NEW r \in Ranks, Start(r)
  PROVE  Routes'
<1>1. setup' = setup /\ Ranks' = Ranks /\ Tokens' = Tokens /\ owed' = owed
  BY SameSetup DEF Start
<1>2. Shapes /\ \A t \in Tokens : Status(t)' = IF t[1] = r THEN "RUNNING" ELSE Status(t)
  BY StartStatus DEF IInv
<1>3. ASSUME NEW t \in Tokens PROVE Route(t)'
  <2>1. /\ posted'[t] = [posted[t] EXCEPT ![r] = Preposted(r, t)] /\ got'[t] = got[t]
        /\ posted[t] = [q \in Ranks |-> posted[t][q]]
        /\ \A q \in Ranks : posted[t][q] \in Seq(Receivable(q, t))
    BY DEF Start, Routes, Route
  <2>2. \A q \in Ranks : posted'[t][q] = IF q = r THEN Preposted(r, t) ELSE posted[t][q]
    BY <2>1
  <2>3. /\ posted'[t] = [q \in Ranks |-> posted'[t][q]]
        /\ \A q \in Ranks : posted'[t][q] \in Seq(Receivable(q, t))
    <3>1. Preposted(r, t) \in Seq(Receivable(r, t))
      BY <1>2, PrepostedOk
    <3>2. posted'[t] = [q \in Ranks |-> posted'[t][q]]
      BY <2>1
    <3> QED BY <2>1, <2>2, <3>1, <3>2
  <2>4. CASE t[1] = r
    <3> DEFINE e == start_edge(t)
               b == Message(r, EdgeRank(r, e), 0, FALSE)
    <3>1. wire[t] = <<>> /\ got[t] = {}
      BY <2>4 DEF IInv, Places, InOnePlace, Start
    <3>2. token_obj'[t].edge = e /\ wire'[t] = Append(<<>>, b) /\ got'[t] = {}
      BY <2>1, <2>4, <3>1 DEF Start, Object
    <3>3. /\ b \in Mail /\ b.src = r /\ b.dst = EdgeRank(r, e)
          /\ e \in 0..(num_edges(t[1]) - 1) /\ t[1] \in Ranks
      BY <1>2, <2>4, StartEdge DEF Mail, Message
    <3>4. Expected(t)' = EdgeRank(r, e)
      BY <1>1, <2>4, <3>2, SameMesh DEF Expected
    <3> HIDE DEF b
    <3>5. wire'[t] = <<b>> /\ wire'[t][1] = b
      BY <3>2, OneMessage
    <3>6. OnMail(t)' /\ OnReceived(t)'
      <4>1. Mail' = Mail
        BY <1>1, SameMesh
      <4>2. OnMail(t)'
        BY <2>4, <3>3, <3>4, <3>5, <4>1 DEF OnMail
      <4> QED BY <3>2, <4>2 DEF OnReceived
    <3>7. Awaited(t)'
      <4>1. posted'[t][t[1]] = Preposted(r, t)
        BY <2>2, <2>4
      <4>2. /\ 1 \in 1..Len(Preposted(r, t))
            /\ Preposted(r, t)[1] = [src |-> EdgeRank(r, start_edge(t)), role |-> 0]
        BY <1>2, <2>4, PrepostedOk
      <4> QED BY <3>4, <4>1, <4>2 DEF Awaited
    <3> QED BY <1>1, <2>3, <3>2, <3>3, <3>6, <3>7, SameMesh DEF Route
  <2>5. CASE t[1] # r
    <3>1. token_obj'[t] = token_obj[t] /\ wire'[t] = wire[t] /\ posted'[t][t[1]] = posted[t][t[1]]
      BY <1>2, <2>2, <2>5, StartEdge DEF Start
    <3>2. Expected(t)' = Expected(t) /\ Returned(t)' = Returned(t)
      BY <1>1, <2>1, <3>1, SameMesh DEF Expected, Returned
    <3>3. OnMail(t)' /\ OnReceived(t)' /\ Awaited(t)'
      BY <1>1, <2>1, <3>1, <3>2, SameMesh DEF Routes, Route, OnMail, OnReceived, Awaited, Status
    <3> QED BY <1>1, <2>3, <3>1, <3>3, SameMesh DEF Routes, Route
  <2> QED BY <2>4, <2>5
<1>4. posted' = [t \in Tokens |-> posted'[t]]
  BY <1>1 DEF Start
<1> QED BY <1>1, <1>3, <1>4 DEF Routes

\* A token that is delivered is taken out of the receive that was posted for it.
LEMMA Delivered ==
  ASSUME IInv, Routes, NEW u \in Tokens, Deliver(u)
  PROVE  /\ Status(u) = "RUNNING" /\ got[u] = {} /\ wire[u] = <<wire[u][1]>> /\ wire[u][1] \in Mail
         /\ wire' = [wire EXCEPT ![u] = <<>>]
         /\ \E k \in 1..Len(posted[u][wire[u][1].dst]) :
              LET m == wire[u][1]
                  q == posted[u][m.dst]
              IN  /\ q[k].src = m.src
                  /\ posted' = [posted EXCEPT ![u][m.dst] = SubSeq(q, 1, k - 1) \o SubSeq(q, k + 1, Len(q))]
                  /\ got' = [got EXCEPT ![u] = {[rank |-> m.dst, role |-> q[k].role, bad |-> m.bad]}]
<1> DEFINE m == wire[u][1]
<1>1. wire[u] # <<>>
  BY DEF Deliver
<1>2. Status(u) = "RUNNING" /\ wire[u] = <<m>> /\ got[u] = {}
  BY <1>1 DEF IInv, Places, InOnePlace
<1>3. m \in Mail
  BY <1>1 DEF Routes, Route, OnMail
<1>4. Head(wire[u]) = m /\ Tail(wire[u]) = <<>>
  <2> HIDE DEF m
  <2> QED BY <1>2
<1>5. wire' = [wire EXCEPT ![u] = <<>>]
  BY <1>4 DEF Deliver, IInv, Shapes
<1>6. \A x : got[u] \cup {x} = {x}
  BY <1>2
<1>7. \E k \in 1..Len(posted[u][m.dst]) :
        /\ posted[u][m.dst][k].src = m.src
        /\ posted' = [posted EXCEPT ![u][m.dst] = SubSeq(posted[u][m.dst], 1, k - 1)
                                \o SubSeq(posted[u][m.dst], k + 1, Len(posted[u][m.dst]))]
        /\ got' = [got EXCEPT ![u] = got[u] \cup {[rank |-> m.dst,
                        role |-> posted[u][m.dst][k].role, bad |-> m.bad]}]
  <2> HIDE DEF m
  <2>1. LET q == posted[u][m.dst]
        IN  \E k \in 1..Len(q) :
              /\ q[k].src = m.src /\ \A h \in 1..(k - 1) : q[h].src # m.src
              /\ posted' = [posted EXCEPT ![u][m.dst] = SubSeq(q, 1, k - 1) \o SubSeq(q, k + 1, Len(q))]
              /\ got' = [got EXCEPT ![u] = @ \cup {[rank |-> m.dst, role |-> q[k].role, bad |-> m.bad]}]
    BY <1>4 DEF Deliver
  <2> QED BY <2>1
<1> QED BY <1>2, <1>3, <1>5, <1>6, <1>7

LEMMA DeliverRoutes ==
  ASSUME IInv, Routes, NEW u \in Tokens, Deliver(u)
  PROVE  Routes'
<1> DEFINE m == wire[u][1]
           d == u[1]
           q == posted[u][m.dst]
<1>1. setup' = setup /\ Ranks' = Ranks /\ Tokens' = Tokens /\ owed' = owed /\ token_obj' = token_obj
  BY SameSetup DEF Deliver
<1>2. /\ Status(u) = "RUNNING" /\ got[u] = {} /\ wire[u] # <<>> /\ m \in Mail
      /\ wire' = [wire EXCEPT ![u] = <<>>]
  <2>1. /\ Status(u) = "RUNNING" /\ got[u] = {} /\ wire[u] = <<m>> /\ m \in Mail
        /\ wire' = [wire EXCEPT ![u] = <<>>]
    BY Delivered
  <2> QED BY <2>1 DEF Deliver
<1>3. PICK k \in 1..Len(q) :
        /\ q[k].src = m.src
        /\ posted' = [posted EXCEPT ![u][m.dst] = SubSeq(q, 1, k - 1) \o SubSeq(q, k + 1, Len(q))]
        /\ got' = [got EXCEPT ![u] = {[rank |-> m.dst, role |-> q[k].role, bad |-> m.bad]}]
  BY Delivered
<1> DEFINE s == SubSeq(q, 1, k - 1) \o SubSeq(q, k + 1, Len(q))
           h == [rank |-> m.dst, role |-> q[k].role, bad |-> m.bad]
<1>4. m.dst \in Ranks /\ m.src \in Ranks /\ m.bad \in BOOLEAN /\ d \in Ranks
  BY <1>2, StartEdge DEF Mail, IInv
<1>5. Route(u) /\ posted = [t \in Tokens |-> posted[t]] /\ got = [t \in Tokens |-> got[t]]
  BY DEF Routes, IInv, Shapes
<1>6. q \in Seq(Receivable(m.dst, u)) /\ q[k] \in Receivable(m.dst, u) /\ Len(q) \in Nat
  <2>1. q \in Seq(Receivable(m.dst, u))
    BY <1>4, <1>5 DEF Route
  <2> HIDE DEF q
  <2> QED BY <2>1
<1>7. /\ s \in Seq(Receivable(m.dst, u)) /\ Len(s) = Len(q) - 1
      /\ \A j \in 1..(Len(q) - 1) : s[j] = IF j < k THEN q[j] ELSE q[j + 1]
  <2> HIDE DEF q
  <2> QED BY <1>6, Removed
<1>8. q[k].role \in 0..6 /\ (IF q[k].role = 0 THEN m.dst = d ELSE m.src = d)
  BY <1>3, <1>6 DEF Receivable
<1>9. /\ posted'[u] = [posted[u] EXCEPT ![m.dst] = s] /\ got'[u] = {h} /\ wire'[u] = <<>>
      /\ \A t \in Tokens \ {u} : posted'[t] = posted[t] /\ got'[t] = got[t] /\ wire'[t] = wire[t]
      /\ posted' = [t \in Tokens |-> posted'[t]]
  <2> HIDE DEF q, s, m
  <2> QED BY <1>2, <1>3, <1>5 DEF IInv, Shapes, s
<1> HIDE DEF s
<1>10. posted[u] = [r \in Ranks |-> posted[u][r]]
  BY <1>5 DEF Route
<1>11. \A r \in Ranks : posted'[u][r] = IF r = m.dst THEN s ELSE posted[u][r]
  BY <1>9, <1>10
<1>12. Expected(u)' = Expected(u)
  BY <1>1, SameMesh DEF Expected
<1>13. (m.src = d /\ m.dst = Expected(u)) \/ (m.src = Expected(u) /\ m.dst = d)
  BY <1>2, <1>5 DEF Route, OnMail
<1>14. OnReceived(u)'
  <2>1. h \in Completed /\ h.rank = IF h.role = 0 THEN d ELSE Expected(u)
    BY <1>4, <1>8, <1>13 DEF Completed
  <2> HIDE DEF h
  <2> QED BY <1>1, <1>9, <1>12, <2>1, SameMesh DEF OnReceived
<1>15. Awaited(u)'
  <2> SUFFICES ASSUME ~Returned(u)'
               PROVE  \E j \in 1..Len(posted'[u][d]) : posted'[u][d][j] = [src |-> Expected(u), role |-> 0]
    BY <1>12 DEF Awaited
  <2>1. q[k].role # 0
    <3>1. h.role = q[k].role
      OBVIOUS
    <3> HIDE DEF h, q
    <3> QED BY <1>9, <3>1 DEF Returned
  <2>2. PICK j \in 1..Len(posted[u][d]) : posted[u][d][j] = [src |-> Expected(u), role |-> 0]
    BY <1>2, <1>5 DEF Route, Awaited, Returned
  <2>3. CASE m.dst # d
    BY <1>4, <1>11, <2>2, <2>3
  <2>4. CASE m.dst = d
    <3>1. posted'[u][d] = s /\ q = posted[u][d] /\ j # k
      BY <1>4, <1>11, <2>1, <2>2, <2>4
    <3> HIDE DEF q
    <3>2. j \in Nat /\ k \in Nat /\ j \in 1..Len(q)
      BY <1>6, <2>2, <3>1
    <3>3. CASE j < k
      <4>1. j \in 1..(Len(q) - 1)
        BY <1>6, <3>2, <3>3
      <4>2. s[j] = q[j] /\ j \in 1..Len(s)
        BY <1>7, <3>3, <4>1
      <4> QED BY <2>2, <3>1, <4>2
    <3>4. CASE k < j
      <4>1. j - 1 \in 1..(Len(q) - 1) /\ ~(j - 1 < k) /\ (j - 1) + 1 = j
        BY <1>6, <3>2, <3>4
      <4> QED BY <1>7, <2>2, <3>1, <4>1
    <3> QED BY <3>1, <3>2, <3>3, <3>4
  <2> QED BY <2>3, <2>4
<1>16. Route(u)'
  <2>1. /\ posted'[u] = [r \in Ranks |-> posted'[u][r]]
        /\ \A r \in Ranks : posted'[u][r] \in Seq(Receivable(r, u))
    BY <1>5, <1>7, <1>9, <1>10, <1>11 DEF Route
  <2>2. OnMail(u)'
    BY <1>9 DEF OnMail
  <2> QED BY <1>1, <1>5, <1>14, <1>15, <2>1, <2>2, SameMesh DEF Route
<1>17. \A t \in Tokens \ {u} : Route(t)'
  BY <1>1, <1>9, RouteStays DEF Routes, IInv
<1> QED BY <1>1, <1>9, <1>16, <1>17 DEF Routes

LEMMA CorruptRoutes ==
  ASSUME IInv, Routes, NEW u \in Tokens, Corrupt(u)
  PROVE  Routes'
<1> DEFINE m == wire[u][1]
           b == Message(m.src, m.dst, m.role, TRUE)
<1>1. /\ setup' = setup /\ Ranks' = Ranks /\ Tokens' = Tokens
      /\ UNCHANGED <<posted, got, owed, token_obj>> /\ wire[u] # <<>>
  BY SameSetup DEF Corrupt
<1>2. wire[u] = <<m>> /\ Route(u) /\ wire = [t \in Tokens |-> wire[t]]
  BY <1>1 DEF IInv, Places, InOnePlace, Shapes, Routes
<1>3. m \in Mail /\ OnMail(u)
  BY <1>1, <1>2 DEF Route, OnMail
<1>4. wire' = [wire EXCEPT ![u] = <<b>>]
  <2>1. Head(wire[u]) = m /\ Tail(wire[u]) = <<>>
    <3> HIDE DEF m
    <3> QED BY <1>2
  <2>2. <<b>> \o <<>> = <<b>>
    <3> HIDE DEF b
    <3> QED OBVIOUS
  <2> QED BY <2>1, <2>2 DEF Corrupt
<1>5. b \in Mail /\ b.src = m.src /\ b.dst = m.dst
  BY <1>3 DEF Mail, Message
<1> HIDE DEF b
<1>6. wire'[u] = <<b>> /\ wire'[u][1] = b /\ \A t \in Tokens \ {u} : wire'[t] = wire[t]
  BY <1>2, <1>4, OneMessage
<1>7. Route(u)'
  <2>1. Expected(u)' = Expected(u) /\ Returned(u)' = Returned(u) /\ Mail' = Mail
    BY <1>1, SameMesh DEF Expected, Returned
  <2>2. OnMail(u)'
    BY <1>1, <1>3, <1>5, <1>6, <2>1 DEF OnMail
  <2>3. OnReceived(u)' /\ Awaited(u)'
    BY <1>1, <1>2, <2>1, SameMesh DEF Route, OnReceived, Awaited, Status
  <2> QED BY <1>1, <1>2, <2>2, <2>3, SameMesh DEF Route
<1>8. \A t \in Tokens \ {u} : Route(t)'
  BY <1>1, <1>6, RouteStays DEF Routes, IInv
<1> QED BY <1>1, <1>7, <1>8 DEF Routes

\* An edge sends a token back to where it expects it from again.
LEMMA BounceRoutes ==
  ASSUME IInv, Routes, NEW u \in Tokens, NEW r \in Ranks, NEW m \in got[u], BounceToken(u, r, m)
  PROVE  /\ Routes' /\ Expected(u) = r /\ ~Returned(u)
         /\ wire' = [wire EXCEPT ![u] = <<Message(r, u[1], m.role, m.bad)>>]
<1> DEFINE b == Message(r, u[1], m.role, m.bad)
<1>1. /\ setup' = setup /\ Ranks' = Ranks /\ Tokens' = Tokens
      /\ UNCHANGED <<posted, token_obj>>
      /\ m.role # 0 /\ m.rank = r /\ got' = [got EXCEPT ![u] = got[u] \ {m}]
      /\ wire' = [wire EXCEPT ![u] = Append(wire[u], b)]
      /\ owed' = [owed EXCEPT ![r] = {[token |-> u, role |-> m.role]}]
  BY SameSetup DEF BounceToken, Send
<1>2. /\ Status(u) = "RUNNING" /\ wire[u] = <<>> /\ got[u] \ {m} = {} /\ Route(u)
      /\ wire = [t \in Tokens |-> wire[t]] /\ got = [t \in Tokens |-> got[t]]
  BY Received DEF Routes, IInv, Shapes
<1>3. m \in Completed /\ m.rank = Expected(u) /\ u[1] \in Ranks
  BY <1>1, <1>2, StartEdge DEF Route, OnReceived, IInv
<1>4. b \in Mail /\ b.src = Expected(u) /\ b.dst = u[1] /\ m.role \in 1..6
  BY <1>1, <1>3 DEF Mail, Message, Completed
<1> HIDE DEF b
<1>5. wire' = [wire EXCEPT ![u] = <<b>>] /\ wire'[u] = <<b>> /\ wire'[u][1] = b /\ got'[u] = {}
  <2>1. wire' = [wire EXCEPT ![u] = Append(<<>>, b)] /\ got'[u] = {}
    BY <1>1, <1>2
  <2> QED BY <1>2, <2>1, OneMessage
<1>6. \A t \in Tokens \ {u} : wire'[t] = wire[t] /\ got'[t] = got[t]
  BY <1>1, <1>2
<1>7. ~Returned(u)
  BY <1>1, <1>2 DEF Returned
<1>8. Route(u)'
  <2>1. Expected(u)' = Expected(u) /\ Mail' = Mail
    BY <1>1, SameMesh DEF Expected
  <2>2. OnMail(u)'
    BY <1>1, <1>4, <1>5, <2>1 DEF OnMail
  <2>3. OnReceived(u)' /\ Awaited(u)'
    BY <1>1, <1>2, <1>5, <1>7, <2>1, SameMesh DEF Route, OnReceived, Awaited, Status
  <2> QED BY <1>1, <1>2, <2>2, <2>3, SameMesh DEF Route
<1>9. \A t \in Tokens \ {u} : Route(t)'
  BY <1>1, <1>6, RouteStays DEF Routes, IInv
<1>10. owed' \in [Ranks -> SUBSET [token : Tokens, role : 1..6]]
  BY <1>1, <1>4 DEF Routes
<1> QED BY <1>1, <1>3, <1>5, <1>7, <1>8, <1>9, <1>10 DEF Routes, b

LEMMA RepostRoutes ==
  ASSUME IInv, Routes, NEW r \in Ranks, Repost(r)
  PROVE  Routes'
<1>1. PICK o \in owed[r] :
        posted' = [posted EXCEPT ![o.token][r] = Append(@, [src |-> o.token[1], role |-> o.role])]
  BY DEF Repost, Post
<1>2. /\ setup' = setup /\ Ranks' = Ranks /\ Tokens' = Tokens
      /\ UNCHANGED <<wire, got, token_obj>> /\ owed' = [owed EXCEPT ![r] = {}]
  BY SameSetup DEF Repost
<1>3. o.token \in Tokens /\ o.role \in 1..6
  BY DEF Routes
<1> DEFINE u == o.token
           x == [src |-> u[1], role |-> o.role]
           q == posted[u][r]
<1>4. Route(u) /\ u[1] \in Ranks /\ posted = [t \in Tokens |-> posted[t]]
  BY <1>3, StartEdge DEF Routes, IInv
<1>5. x \in Receivable(r, u) /\ q \in Seq(Receivable(r, u))
  BY <1>3, <1>4 DEF Receivable, Route
<1>6. /\ Append(q, x) \in Seq(Receivable(r, u)) /\ Len(Append(q, x)) = Len(q) + 1 /\ Len(q) \in Nat
      /\ \A j \in 1..Len(q) : Append(q, x)[j] = q[j]
  <2> HIDE DEF q, x
  <2> QED BY <1>5, Appended
<1>7. /\ posted'[u] = [posted[u] EXCEPT ![r] = Append(q, x)]
      /\ \A t \in Tokens \ {u} : posted'[t] = posted[t]
  BY <1>1, <1>3, <1>4
<1> HIDE DEF x
<1>8. posted[u] = [p \in Ranks |-> posted[u][p]]
  BY <1>4 DEF Route
<1>9. \A p \in Ranks : posted'[u][p] = IF p = r THEN Append(q, x) ELSE posted[u][p]
  BY <1>7, <1>8
<1>10. Route(u)'
  <2>1. Expected(u)' = Expected(u) /\ Returned(u)' = Returned(u)
    BY <1>2, SameMesh DEF Expected, Returned
  <2>2. Awaited(u)'
    <3> SUFFICES ASSUME Status(u) = "RUNNING", ~Returned(u)
                 PROVE  \E j \in 1..Len(posted'[u][u[1]]) :
                          posted'[u][u[1]][j] = [src |-> Expected(u), role |-> 0]
      BY <1>2, <2>1 DEF Awaited, Status
    <3>1. PICK j \in 1..Len(posted[u][u[1]]) : posted[u][u[1]][j] = [src |-> Expected(u), role |-> 0]
      BY <1>4 DEF Route, Awaited
    <3>2. j \in 1..Len(posted'[u][u[1]]) /\ posted'[u][u[1]][j] = posted[u][u[1]][j]
      <4>1. CASE u[1] = r
        <5>1. posted'[u][u[1]] = Append(q, x) /\ j \in 1..Len(q) /\ posted[u][u[1]] = q
          BY <1>4, <1>9, <4>1
        <5> HIDE DEF q
        <5> QED BY <1>6, <5>1
      <4>2. CASE u[1] # r
        BY <1>4, <1>9, <4>2
      <4> QED BY <4>1, <4>2
    <3> QED BY <3>1, <3>2
  <2>3. OnMail(u)' /\ OnReceived(u)'
    BY <1>2, <1>4, <2>1, SameMesh DEF Route, OnMail, OnReceived
  <2>4. /\ posted'[u] = [p \in Ranks |-> posted'[u][p]]
        /\ \A p \in Ranks : posted'[u][p] \in Seq(Receivable(p, u))
    <3>1. posted'[u] = [p \in Ranks |-> posted'[u][p]]
      BY <1>7, <1>8
    <3>2. ASSUME NEW p \in Ranks PROVE posted'[u][p] \in Seq(Receivable(p, u))
      <4>1. posted[u][p] \in Seq(Receivable(p, u))
        BY <1>4 DEF Route
      <4> QED BY <1>6, <1>9, <4>1
    <3> QED BY <3>1, <3>2
  <2> QED BY <1>2, <1>4, <2>2, <2>3, <2>4, SameMesh DEF Route
<1>11. \A t \in Tokens \ {u} : Route(t)'
  BY <1>2, <1>7, RouteStays DEF Routes, IInv
<1>12. /\ posted' = [t \in Tokens |-> posted'[t]]
       /\ owed' \in [Ranks -> SUBSET [token : Tokens, role : 1..6]]
  BY <1>1, <1>2, <1>4 DEF Routes
<1> QED BY <1>2, <1>10, <1>11, <1>12 DEF Routes

\* A dealer sends its token on to the next edge, for whose bounce it has posted a
\* receive.
LEMMA Dealt ==
  ASSUME IInv, Routes, NEW u \in Tokens, NEW m \in got[u], DealToken(u, m)
  PROVE  LET next == (token_obj[u].edge + 1) % num_edges(u[1])
             b == Message(u[1], EdgeRank(u[1], next), 0, SentBad(IF Checked(u) THEN m.bad
                                                          ELSE temp_bad_bytes[u[1]], m.bad))
         IN  /\ next \in 0..(num_edges(u[1]) - 1) /\ EdgeRank(u[1], next) \in Ranks
             /\ b \in Mail /\ Returned(u)
             /\ wire' = [wire EXCEPT ![u] = <<b>>] /\ got' = [got EXCEPT ![u] = {}]
             /\ token_obj' = [token_obj EXCEPT ![u] = Object(next, CyclesNow(u), "RUNNING")]
             /\ posted' = [posted EXCEPT ![u][u[1]] =
                             Append(@, [src |-> EdgeRank(u[1], next), role |-> 0])]
<1> DEFINE next == (token_obj[u].edge + 1) % num_edges(u[1])
           found == IF Checked(u) THEN m.bad ELSE temp_bad_bytes[u[1]]
           b == Message(u[1], EdgeRank(u[1], next), 0, SentBad(found, m.bad))
<1>1. Route(u) /\ m \in Completed
  BY DEF Routes, Route, OnReceived
<1>2. u[1] \in Ranks /\ num_edges(u[1]) \in Nat \ {0} /\ token_obj[u].edge + 1 \in Nat
  BY <1>1, StartEdge DEF Route, IInv
<1>3. next \in 0..(num_edges(u[1]) - 1)
  BY <1>2, Divided
<1>4. EdgeRank(u[1], next) \in Ranks
  BY <1>3, StartEdge DEF IInv
<1>5. b \in Mail
  BY <1>1, <1>2, <1>4 DEF Mail, Message, SentBad, Completed
<1>6. Returned(u)
  BY DEF DealToken, Returned
<1>7. /\ wire' = [wire EXCEPT ![u] = Append(wire[u], b)] /\ got' = [got EXCEPT ![u] = got[u] \ {m}]
      /\ token_obj' = [token_obj EXCEPT ![u] = Object(next, CyclesNow(u), "RUNNING")]
      /\ posted' = [posted EXCEPT ![u][u[1]] = Append(@, [src |-> EdgeRank(u[1], next), role |-> 0])]
  BY DEF DealToken, Send, Post, NextFrom
<1>8. wire[u] = <<>> /\ got[u] \ {m} = {}
  BY Received
<1>9. wire' = [wire EXCEPT ![u] = <<b>>]
  <2> HIDE DEF b
  <2> QED BY <1>7, <1>8, OneMessage
<1> QED BY <1>3, <1>4, <1>5, <1>6, <1>7, <1>8, <1>9

LEMMA DealRoutes ==
  ASSUME IInv, Routes, NEW u \in Tokens, NEW m \in got[u], DealToken(u, m)
  PROVE  Routes'
<1> DEFINE next == (token_obj[u].edge + 1) % num_edges(u[1])
           b == Message(u[1], EdgeRank(u[1], next), 0,
                        SentBad(IF Checked(u) THEN m.bad ELSE temp_bad_bytes[u[1]], m.bad))
           to == EdgeRank(u[1], next)
           d == u[1]
           x == [src |-> to, role |-> 0]
           q == posted[u][d]
<1>1. /\ next \in 0..(num_edges(d) - 1) /\ to \in Ranks /\ b \in Mail
      /\ wire' = [wire EXCEPT ![u] = <<b>>] /\ got' = [got EXCEPT ![u] = {}]
      /\ token_obj' = [token_obj EXCEPT ![u] = Object(next, CyclesNow(u), "RUNNING")]
      /\ posted' = [posted EXCEPT ![u][d] = Append(@, x)]
  BY Dealt
<1>2. b.src = d /\ b.dst = to
  BY DEF Message
<1> HIDE DEF b, next
<1>3. /\ setup' = setup /\ Ranks' = Ranks /\ Tokens' = Tokens /\ owed' = owed
  BY SameSetup DEF DealToken
<1>4. /\ Route(u) /\ d \in Ranks
      /\ wire = [t \in Tokens |-> wire[t]] /\ got = [t \in Tokens |-> got[t]]
      /\ posted = [t \in Tokens |-> posted[t]]
      /\ token_obj = [t \in Tokens |-> [edge |-> token_obj[t].edge, cycles |-> token_obj[t].cycles,
                                        status |-> token_obj[t].status]]
  BY StartEdge DEF Routes, IInv, Shapes
<1>5. /\ wire'[u] = <<b>> /\ wire'[u][1] = b /\ got'[u] = {} /\ token_obj'[u].edge = next
      /\ posted'[u] = [posted[u] EXCEPT ![d] = Append(q, x)]
  BY <1>1, <1>4, OneMessage DEF Object
<1>6. \A t \in Tokens \ {u} : /\ wire'[t] = wire[t] /\ got'[t] = got[t]
                              /\ token_obj'[t] = token_obj[t] /\ posted'[t] = posted[t]
  BY <1>1, <1>4
<1>7. posted[u] = [p \in Ranks |-> posted[u][p]] /\ q \in Seq(Receivable(d, u))
  BY <1>4 DEF Route
<1>8. x \in Receivable(d, u)
  BY <1>1 DEF Receivable
<1> HIDE DEF q
<1>9. /\ Append(q, x) \in Seq(Receivable(d, u)) /\ Len(Append(q, x)) = Len(q) + 1 /\ Len(q) \in Nat
      /\ Append(q, x)[Len(q) + 1] = x
  <2> HIDE DEF x
  <2> QED BY <1>7, <1>8, Appended
<1>10. \A p \in Ranks : posted'[u][p] = IF p = d THEN Append(q, x) ELSE posted[u][p]
  BY <1>5, <1>7
<1>11. Route(u)'
  <2>1. Expected(u)' = to /\ Mail' = Mail
    BY <1>3, <1>5, SameMesh DEF Expected
  <2>2. OnMail(u)'
    BY <1>1, <1>2, <1>5, <2>1 DEF OnMail
  <2>3. Awaited(u)'
    <3>1. posted'[u][d] = Append(q, x)
      BY <1>4, <1>10
    <3>2. Len(q) + 1 \in 1..Len(posted'[u][d]) /\ posted'[u][d][Len(q) + 1] = x
      BY <1>9, <3>1
    <3> QED BY <2>1, <3>2 DEF Awaited
  <2>4. /\ posted'[u] = [p \in Ranks |-> posted'[u][p]]
        /\ \A p \in Ranks : posted'[u][p] \in Seq(Receivable(p, u))
    <3>1. posted'[u] = [p \in Ranks |-> posted'[u][p]]
      BY <1>5, <1>7
    <3>2. ASSUME NEW p \in Ranks PROVE posted'[u][p] \in Seq(Receivable(p, u))
      <4>1. posted[u][p] \in Seq(Receivable(p, u))
        BY <1>4 DEF Route
      <4> QED BY <1>9, <1>10, <4>1
    <3> QED BY <3>1, <3>2
  <2> QED BY <1>1, <1>3, <1>5, <2>2, <2>3, <2>4, SameMesh DEF Route, OnReceived
<1>12. \A t \in Tokens \ {u} : Route(t)'
  BY <1>3, <1>6, RouteStays DEF Routes, IInv
<1>13. posted' = [t \in Tokens |-> posted'[t]]
  BY <1>1, <1>4
<1> QED BY <1>3, <1>11, <1>12, <1>13 DEF Routes

LEMMA FinishRoutes ==
  ASSUME IInv, Routes, NEW u \in Tokens, NEW m \in got[u], FinishToken(u, m)
  PROVE  /\ Routes' /\ Returned(u) /\ got'[u] = {} /\ wire[u] = <<>> /\ wire' = wire
         /\ token_obj'[u] = Object(token_obj[u].edge, CyclesNow(u), "FINISHED")
         /\ \A t \in Tokens \ {u} : token_obj'[t] = token_obj[t] /\ got'[t] = got[t]
<1>1. /\ setup' = setup /\ Ranks' = Ranks /\ Tokens' = Tokens
      /\ UNCHANGED <<wire, posted, owed>> /\ got' = [got EXCEPT ![u] = got[u] \ {m}]
      /\ token_obj' = [token_obj EXCEPT ![u] = Object(token_obj[u].edge, CyclesNow(u), "FINISHED")]
      /\ m.role = 0
  BY SameSetup DEF FinishToken, IInv, Shapes
<1>2. wire[u] = <<>> /\ got[u] \ {m} = {} /\ Route(u)
  BY Received DEF Routes
<1>3. /\ got'[u] = {} /\ token_obj'[u] = Object(token_obj[u].edge, CyclesNow(u), "FINISHED")
      /\ \A t \in Tokens \ {u} : token_obj'[t] = token_obj[t] /\ got'[t] = got[t]
  BY <1>1, <1>2 DEF IInv, Shapes
<1>4. token_obj'[u].edge = token_obj[u].edge /\ Status(u)' = "FINISHED"
  BY <1>3 DEF Object, Status
<1>5. Route(u)'
  BY <1>1, <1>2, <1>3, <1>4, SameMesh DEF Route, OnMail, OnReceived, Awaited
<1>6. \A t \in Tokens \ {u} : Route(t)'
  BY <1>1, <1>3, RouteStays DEF Routes, IInv
<1>7. Returned(u)
  BY <1>1 DEF Returned
<1> QED BY <1>1, <1>2, <1>3, <1>5, <1>6, <1>7 DEF Routes

LEMMA RoutesKept ==
  ASSUME IInv, Routes, setup' = setup, UNCHANGED <<posted, owed, wire, got, token_obj>>
  PROVE  Routes'
BY SameSetup, RouteStays DEF Routes, IInv

\* The barriers, time and the control coordination leave the tokens alone.
Quiet == UNCHANGED <<setup, passing, faults>>

LEMMA QuietSteps ==
  ASSUME \/ UNCHANGED vars
         \/ \E r \in Ranks, told \in BOOLEAN : ControlOther(r, told)
         \/ \E heard \in SUBSET Unheard : ControlMesh(heard)
         \/ BeginLoop \/ ControlStar \/ TimeUp \/ EndBarrier \/ Ended
  PROVE  Quiet
BY DEF vars, ControlOther, ControlMesh, BeginLoop, ControlStar, TimeUp, EndBarrier, Ended,
       Quiet, passing

LEMMA StepRoutes ==
  ASSUME IInv, Routes, [Next]_vars
  PROVE  Routes'
<1>1. CASE \E r \in Ranks : Start(r) \/ Repost(r)
  BY <1>1, StartRoutes, RepostRoutes
<1>2. CASE \E r \in Ranks : Handle(r)
  BY <1>2, FinishRoutes, DealRoutes, BounceRoutes DEF Handle
<1>3. CASE \E t \in Tokens : Deliver(t) \/ Corrupt(t)
  BY <1>3, DeliverRoutes, CorruptRoutes
<1>4. CASE Quiet
  BY <1>4, RoutesKept DEF Quiet, passing
<1> QED BY <1>1, <1>2, <1>3, <1>4, QuietSteps DEF Next

\* A bounce always finds the receive its dealer posted for it, so the dealer never
\* gets a message it did not expect (part of MessagesExpected).
THEOREM BouncesExpected == Spec => []BounceExpected
<1>1. IInv /\ Routes => BounceExpected
  <2> SUFFICES ASSUME IInv, Routes, NEW t \in Tokens, NEW i \in 1..Len(wire[t]),
                      wire[t][i].dst = t[1], wire[t][i].src # t[1]
               PROVE  \E k \in 1..Len(posted[t][t[1]]) :
                        posted[t][t[1]][k] = [src |-> wire[t][i].src, role |-> 0]
    BY DEF BounceExpected
  <2>1. wire[t] # <<>>
    OBVIOUS
  <2>2. Status(t) = "RUNNING" /\ wire[t] = <<wire[t][1]>> /\ got[t] = {} /\ Route(t)
    BY <2>1 DEF IInv, Places, InOnePlace, Routes
  <2>3. Len(wire[t]) = 1 /\ i = 1
    <3>1. \A x : Len(<<x>>) = 1
      OBVIOUS
    <3>2. Len(wire[t]) = 1
      BY <2>2, <3>1
    <3> QED BY <3>2
  <2>4. wire[t][1].src = Expected(t)
    BY <2>1, <2>2, <2>3 DEF Route, OnMail
  <2> QED BY <2>2, <2>3, <2>4 DEF Route, Awaited, Returned
<1>2. Init => IInv /\ Routes
  BY InitInv, InitRoutes
<1>3. IInv /\ Routes /\ [Next]_vars => (IInv /\ Routes)'
  BY StepKeeps, StepRoutes
<1> QED BY <1>1, <1>2, <1>3, PTL DEF Spec

\* MessagesExpected, for every topology, size and number of tokens: one message or
\* completed receive per running token, no bounce that its dealer has not posted a
\* receive for, and no receive into a buffer that is being sent.
THEOREM MessagesSafe == Spec => []MessagesExpected
<1>1. OneCopy /\ BounceExpected /\ BufferFree => MessagesExpected
  BY DEF MessagesExpected
<1> QED BY <1>1, OneCopyAlways, BouncesExpected, BuffersFree, PTL

--------------------------------------------------------------------------------
(* The trips of a token *)

\* Between two edges of a ring of n: from a up to x, and all of it when they are
\* the same.
Span(n, a, x) == {e \in 0..(n - 1) : IF a < x THEN a <= e /\ e < x ELSE a <= e \/ e < x}

\* The edges of a token's dealer that are rank r, those the token has passed in this
\* cycle, and whether the bounce of the edge it was sent to is made.
At(t, r)  == {e \in 0..(num_edges(t[1]) - 1) : EdgeRank(t[1], e) = r}
Behind(t) == Span(num_edges(t[1]), start_edge(t), token_obj[t].edge)
Back(t)   == \/ Returned(t)
             \/ wire[t] # <<>> /\ wire[t][1].dst = t[1] /\ wire[t][1].src # t[1]

\* How often rank r has bounced a token that is not finished.
Bounces(t, r) ==
  Cardinality(At(t, r)) * token_obj[t].cycles + Cardinality(At(t, r) \cap Behind(t))
    + (IF Expected(t) = r /\ Back(t) THEN 1 ELSE 0)

Trip(t) ==
  /\ token_obj[t].cycles \in Int /\ bounced[t] \in [Ranks -> Nat]
  /\ Status(t) = "IDLE" => token_obj[t].edge = start_edge(t) /\ token_obj[t].cycles = NoCycles
  /\ \A r \in Ranks \ {t[1]} :
       bounced[t][r] = IF Status(t) = "FINISHED" THEN Visits(t, r) ELSE Bounces(t, r)

Trips == bounced = [t \in Tokens |-> bounced[t]] /\ \A t \in Tokens : Trip(t)

LEMMA Ring ==
  ASSUME NEW n \in Nat \ {0}, NEW a \in 0..(n - 1), NEW b \in 0..(n - 1)
  PROVE  /\ b = a => Span(n, a, b) = 0..(n - 1) /\ Span(n, a, (b + 1) % n) = {a}
         /\ b # a => Span(n, a, (b + 1) % n) = Span(n, a, b) \cup {b} /\ b \notin Span(n, a, b)
<1>1. (b + 1) % n = IF b = n - 1 THEN 0 ELSE b + 1
  OBVIOUS
<1> DEFINE next == IF b = n - 1 THEN 0 ELSE b + 1
<1>2. b = a => Span(n, a, b) = 0..(n - 1)
  BY DEF Span
<1>3. b = a => Span(n, a, next) = {a}
  BY DEF Span
<1>4. b # a => Span(n, a, next) = Span(n, a, b) \cup {b} /\ b \notin Span(n, a, b)
  BY DEF Span
<1> QED BY <1>1, <1>2, <1>3, <1>4

LEMMA AtFinite ==
  ASSUME Shapes, NEW t \in Tokens, NEW r
  PROVE  /\ IsFiniteSet(At(t, r)) /\ Cardinality(At(t, r)) \in Nat
         /\ At(t, r) \subseteq 0..(num_edges(t[1]) - 1)
         /\ \A B : IsFiniteSet(At(t, r) \cap B) /\ Cardinality(At(t, r) \cap B) \in Nat
<1>1. IsFiniteSet(0..(num_edges(t[1]) - 1))
  BY StartEdge, IntervalSize
<1>2. At(t, r) \in SUBSET (0..(num_edges(t[1]) - 1))
  BY DEF At
<1>3. IsFiniteSet(At(t, r))
  BY <1>1, <1>2, FS_Subset
<1>4. \A B : At(t, r) \cap B \in SUBSET At(t, r)
  OBVIOUS
<1>5. \A B : IsFiniteSet(At(t, r) \cap B)
  BY <1>3, <1>4, FS_Subset
<1> QED BY <1>2, <1>3, <1>5, FS_CardinalityType

\* A token that came back and goes on to the next edge: the same bounces.
LEMMA OneEdgeOn ==
  ASSUME Shapes, NEW t \in Tokens, token_obj[t].edge \in 0..(num_edges(t[1]) - 1), NEW r,
         NEW c \in Int
  PROVE  LET edge == token_obj[t].edge
             A == At(t, r)
             next == (edge + 1) % num_edges(t[1])
             one == IF Expected(t) = r THEN 1 ELSE 0
         IN  /\ Around(t) =>
                  /\ Cardinality(A) * c + Cardinality(A \cap Behind(t)) + one
                       = Cardinality(A) * (c + 1) + Cardinality(A \cap Span(num_edges(t[1]), start_edge(t), next))
                  /\ Cardinality(A) * c + Cardinality(A \cap Behind(t)) + one
                       = Cardinality(A) * (c + 1) + (IF start_edge(t) \in A THEN 1 ELSE 0)
             /\ ~Around(t) =>
                  Cardinality(A \cap Behind(t)) + one
                    = Cardinality(A \cap Span(num_edges(t[1]), start_edge(t), next))
<1> DEFINE n == num_edges(t[1])
           a == start_edge(t)
           b == token_obj[t].edge
           A == At(t, r)
           S == Span(n, a, (b + 1) % n)
           one == IF Expected(t) = r THEN 1 ELSE 0
<1>1. n \in Nat \ {0} /\ a \in 0..(n - 1) /\ b \in 0..(n - 1)
  BY StartEdge
<1>2. /\ b = a => Behind(t) = 0..(n - 1) /\ S = {a}
      /\ b # a => S = Behind(t) \cup {b} /\ b \notin Behind(t)
  <2> HIDE DEF n, a, b
  <2>1. Behind(t) = Span(n, a, b)
    BY DEF Behind, n, a, b
  <2>2. /\ b = a => Span(n, a, b) = 0..(n - 1) /\ Span(n, a, (b + 1) % n) = {a}
        /\ b # a => Span(n, a, (b + 1) % n) = Span(n, a, b) \cup {b} /\ b \notin Span(n, a, b)
    BY <1>1, Ring
  <2> QED BY <2>1, <2>2
<1>3. /\ IsFiniteSet(A) /\ Cardinality(A) \in Nat /\ A \subseteq 0..(n - 1)
      /\ \A B : IsFiniteSet(A \cap B) /\ Cardinality(A \cap B) \in Nat
  BY AtFinite
<1>4. Expected(t) = r <=> b \in A
  BY DEF At, Expected
<1>5. CASE Around(t)
  <2>1. b = a
    BY <1>5 DEF Around
  <2>2. A \cap Behind(t) = A
    BY <1>2, <1>3, <2>1
  <2>3. Cardinality(A \cap S) = one
    <3>1. A \cap S = IF a \in A THEN {a} ELSE {}
      BY <1>2, <2>1
    <3>2. Cardinality({a}) = 1 /\ Cardinality({}) = 0
      BY FS_Singleton, FS_EmptySet
    <3> QED BY <1>4, <2>1, <3>1, <3>2
  <2>4. Cardinality(A) * (c + 1) = Cardinality(A) * c + Cardinality(A) /\ Cardinality(A) * c \in Int
    BY <1>3
  <2>5. one = (IF a \in A THEN 1 ELSE 0) /\ one \in Nat
    BY <1>4, <2>1
  <2> HIDE DEF A, S, one, a
  <2>6. Cardinality(A) * c + Cardinality(A \cap Behind(t)) + one
          = Cardinality(A) * (c + 1) + one
    BY <1>3, <2>2, <2>4, <2>5
  <2> QED BY <1>5, <2>3, <2>5, <2>6 DEF A, S, one, a
<1>6. CASE ~Around(t)
  <2>1. b # a
    BY <1>6 DEF Around
  <2>2. Cardinality(A \cap S) = Cardinality(A \cap Behind(t)) + one
    <3>1. CASE b \in A
      <4>1. A \cap S = (A \cap Behind(t)) \cup {b} /\ b \notin A \cap Behind(t)
        BY <1>2, <2>1, <3>1
      <4>2. Cardinality((A \cap Behind(t)) \cup {b}) = Cardinality(A \cap Behind(t)) + 1
        BY <1>3, <4>1, FS_AddElement
      <4>3. one = 1
        BY <1>4, <3>1
      <4> HIDE DEF one, A, S, b
      <4> QED BY <4>1, <4>2, <4>3
    <3>2. CASE b \notin A
      <4>1. A \cap S = A \cap Behind(t)
        BY <1>2, <2>1, <3>2
      <4>2. one = 0 /\ Cardinality(A \cap Behind(t)) \in Nat
        BY <1>3, <1>4, <3>2
      <4>3. Cardinality(A \cap S) = Cardinality(A \cap Behind(t))
        BY <4>1
      <4> HIDE DEF one, A, S, b
      <4> QED BY <4>2, <4>3
    <3> QED BY <3>1, <3>2
  <2> QED BY <1>6, <2>2
<1> QED BY <1>5, <1>6

LEMMA SameTrip ==
  ASSUME setup' = setup
  PROVE  /\ \A t, r : At(t, r)' = At(t, r) /\ Visits(t, r)' = Visits(t, r)
         /\ \A n, a, x : Span(n, a, x)' = Span(n, a, x)
         /\ \A t : UNCHANGED token_obj[t] => Behind(t)' = Behind(t) /\ Expected(t)' = Expected(t)
<1>1. \A t, r : At(t, r)' = At(t, r)
  BY SameMesh DEF At
<1>2. count' = count
  BY DEF count, AtLeast
<1>3. \A t, r : Visits(t, r)' = Visits(t, r)
  BY <1>2, SameMesh, SameSetup DEF Visits
<1>4. \A n, a, x : Span(n, a, x)' = Span(n, a, x)
  BY DEF Span
<1>5. \A t : UNCHANGED token_obj[t] => Behind(t)' = Behind(t) /\ Expected(t)' = Expected(t)
  BY <1>4, SameMesh, SameSetup DEF Behind, Expected
<1> QED BY <1>1, <1>3, <1>4, <1>5

\* A token whose object and bounces a step leaves alone, and which it brings back to
\* its dealer only from where it came back before.
LEMMA TripStays ==
  ASSUME setup' = setup, NEW t \in Tokens, Trip(t), UNCHANGED <<token_obj[t], bounced[t]>>,
         Expected(t) # t[1] => Back(t)' = Back(t)
  PROVE  Trip(t)'
<1>1. \A r \in Ranks \ {t[1]} : Bounces(t, r)' = Bounces(t, r)
  <2> TAKE r \in Ranks \ {t[1]}
  <2>1. At(t, r)' = At(t, r) /\ Behind(t)' = Behind(t) /\ Expected(t)' = Expected(t)
    BY SameTrip
  <2>2. (Expected(t)' = r /\ Back(t)') <=> (Expected(t) = r /\ Back(t))
    BY <2>1
  <2>3. Cardinality(At(t, r))' = Cardinality(At(t, r))
        /\ Cardinality(At(t, r) \cap Behind(t))' = Cardinality(At(t, r) \cap Behind(t))
    BY <2>1
  <2> QED BY <2>2, <2>3 DEF Bounces
<1>2. Ranks' = Ranks /\ start_edge(t)' = start_edge(t)
  BY SameSetup
<1> QED BY <1>1, <1>2, SameTrip DEF Trip, Status, NoCycles

LEMMA InitTrips == Init => Trips
<1> SUFFICES ASSUME Init PROVE Trips
  OBVIOUS
<1>1. Shapes
  BY InitInv DEF IInv
<1>2. ASSUME NEW t \in Tokens PROVE Trip(t)
  <2>1. /\ bounced[t] = [r \in Ranks |-> 0] /\ wire[t] = <<>> /\ got[t] = {}
        /\ token_obj[t].edge = start_edge(t) /\ token_obj[t].cycles = NoCycles /\ Status(t) = "IDLE"
    BY DEF Init, Status, Object
  <2>2. NoCycles = -1 /\ NoCycles \in Int
    BY DEF NoCycles
  <2>3. ASSUME NEW r \in Ranks PROVE Bounces(t, r) = 0
    <3>1. Behind(t) = 0..(num_edges(t[1]) - 1)
      BY <1>1, <2>1, StartEdge, Ring DEF Behind
    <3>2. At(t, r) \cap Behind(t) = At(t, r) /\ Cardinality(At(t, r)) \in Nat
      BY <1>1, <3>1, AtFinite
    <3>3. ~Back(t)
      BY <2>1 DEF Back, Returned
    <3>4. Bounces(t, r) = Cardinality(At(t, r)) * NoCycles + Cardinality(At(t, r)) + 0
      BY <2>1, <3>2, <3>3 DEF Bounces
    <3> QED BY <2>2, <3>2, <3>4
  <2> QED BY <2>1, <2>2, <2>3 DEF Trip
<1> QED BY <1>2 DEF Trips, Init

LEMMA StartTrips ==
  ASSUME IInv, Trips, NEW r \in Ranks, Start(r)
  PROVE  Trips'
<1>1. setup' = setup /\ Ranks' = Ranks /\ Tokens' = Tokens /\ bounced' = bounced /\ got' = got
  BY SameSetup DEF Start
<1>2. ASSUME NEW t \in Tokens PROVE Trip(t)'
  <2>1. CASE t[1] = r
    <3>1. Status(t) = "IDLE" /\ wire[t] = <<>> /\ got[t] = {} /\ Trip(t)
      BY <2>1 DEF IInv, Places, InOnePlace, Start, Trips
    <3>2. /\ token_obj'[t] = Object(start_edge(t), NoCycles, "RUNNING")
          /\ token_obj[t].edge = start_edge(t) /\ token_obj[t].cycles = NoCycles
      BY <2>1, <3>1 DEF Start, Trip
    <3>3. /\ token_obj'[t].edge = token_obj[t].edge /\ token_obj'[t].cycles = token_obj[t].cycles
          /\ Status(t)' = "RUNNING"
      BY <3>2 DEF Object, Status
    <3>4. Behind(t)' = Behind(t)
      BY <1>1, <3>3, SameMesh, SameSetup DEF Behind, Span
    <3>5. ~Back(t)
      BY <3>1 DEF Back, Returned
    <3>6. ~Back(t)'
      <4> DEFINE b == Message(r, EdgeRank(r, start_edge(t)), 0, FALSE)
      <4>1. wire'[t] = Append(<<>>, b) /\ b.src = r
        BY <2>1, <3>1 DEF Start, Message
      <4> HIDE DEF b
      <4>2. wire'[t][1].src = t[1]
        BY <2>1, <4>1, OneMessage
      <4> QED BY <1>1, <3>1, <4>2 DEF Back, Returned
    <3>7. \A q \in Ranks : Bounces(t, q)' = Bounces(t, q)
      BY <1>1, <3>3, <3>4, <3>5, <3>6, SameTrip DEF Bounces
    <3>8. /\ token_obj[t].cycles \in Int /\ bounced[t] \in [Ranks -> Nat]
          /\ \A q \in Ranks \ {t[1]} : bounced[t][q] = Bounces(t, q)
      BY <3>1 DEF Trip
    <3> QED BY <1>1, <3>3, <3>7, <3>8 DEF Trip
  <2>2. CASE t[1] # r
    <3>1. UNCHANGED <<token_obj[t], bounced[t], wire[t], got[t]>>
      BY <1>1, <2>2 DEF Start
    <3>2. Back(t)' = Back(t) /\ Trip(t)
      BY <3>1 DEF Back, Returned, Trips
    <3> QED BY <1>1, <3>1, <3>2, TripStays
  <2> QED BY <2>1, <2>2
<1> QED BY <1>1, <1>2 DEF Trips

LEMMA DeliverTrips ==
  ASSUME IInv, Routes, Trips, NEW u \in Tokens, Deliver(u)
  PROVE  Trips'
<1> DEFINE m == wire[u][1]
           d == u[1]
           q == posted[u][m.dst]
<1>1. /\ setup' = setup /\ Ranks' = Ranks /\ Tokens' = Tokens
      /\ UNCHANGED <<token_obj, bounced>> /\ wire[u] # <<>>
  BY SameSetup DEF Deliver
<1>2. PICK k \in 1..Len(q) :
        /\ q[k].src = m.src
        /\ got' = [got EXCEPT ![u] = {[rank |-> m.dst, role |-> q[k].role, bad |-> m.bad]}]
  BY Delivered
<1>3. got[u] = {} /\ wire' = [wire EXCEPT ![u] = <<>>] /\ m \in Mail
  BY Delivered
<1>4. /\ wire = [t \in Tokens |-> wire[t]] /\ got = [t \in Tokens |-> got[t]]
      /\ Route(u)
  BY DEF IInv, Shapes, Routes
<1>5. q[k] \in Receivable(m.dst, u)
  <2>1. q \in Seq(Receivable(m.dst, u))
    BY <1>3, <1>4 DEF Route, Mail
  <2> HIDE DEF q
  <2> QED BY <2>1
<1>6. /\ (m.src = d /\ m.dst = Expected(u)) \/ (m.src = Expected(u) /\ m.dst = d)
      /\ IF q[k].role = 0 THEN m.dst = d ELSE m.src = d
  BY <1>1, <1>2, <1>4, <1>5 DEF Route, OnMail, Receivable
<1>7. Returned(u)' <=> q[k].role = 0
  <2>1. got'[u] = {[rank |-> m.dst, role |-> q[k].role, bad |-> m.bad]}
    BY <1>2, <1>4
  <2> QED BY <2>1 DEF Returned
<1>8. wire'[u] = <<>> /\ ~Returned(u)
  BY <1>3, <1>4 DEF Returned
<1>9. Expected(u) # d => Back(u)' = Back(u)
  <2> HIDE DEF q
  <2> QED BY <1>1, <1>6, <1>7, <1>8 DEF Back
<1>10. \A t \in Tokens \ {u} : wire'[t] = wire[t] /\ got'[t] = got[t]
  BY <1>2, <1>3, <1>4
<1>11. \A t \in Tokens \ {u} : Back(t)' = Back(t)
  BY <1>10 DEF Back, Returned
<1> QED BY <1>1, <1>9, <1>11, TripStays DEF Trips

LEMMA CorruptTrips ==
  ASSUME IInv, Trips, NEW u \in Tokens, Corrupt(u)
  PROVE  Trips'
<1> DEFINE m == wire[u][1]
           b == Message(m.src, m.dst, m.role, TRUE)
<1>1. /\ setup' = setup /\ Tokens' = Tokens
      /\ UNCHANGED <<got, token_obj, bounced>> /\ wire[u] # <<>>
  BY SameSetup DEF Corrupt
<1>2. wire[u] = <<m>> /\ wire = [t \in Tokens |-> wire[t]]
  BY <1>1 DEF IInv, Places, InOnePlace, Shapes
<1>3. wire' = [wire EXCEPT ![u] = <<b>>]
  <2>1. Head(wire[u]) = m /\ Tail(wire[u]) = <<>>
    <3> HIDE DEF m
    <3> QED BY <1>2
  <2>2. <<b>> \o <<>> = <<b>>
    <3> HIDE DEF b
    <3> QED OBVIOUS
  <2> QED BY <2>1, <2>2 DEF Corrupt
<1>4. b.src = m.src /\ b.dst = m.dst
  BY DEF Message
<1> HIDE DEF b
<1>5. wire'[u] = <<b>> /\ wire'[u][1] = b /\ \A t \in Tokens \ {u} : wire'[t] = wire[t]
  BY <1>2, <1>3, OneMessage
<1>6. \A t \in Tokens : Back(t)' = Back(t)
  BY <1>1, <1>4, <1>5 DEF Back, Returned
<1> QED BY <1>1, <1>6, TripStays DEF Trips

LEMMA BounceTrips ==
  ASSUME IInv, Routes, Trips, NEW u \in Tokens, NEW r \in Ranks, NEW m \in got[u], BounceToken(u, r, m)
  PROVE  Trips'
<1> DEFINE b == Message(r, u[1], m.role, m.bad)
<1>1. /\ setup' = setup /\ Ranks' = Ranks /\ Tokens' = Tokens /\ token_obj' = token_obj
      /\ got' = [got EXCEPT ![u] = got[u] \ {m}]
      /\ bounced' = [bounced EXCEPT ![u][r] = @ + 1]
  BY SameSetup DEF BounceToken
<1>2. Expected(u) = r /\ ~Returned(u) /\ wire' = [wire EXCEPT ![u] = <<b>>]
  BY BounceRoutes
<1>3. /\ Status(u) = "RUNNING" /\ wire[u] = <<>> /\ got[u] \ {m} = {} /\ Trip(u)
      /\ wire = [t \in Tokens |-> wire[t]] /\ got = [t \in Tokens |-> got[t]]
      /\ bounced = [t \in Tokens |-> bounced[t]]
  BY Received DEF IInv, Shapes, Trips
<1>4. b.src = r /\ b.dst = u[1]
  BY DEF Message
<1> HIDE DEF b
<1>5. /\ wire'[u] = <<b>> /\ wire'[u][1] = b /\ wire'[u] # <<>> /\ got'[u] = {}
      /\ \A t \in Tokens \ {u} : wire'[t] = wire[t] /\ got'[t] = got[t] /\ bounced'[t] = bounced[t]
      /\ bounced'[u] = [bounced[u] EXCEPT ![r] = @ + 1]
      /\ bounced' = [t \in Tokens |-> bounced'[t]]
  BY <1>1, <1>2, <1>3, OneMessage
<1>6. ~Back(u) /\ (r # u[1] => Back(u)')
  BY <1>2, <1>3, <1>4, <1>5 DEF Back
<1>7. \A q \in Ranks \ {u[1]} : Bounces(u, q)' = Bounces(u, q) + (IF q = r THEN 1 ELSE 0)
  <2> TAKE q \in Ranks \ {u[1]}
  <2> DEFINE base == Cardinality(At(u, q)) * token_obj[u].cycles + Cardinality(At(u, q) \cap Behind(u))
  <2>1. base \in Int
    <3>1. Cardinality(At(u, q)) \in Nat /\ Cardinality(At(u, q) \cap Behind(u)) \in Nat
      BY AtFinite DEF IInv
    <3> QED BY <1>3, <3>1 DEF Trip
  <2>2. Bounces(u, q) = base + 0
    BY <1>6 DEF Bounces
  <2>3. Bounces(u, q)' = base + (IF r = q /\ Back(u)' THEN 1 ELSE 0)
    <3>1. At(u, q)' = At(u, q) /\ Behind(u)' = Behind(u) /\ Expected(u)' = r
      BY <1>1, <1>2, SameTrip
    <3>2. Cardinality(At(u, q))' = Cardinality(At(u, q))
          /\ Cardinality(At(u, q) \cap Behind(u))' = Cardinality(At(u, q) \cap Behind(u))
      BY <3>1
    <3> QED BY <1>1, <3>1, <3>2 DEF Bounces
  <2> HIDE DEF base
  <2> QED BY <1>6, <2>1, <2>2, <2>3
<1>8. Trip(u)'
  <2>1. \A q \in Ranks : bounced'[u][q] = bounced[u][q] + (IF q = r THEN 1 ELSE 0)
    BY <1>3, <1>5 DEF Trip
  <2>2. bounced'[u] \in [Ranks -> Nat]
    BY <1>3, <1>5 DEF Trip
  <2>3. Status(u)' = "RUNNING"
    BY <1>1, <1>3 DEF Status
  <2>4. \A q \in Ranks \ {u[1]} : bounced[u][q] = Bounces(u, q)
    BY <1>3 DEF Trip
  <2> QED BY <1>1, <1>3, <1>7, <2>1, <2>2, <2>3, <2>4 DEF Trip
<1>9. \A t \in Tokens \ {u} : Trip(t)'
  <2>1. \A t \in Tokens \ {u} : Back(t)' = Back(t)
    BY <1>5 DEF Back, Returned
  <2> QED BY <1>1, <1>5, <2>1, TripStays DEF Trips
<1> QED BY <1>1, <1>5, <1>8, <1>9 DEF Trips

LEMMA DealTrips ==
  ASSUME IInv, Routes, Trips, NEW u \in Tokens, NEW m \in got[u], DealToken(u, m)
  PROVE  Trips'
<1> DEFINE n == num_edges(u[1])
           next == (token_obj[u].edge + 1) % n
           b == Message(u[1], EdgeRank(u[1], next), 0,
                        SentBad(IF Checked(u) THEN m.bad ELSE temp_bad_bytes[u[1]], m.bad))
           c == token_obj[u].cycles
<1>1. /\ Returned(u) /\ wire' = [wire EXCEPT ![u] = <<b>>] /\ got' = [got EXCEPT ![u] = {}]
      /\ token_obj' = [token_obj EXCEPT ![u] = Object(next, CyclesNow(u), "RUNNING")]
  BY Dealt
<1>2. b.src = u[1]
  BY DEF Message
<1> HIDE DEF b
<1>3. /\ setup' = setup /\ Ranks' = Ranks /\ Tokens' = Tokens /\ bounced' = bounced
  BY SameSetup DEF DealToken
<1>4. /\ Route(u) /\ Trip(u) /\ Status(u) = "RUNNING" /\ Shapes
      /\ wire = [t \in Tokens |-> wire[t]] /\ got = [t \in Tokens |-> got[t]]
  BY Received DEF Routes, Trips, IInv, Shapes
<1>5. /\ wire'[u] = <<b>> /\ wire'[u][1] = b /\ got'[u] = {}
      /\ token_obj'[u] = Object(next, CyclesNow(u), "RUNNING")
      /\ \A t \in Tokens \ {u} : wire'[t] = wire[t] /\ got'[t] = got[t] /\ token_obj'[t] = token_obj[t]
  BY <1>1, <1>4, OneMessage DEF Shapes
<1>6. /\ token_obj'[u].edge = next /\ token_obj'[u].cycles = CyclesNow(u) /\ Status(u)' = "RUNNING"
  BY <1>5 DEF Object, Status
<1>7. Back(u) /\ ~Back(u)'
  BY <1>1, <1>2, <1>5 DEF Back, Returned
<1>8. c \in Int /\ CyclesNow(u) = c + (IF Around(u) THEN 1 ELSE 0)
  BY <1>4 DEF Trip, CyclesNow
<1>9. ASSUME NEW q \in Ranks \ {u[1]} PROVE Bounces(u, q)' = Bounces(u, q)
  <2> DEFINE A == At(u, q)
             S == Span(n, start_edge(u), next)
             one == IF Expected(u) = q THEN 1 ELSE 0
  <2>1. At(u, q)' = A /\ Behind(u)' = S
    <3>1. Behind(u)' = Span(n, start_edge(u), next)
      BY <1>3, <1>6, SameMesh, SameSetup DEF Behind, Span
    <3> QED BY <1>3, <3>1, SameTrip
  <2>2. Bounces(u, q)' = Cardinality(A) * CyclesNow(u) + Cardinality(A \cap S) + 0
    <3>1. Cardinality(At(u, q))' = Cardinality(A)
          /\ Cardinality(At(u, q) \cap Behind(u))' = Cardinality(A \cap S)
      BY <2>1
    <3> HIDE DEF A, S
    <3> QED BY <1>6, <1>7, <3>1 DEF Bounces
  <2>3. Bounces(u, q) = Cardinality(A) * c + Cardinality(A \cap Behind(u)) + one
    BY <1>7 DEF Bounces
  <2>4. /\ Around(u) => Cardinality(A) * c + Cardinality(A \cap Behind(u)) + one
                          = Cardinality(A) * (c + 1) + Cardinality(A \cap S)
        /\ ~Around(u) => Cardinality(A \cap Behind(u)) + one = Cardinality(A \cap S)
    <3>1. token_obj[u].edge \in 0..(num_edges(u[1]) - 1)
      BY <1>4 DEF Route
    <3> QED BY <1>4, <1>8, <3>1, OneEdgeOn
  <2>5. /\ Cardinality(A) \in Nat /\ Cardinality(A \cap S) \in Nat
        /\ Cardinality(A \cap Behind(u)) \in Nat
    BY <1>4, AtFinite
  <2>6. one \in Nat
    OBVIOUS
  <2> HIDE DEF A, S, one, c
  <2>7. CASE Around(u)
    <3>1. CyclesNow(u) = c + 1
      BY <1>8, <2>7
    <3> QED BY <1>8, <2>2, <2>3, <2>4, <2>5, <2>6, <2>7, <3>1
  <2>8. CASE ~Around(u)
    <3>1. CyclesNow(u) = c
      BY <1>8, <2>8
    <3> QED BY <1>8, <2>2, <2>3, <2>4, <2>5, <2>6, <2>8, <3>1
  <2> QED BY <2>7, <2>8
<1>10. Trip(u)'
  <2>1. \A q \in Ranks \ {u[1]} : bounced[u][q] = Bounces(u, q)
    BY <1>4 DEF Trip
  <2>2. CyclesNow(u) \in Int /\ bounced[u] \in [Ranks -> Nat]
    BY <1>4, <1>8 DEF Trip
  <2> HIDE DEF next
  <2> QED BY <1>3, <1>6, <1>9, <2>1, <2>2 DEF Trip
<1>11. \A t \in Tokens \ {u} : Trip(t)'
  <2>1. \A t \in Tokens \ {u} : Back(t)' = Back(t)
    BY <1>5 DEF Back, Returned
  <2> QED BY <1>3, <1>5, <2>1, TripStays DEF Trips
<1> QED BY <1>3, <1>10, <1>11 DEF Trips

\* A token finishes where it started, after count cycles.
LEMMA FinishTrips ==
  ASSUME IInv, Routes, Trips, NEW u \in Tokens, NEW m \in got[u], FinishToken(u, m)
  PROVE  Trips'
<1> DEFINE c == token_obj[u].cycles
<1>1. /\ Returned(u) /\ token_obj'[u] = Object(token_obj[u].edge, CyclesNow(u), "FINISHED")
      /\ wire' = wire
      /\ \A t \in Tokens \ {u} : token_obj'[t] = token_obj[t] /\ got'[t] = got[t]
  BY FinishRoutes
<1>2. /\ setup' = setup /\ Ranks' = Ranks /\ Tokens' = Tokens /\ bounced' = bounced
      /\ Around(u) /\ CyclesNow(u) = count
  BY SameSetup DEF FinishToken, LastCycle
<1>3. Route(u) /\ Trip(u) /\ Status(u) = "RUNNING" /\ Shapes
  BY Received DEF Routes, Trips, IInv
<1>4. Status(u)' = "FINISHED" /\ token_obj'[u].cycles = CyclesNow(u)
  BY <1>1 DEF Object, Status
<1>5. c \in Int /\ CyclesNow(u) = c + 1
  BY <1>2, <1>3 DEF Trip, CyclesNow
<1>6. ASSUME NEW q \in Ranks \ {u[1]} PROVE Bounces(u, q) = Visits(u, q)
  <2> DEFINE A == At(u, q)
             one == IF Expected(u) = q THEN 1 ELSE 0
             first == IF start_edge(u) \in A THEN 1 ELSE 0
  <2>1. Bounces(u, q) = Cardinality(A) * c + Cardinality(A \cap Behind(u)) + one
    BY <1>1 DEF Bounces, Back
  <2>2. Cardinality(A) * c + Cardinality(A \cap Behind(u)) + one = Cardinality(A) * (c + 1) + first
    <3>1. token_obj[u].edge \in 0..(num_edges(u[1]) - 1)
      BY <1>3 DEF Route
    <3> QED BY <1>2, <1>3, <1>5, <3>1, OneEdgeOn
  <2>3. Visits(u, q) = Cardinality(A) * count + first
    BY DEF Visits, At
  <2>4. count = c + 1
    BY <1>2, <1>5
  <2> HIDE DEF A, one, first, c
  <2> QED BY <2>1, <2>2, <2>3, <2>4
<1>7. Trip(u)'
  <2>1. \A q \in Ranks \ {u[1]} : bounced[u][q] = Bounces(u, q)
    BY <1>3 DEF Trip
  <2>2. \A q : Visits(u, q)' = Visits(u, q)
    BY <1>2, SameTrip
  <2>3. CyclesNow(u) \in Int /\ bounced[u] \in [Ranks -> Nat]
    BY <1>3, <1>5 DEF Trip
  <2> QED BY <1>2, <1>4, <1>6, <2>1, <2>2, <2>3 DEF Trip
<1>8. \A t \in Tokens \ {u} : Trip(t)'
  <2>1. \A t \in Tokens \ {u} : Back(t)' = Back(t)
    BY <1>1 DEF Back, Returned
  <2> QED BY <1>1, <1>2, <2>1, TripStays DEF Trips
<1> QED BY <1>2, <1>7, <1>8 DEF Trips

LEMMA TripsKept ==
  ASSUME Trips, setup' = setup, UNCHANGED <<wire, got, token_obj, bounced>>
  PROVE  Trips'
<1>1. \A t : Back(t)' = Back(t)
  BY DEF Back, Returned
<1> QED BY <1>1, SameSetup, TripStays DEF Trips

LEMMA StepTrips ==
  ASSUME IInv, Routes, Trips, [Next]_vars
  PROVE  Trips'
<1>1. CASE \E r \in Ranks : Start(r)
  BY <1>1, StartTrips
<1>2. CASE \E r \in Ranks : Handle(r)
  BY <1>2, FinishTrips, DealTrips, BounceTrips DEF Handle
<1>3. CASE \E t \in Tokens : Deliver(t) \/ Corrupt(t)
  BY <1>3, DeliverTrips, CorruptTrips
<1>4. CASE Quiet \/ \E r \in Ranks : Repost(r)
  BY <1>4, TripsKept DEF Quiet, passing, Repost
<1> QED BY <1>1, <1>2, <1>3, <1>4, QuietSteps DEF Next

\* VisitedAll, for every topology, size, number of tokens and of cycles: a finished
\* token has been bounced by every neighbour of its dealer once per cycle and place
\* the neighbour has among the edges, and once more by the first edge.
THEOREM AllVisited == Spec => []VisitedAll
<1>1. Trips => VisitedAll
  BY DEF Trips, Trip, VisitedAll, Status
<1>2. Init => IInv /\ Routes /\ Trips
  BY InitInv, InitRoutes, InitTrips
<1>3. IInv /\ Routes /\ Trips /\ [Next]_vars => (IInv /\ Routes /\ Trips)'
  BY StepKeeps, StepRoutes, StepTrips
<1> QED BY <1>1, <1>2, <1>3, PTL DEF Spec

--------------------------------------------------------------------------------
(* What the integrity checks count *)

\* A token is bad where it is; the bad ones and the corrupted ones of a dealer.
IsBad(t)    == (\E m \in got[t] : m.bad) \/ (wire[t] # <<>> /\ wire[t][1].bad)
BadOf(d)    == {t \in Tokens : t[1] = d /\ IsBad(t)}
FaultsOf(d) == {t \in faults : t[1] = d}

\* What is bad was corrupted and is not counted yet, and a dealer that has found bad
\* bytes has counted them; a single corruption is not lost.
Integrity ==
  /\ temp_bad_bytes \in [Ranks -> BOOLEAN] /\ integrity_errors \in [Ranks -> Nat]
  /\ faults \subseteq Tokens /\ IsFiniteSet(faults)
  /\ \A t \in Tokens : IsBad(t) => t \in faults
  /\ \A d \in Ranks : integrity_errors[d] + Cardinality(BadOf(d)) <= Cardinality(FaultsOf(d))
  /\ \A d \in Ranks : temp_bad_bytes[d] => integrity_errors[d] > 0
  /\ setup.check = 2 => \A t \in faults : faults = {t} =>
       IsBad(t) \/ integrity_errors[t[1]] = 1 \/ Status(t) = "FINISHED"

LEMMA FaultSets ==
  ASSUME Integrity, NEW d
  PROVE  /\ IsFiniteSet(FaultsOf(d)) /\ Cardinality(FaultsOf(d)) \in Nat
         /\ IsFiniteSet(BadOf(d)) /\ Cardinality(BadOf(d)) \in Nat
<1>1. FaultsOf(d) \in SUBSET faults /\ BadOf(d) \in SUBSET FaultsOf(d)
  BY DEF FaultsOf, BadOf, Integrity
<1> QED BY <1>1, FS_Subset, FS_CardinalityType DEF Integrity

\* A step that corrupts and counts nothing, and loses what is bad only where a
\* token finishes.
LEMMA NothingCounted ==
  ASSUME Integrity, setup' = setup, UNCHANGED <<temp_bad_bytes, integrity_errors, faults>>,
         \A t \in Tokens : IsBad(t)' => IsBad(t),
         \A t \in Tokens : IsBad(t) => IsBad(t)' \/ Status(t)' = "FINISHED",
         \A t \in Tokens : Status(t) = "FINISHED" => Status(t)' = "FINISHED"
  PROVE  Integrity'
<1>1. Ranks' = Ranks /\ Tokens' = Tokens
  BY SameSetup
<1>2. ASSUME NEW d \in Ranks
      PROVE  (integrity_errors[d] + Cardinality(BadOf(d)) <= Cardinality(FaultsOf(d)))'
  <2>1. BadOf(d)' \in SUBSET BadOf(d) /\ FaultsOf(d)' = FaultsOf(d)
    BY <1>1 DEF BadOf, FaultsOf
  <2>2. IsFiniteSet(BadOf(d)) /\ Cardinality(BadOf(d)) \in Nat /\ Cardinality(FaultsOf(d)) \in Nat
    BY FaultSets
  <2>3. Cardinality(BadOf(d)') <= Cardinality(BadOf(d)) /\ Cardinality(BadOf(d)') \in Nat
    BY <2>1, <2>2, FS_Subset, FS_CardinalityType
  <2>4. integrity_errors[d] \in Nat
        /\ integrity_errors[d] + Cardinality(BadOf(d)) <= Cardinality(FaultsOf(d))
    BY DEF Integrity
  <2> HIDE DEF Integrity
  <2> QED BY <2>1, <2>2, <2>3, <2>4
<1>3. \A t \in Tokens : IsBad(t)' => t \in faults
  BY DEF Integrity
<1>4. setup'.check = 2 => \A t \in faults : faults = {t} =>
        IsBad(t)' \/ integrity_errors[t[1]] = 1 \/ Status(t)' = "FINISHED"
  BY DEF Integrity
<1> QED BY <1>1, <1>2, <1>3, <1>4 DEF Integrity

LEMMA InitIntegrity == Init => Integrity
<1> SUFFICES ASSUME Init PROVE Integrity
  OBVIOUS
<1>1. \A t \in Tokens : ~IsBad(t)
  BY DEF Init, IsBad
<1>2. faults = {}
  BY DEF Init
<1>3. \A d : BadOf(d) = {} /\ FaultsOf(d) = {}
  BY <1>1, <1>2 DEF BadOf, FaultsOf
<1>4. IsFiniteSet({}) /\ Cardinality({}) = 0
  BY FS_EmptySet
<1>5. \A d \in Ranks : integrity_errors[d] = 0 /\ ~temp_bad_bytes[d]
  BY DEF Init
<1>6. temp_bad_bytes \in [Ranks -> BOOLEAN] /\ integrity_errors \in [Ranks -> Nat]
  BY DEF Init
<1> QED BY <1>1, <1>2, <1>3, <1>4, <1>5, <1>6 DEF Integrity

LEMMA StartIntegrity ==
  ASSUME IInv, Integrity, NEW r \in Ranks, Start(r)
  PROVE  Integrity'
<1>1. /\ setup' = setup /\ got' = got
      /\ UNCHANGED <<temp_bad_bytes, integrity_errors, faults>>
  BY DEF Start
<1>2. ASSUME NEW t \in Tokens PROVE IsBad(t)' = IsBad(t)
  <2>1. CASE t[1] = r
    <3> DEFINE b == Message(r, EdgeRank(r, start_edge(t)), 0, FALSE)
    <3>1. wire[t] = <<>> /\ got[t] = {}
      BY <2>1 DEF IInv, Places, InOnePlace, Start
    <3>2. wire'[t] = Append(<<>>, b) /\ ~b.bad
      BY <2>1, <3>1 DEF Start, Message
    <3> HIDE DEF b
    <3>3. ~wire'[t][1].bad
      BY <3>2, OneMessage
    <3> QED BY <1>1, <3>1, <3>3 DEF IsBad
  <2>2. CASE t[1] # r
    BY <1>1, <2>2 DEF Start, IsBad
  <2> QED BY <2>1, <2>2
<1>3. \A t \in Tokens : Status(t) = "FINISHED" => Status(t)' = "FINISHED"
  BY StartStatus DEF IInv, Places, Start
<1> QED BY <1>1, <1>2, <1>3, NothingCounted

\* A message keeps what is in it when it is received or sent back.
LEMMA DeliverIntegrity ==
  ASSUME IInv, Routes, Integrity, NEW u \in Tokens, Deliver(u)
  PROVE  Integrity'
<1> DEFINE m == wire[u][1]
<1>1. /\ setup' = setup /\ token_obj' = token_obj /\ wire[u] # <<>>
      /\ UNCHANGED <<temp_bad_bytes, integrity_errors, faults>>
  BY DEF Deliver
<1>2. PICK h : got' = [got EXCEPT ![u] = {h}] /\ h.bad = m.bad
  <2>1. PICK k \in 1..Len(posted[u][m.dst]) :
          got' = [got EXCEPT ![u] = {[rank |-> m.dst, role |-> posted[u][m.dst][k].role, bad |-> m.bad]}]
    BY Delivered
  <2> DEFINE h == [rank |-> m.dst, role |-> posted[u][m.dst][k].role, bad |-> m.bad]
  <2>2. h.bad = m.bad /\ got' = [got EXCEPT ![u] = {h}]
    BY <2>1
  <2> HIDE DEF h
  <2> QED BY <2>2
<1>3. got[u] = {} /\ wire' = [wire EXCEPT ![u] = <<>>]
  BY Delivered
<1>4. wire = [t \in Tokens |-> wire[t]] /\ got = [t \in Tokens |-> got[t]]
  BY DEF IInv, Shapes
<1>5. got'[u] = {h} /\ wire'[u] = <<>> /\ \A t \in Tokens \ {u} : wire'[t] = wire[t] /\ got'[t] = got[t]
  BY <1>2, <1>3, <1>4
<1>6. IsBad(u)' <=> IsBad(u)
  BY <1>1, <1>2, <1>3, <1>5 DEF IsBad
<1>7. \A t \in Tokens : (IsBad(t)' <=> IsBad(t)) /\ Status(t)' = Status(t)
  BY <1>1, <1>5, <1>6 DEF IsBad, Status
<1> QED BY <1>1, <1>7, NothingCounted

LEMMA BounceIntegrity ==
  ASSUME IInv, Routes, Integrity, NEW u \in Tokens, NEW r \in Ranks, NEW m \in got[u],
         BounceToken(u, r, m)
  PROVE  Integrity'
<1> DEFINE b == Message(r, u[1], m.role, m.bad)
<1>1. /\ setup' = setup /\ token_obj' = token_obj /\ got' = [got EXCEPT ![u] = got[u] \ {m}]
      /\ UNCHANGED <<temp_bad_bytes, integrity_errors, faults>>
  BY DEF BounceToken
<1>2. wire' = [wire EXCEPT ![u] = <<b>>] /\ b.bad = m.bad
  BY BounceRoutes DEF Message
<1>3. /\ wire[u] = <<>> /\ got[u] \ {m} = {}
      /\ wire = [t \in Tokens |-> wire[t]] /\ got = [t \in Tokens |-> got[t]]
  BY Received DEF IInv, Shapes
<1> HIDE DEF b
<1>4. /\ wire'[u] = <<b>> /\ wire'[u][1] = b /\ wire'[u] # <<>> /\ got'[u] = {}
      /\ \A t \in Tokens \ {u} : wire'[t] = wire[t] /\ got'[t] = got[t]
  BY <1>1, <1>2, <1>3, OneMessage
<1>5. IsBad(u)' <=> IsBad(u)
  BY <1>2, <1>3, <1>4 DEF IsBad
<1>6. \A t \in Tokens : (IsBad(t)' <=> IsBad(t)) /\ Status(t)' = Status(t)
  BY <1>1, <1>4, <1>5 DEF IsBad, Status
<1> QED BY <1>1, <1>6, NothingCounted

LEMMA FinishIntegrity ==
  ASSUME IInv, Routes, Integrity, NEW u \in Tokens, NEW m \in got[u], FinishToken(u, m)
  PROVE  Integrity'
<1>1. /\ setup' = setup /\ UNCHANGED <<temp_bad_bytes, integrity_errors, faults>>
  BY DEF FinishToken
<1>2. /\ got'[u] = {} /\ wire[u] = <<>> /\ wire' = wire
      /\ \A t \in Tokens \ {u} : got'[t] = got[t]
  BY FinishRoutes
<1>3. \A t \in Tokens : Status(t)' = IF t = u THEN "FINISHED" ELSE Status(t)
  BY FinishStatus
<1>4. ~IsBad(u)' /\ \A t \in Tokens \ {u} : IsBad(t)' = IsBad(t)
  BY <1>2 DEF IsBad
<1> QED BY <1>1, <1>3, <1>4, NothingCounted

\* A message is corrupted that was not: one more bad token, one more fault.
LEMMA CorruptIntegrity ==
  ASSUME IInv, Integrity, NEW u \in Tokens, Corrupt(u)
  PROVE  Integrity'
<1> DEFINE m == wire[u][1]
           b == Message(m.src, m.dst, m.role, TRUE)
<1>1. /\ setup' = setup /\ Tokens' = Tokens /\ Ranks' = Ranks
      /\ UNCHANGED <<got, token_obj, temp_bad_bytes, integrity_errors>> /\ wire[u] # <<>>
      /\ u \notin faults /\ faults' = faults \cup {u}
  BY SameSetup DEF Corrupt
<1>2. wire[u] = <<m>> /\ wire = [t \in Tokens |-> wire[t]]
  BY <1>1 DEF IInv, Places, InOnePlace, Shapes
<1>3. wire' = [wire EXCEPT ![u] = <<b>>]
  <2>1. Head(wire[u]) = m /\ Tail(wire[u]) = <<>>
    <3> HIDE DEF m
    <3> QED BY <1>2
  <2>2. <<b>> \o <<>> = <<b>>
    <3> HIDE DEF b
    <3> QED OBVIOUS
  <2> QED BY <2>1, <2>2 DEF Corrupt
<1>4. b.bad
  BY DEF Message
<1> HIDE DEF b
<1>5. wire'[u] = <<b>> /\ wire'[u][1] = b /\ \A t \in Tokens \ {u} : wire'[t] = wire[t]
  BY <1>2, <1>3, OneMessage
<1>6. IsBad(u)' /\ ~IsBad(u) /\ \A t \in Tokens \ {u} : IsBad(t)' = IsBad(t)
  BY <1>1, <1>4, <1>5 DEF IsBad, Integrity
<1>7. ASSUME NEW d \in Ranks
      PROVE  (integrity_errors[d] + Cardinality(BadOf(d)) <= Cardinality(FaultsOf(d)))'
  <2>1. /\ IsFiniteSet(BadOf(d)) /\ Cardinality(BadOf(d)) \in Nat
        /\ IsFiniteSet(FaultsOf(d)) /\ Cardinality(FaultsOf(d)) \in Nat
    BY FaultSets
  <2>2. integrity_errors[d] \in Nat /\ integrity_errors'[d] = integrity_errors[d]
        /\ integrity_errors[d] + Cardinality(BadOf(d)) <= Cardinality(FaultsOf(d))
    BY <1>1 DEF Integrity
  <2>3. CASE u[1] = d
    <3>1. /\ BadOf(d)' = BadOf(d) \cup {u} /\ u \notin BadOf(d)
          /\ FaultsOf(d)' = FaultsOf(d) \cup {u} /\ u \notin FaultsOf(d)
      BY <1>1, <1>6, <2>3 DEF BadOf, FaultsOf
    <3>2. /\ Cardinality(BadOf(d)') = Cardinality(BadOf(d)) + 1
          /\ Cardinality(FaultsOf(d)') = Cardinality(FaultsOf(d)) + 1
      BY <2>1, <3>1, FS_AddElement
    <3> QED BY <2>1, <2>2, <3>2
  <2>4. CASE u[1] # d
    <3>1. BadOf(d)' = BadOf(d) /\ FaultsOf(d)' = FaultsOf(d)
      BY <1>1, <1>6, <2>4 DEF BadOf, FaultsOf
    <3> QED BY <2>2, <3>1
  <2> QED BY <2>3, <2>4
<1>8. \A t \in Tokens : IsBad(t)' => t \in faults'
  BY <1>1, <1>6 DEF Integrity
<1>9. \A t \in faults' : faults' = {t} => IsBad(t)'
  BY <1>1, <1>6
<1>10. faults' \subseteq Tokens /\ IsFiniteSet(faults')
  BY <1>1, FS_AddElement DEF Integrity
<1> QED BY <1>1, <1>7, <1>8, <1>9, <1>10 DEF Integrity

\* A dealer sends its token on: what it counts is not bad any more, and what it
\* does not count it sends on bad, unless it has counted before.
LEMMA DealIntegrity ==
  ASSUME IInv, Routes, Integrity, NEW u \in Tokens, NEW m \in got[u], DealToken(u, m)
  PROVE  Integrity'
<1> DEFINE d == u[1]
           found == IF Checked(u) THEN m.bad ELSE temp_bad_bytes[d]
           next == (token_obj[u].edge + 1) % num_edges(d)
           b == Message(d, EdgeRank(d, next), 0, SentBad(found, m.bad))
           counted == Checked(u) /\ m.bad
<1>1. /\ setup' = setup /\ Tokens' = Tokens /\ Ranks' = Ranks /\ faults' = faults
      /\ temp_bad_bytes' = [temp_bad_bytes EXCEPT ![d] = found]
      /\ integrity_errors' = IF counted THEN [integrity_errors EXCEPT ![d] = @ + 1]
                             ELSE integrity_errors
  BY SameSetup DEF DealToken
<1>2. wire' = [wire EXCEPT ![u] = <<b>>] /\ got' = [got EXCEPT ![u] = {}]
  BY Dealt
<1>3. b.bad = SentBad(found, m.bad)
  BY DEF Message
<1> HIDE DEF b
<1>4. /\ wire[u] = <<>> /\ got[u] \ {m} = {} /\ m \in Completed
      /\ wire = [t \in Tokens |-> wire[t]] /\ got = [t \in Tokens |-> got[t]]
  BY Received DEF IInv, Shapes, Routes, Route, OnReceived
<1>5. /\ wire'[u] = <<b>> /\ wire'[u][1] = b /\ wire'[u] # <<>> /\ got'[u] = {}
      /\ \A t \in Tokens \ {u} : wire'[t] = wire[t] /\ got'[t] = got[t]
  BY <1>2, <1>4, OneMessage
<1>6. /\ IsBad(u) <=> m.bad
      /\ IsBad(u)' <=> setup.check = 2 /\ ~found /\ m.bad
      /\ \A t \in Tokens \ {u} : IsBad(t)' = IsBad(t)
  BY <1>3, <1>4, <1>5 DEF IsBad, SentBad
<1>7. d \in Ranks /\ m.bad \in BOOLEAN /\ temp_bad_bytes[d] \in BOOLEAN /\ found \in BOOLEAN
  BY <1>4, StartEdge DEF Completed, IInv, Integrity
<1>8. \A t \in Tokens : Status(t)' = Status(t)
  BY DealStatus, Received
<1>9. \A q \in Ranks : /\ integrity_errors[q] \in Nat
                       /\ integrity_errors'[q] = integrity_errors[q] + (IF q = d /\ counted THEN 1 ELSE 0)
                       /\ temp_bad_bytes'[q] = IF q = d THEN found ELSE temp_bad_bytes[q]
  <2> HIDE DEF counted, found
  <2> QED BY <1>1, <1>7 DEF Integrity
<1>10. /\ temp_bad_bytes' \in [Ranks -> BOOLEAN] /\ integrity_errors' \in [Ranks -> Nat]
  <2> HIDE DEF counted, found
  <2> QED BY <1>1, <1>7 DEF Integrity
<1>11. /\ IsFiniteSet(BadOf(d)) /\ Cardinality(BadOf(d)) \in Nat /\ Cardinality(FaultsOf(d)) \in Nat
       /\ integrity_errors[d] + Cardinality(BadOf(d)) <= Cardinality(FaultsOf(d))
  BY <1>7, FaultSets DEF Integrity
<1>12. IsBad(u) => u \in BadOf(d) /\ u \in FaultsOf(d) /\ u \in faults
  BY DEF BadOf, FaultsOf, Integrity
<1>13. (integrity_errors[d] + Cardinality(BadOf(d)) <= Cardinality(FaultsOf(d)))'
  <2>1. FaultsOf(d)' = FaultsOf(d)
    BY <1>1 DEF FaultsOf
  <2>2. CASE IsBad(u) /\ ~IsBad(u)'
    <3>1. BadOf(d)' = BadOf(d) \ {u}
      BY <1>1, <1>6, <2>2 DEF BadOf
    <3>2. Cardinality(BadOf(d)') = Cardinality(BadOf(d)) - 1
      <4>1. u \in BadOf(d) /\ IsFiniteSet(BadOf(d))
        BY <1>11, <1>12, <2>2
      <4>2. \A S : IsFiniteSet(S) /\ u \in S => Cardinality(S \ {u}) = Cardinality(S) - 1
        BY FS_RemoveElement, Zenon
      <4> HIDE DEF d, found, next, counted
      <4>3. Cardinality(BadOf(d) \ {u}) = Cardinality(BadOf(d)) - 1
        BY <4>1, <4>2, Zenon
      <4> QED BY <3>1, <4>3, Zenon
    <3> HIDE DEF counted
    <3> QED BY <1>7, <1>9, <1>11, <2>1, <3>2
  <2>3. CASE ~(IsBad(u) /\ ~IsBad(u)')
    <3>1. ~counted /\ (IsBad(u)' <=> IsBad(u))
      BY <1>6, <1>7, <2>3
    <3>2. BadOf(d)' = BadOf(d)
      BY <1>1, <1>6, <3>1 DEF BadOf
    <3> HIDE DEF counted
    <3> QED BY <1>7, <1>9, <1>11, <2>1, <3>1, <3>2
  <2> QED BY <2>2, <2>3
<1>14. ASSUME NEW q \in Ranks \ {d}
       PROVE  (integrity_errors[q] + Cardinality(BadOf(q)) <= Cardinality(FaultsOf(q)))'
  <2>1. BadOf(q)' = BadOf(q) /\ FaultsOf(q)' = FaultsOf(q)
    BY <1>1, <1>6 DEF BadOf, FaultsOf
  <2>2. integrity_errors'[q] = integrity_errors[q]
    BY <1>9
  <2> QED BY <2>1, <2>2 DEF Integrity
<1>15. \A t \in Tokens : IsBad(t)' => t \in faults'
  BY <1>1, <1>6 DEF Integrity
<1>16. ASSUME NEW q \in Ranks, temp_bad_bytes'[q] PROVE integrity_errors'[q] > 0
  <2>1. CASE q = d /\ counted
    <3> HIDE DEF counted
    <3>1. integrity_errors'[d] = integrity_errors[d] + 1 /\ integrity_errors[d] \in Nat
      BY <1>7, <1>9, <2>1
    <3> QED BY <2>1, <3>1
  <2>2. CASE q = d /\ ~counted
    <3>1. temp_bad_bytes[d]
      BY <1>7, <1>9, <1>16, <2>2
    <3>2. integrity_errors[d] > 0
      BY <1>7, <3>1 DEF Integrity
    <3> HIDE DEF counted
    <3> QED BY <1>7, <1>9, <2>2, <3>2
  <2>3. CASE q # d
    <3>1. temp_bad_bytes[q]
      BY <1>9, <1>16, <2>3
    <3>2. integrity_errors[q] > 0
      BY <3>1 DEF Integrity
    <3> HIDE DEF counted
    <3> QED BY <1>9, <2>3, <3>2
  <2> QED BY <2>1, <2>2, <2>3
<1>17. ASSUME setup.check = 2, NEW t \in faults, faults = {t}
       PROVE  IsBad(t)' \/ integrity_errors'[t[1]] = 1 \/ Status(t)' = "FINISHED"
  <2>1. /\ t \in Tokens /\ t[1] \in Ranks
        /\ IsBad(t) \/ integrity_errors[t[1]] = 1 \/ Status(t) = "FINISHED"
    BY <1>17, StartEdge DEF Integrity, IInv
  <2>2. CASE IsBad(u)
    <3>1. t = u
      BY <1>12, <1>17, <2>2
    <3>2. FaultsOf(d) = {u} /\ Cardinality(FaultsOf(d)) = 1
      <4>1. FaultsOf(d) = {u}
        BY <1>17, <3>1 DEF FaultsOf
      <4> QED BY <4>1, FS_Singleton
    <3>3. Cardinality(BadOf(d)) # 0
      BY <1>11, <1>12, <2>2, FS_EmptySet
    <3>4. integrity_errors[d] = 0
      BY <1>7, <1>9, <1>11, <3>2, <3>3
    <3>5. ~temp_bad_bytes[d]
      BY <1>7, <3>4 DEF Integrity
    <3>6. CASE counted
      <4>1. integrity_errors'[d] = integrity_errors[d] + 1
        BY <1>7, <1>9, <3>6
      <4> QED BY <3>1, <3>4, <4>1
    <3>7. CASE ~counted
      BY <1>6, <1>17, <2>2, <3>1, <3>5, <3>7
    <3> QED BY <3>6, <3>7
  <2>3. CASE ~IsBad(u)
    <3>1. ~counted
      BY <1>6, <2>3
    <3>2. IsBad(t)' <=> IsBad(t)
      BY <1>6, <2>1, <2>3
    <3>3. integrity_errors'[t[1]] = integrity_errors[t[1]]
      BY <1>1, <3>1
    <3> QED BY <1>8, <2>1, <3>2, <3>3
  <2> QED BY <2>2, <2>3
<1> QED BY <1>1, <1>10, <1>13, <1>14, <1>15, <1>16, <1>17 DEF Integrity

LEMMA IntegrityStays ==
  ASSUME Integrity, setup' = setup,
         UNCHANGED <<wire, got, token_obj, temp_bad_bytes, integrity_errors, faults>>
  PROVE  Integrity'
<1>1. \A t : IsBad(t)' = IsBad(t) /\ Status(t)' = Status(t)
  BY DEF IsBad, Status
<1> QED BY <1>1, NothingCounted

LEMMA StepIntegrity ==
  ASSUME IInv, Routes, Integrity, [Next]_vars
  PROVE  Integrity'
<1>1. CASE \E r \in Ranks : Start(r)
  BY <1>1, StartIntegrity
<1>2. CASE \E r \in Ranks : Handle(r)
  BY <1>2, FinishIntegrity, DealIntegrity, BounceIntegrity DEF Handle
<1>3. CASE \E t \in Tokens : Deliver(t) \/ Corrupt(t)
  BY <1>3, DeliverIntegrity, CorruptIntegrity
<1>4. CASE Quiet \/ \E r \in Ranks : Repost(r)
  BY <1>4, IntegrityStays DEF Quiet, passing, Repost
<1> QED BY <1>1, <1>2, <1>3, <1>4, QuietSteps DEF Next

\* IntegrityKept, for every topology, size, number of tokens and of corruptions: a
\* corrupted message is counted at most once, and a single one is not lost when
\* what was received is what is sent on.
THEOREM IntegrityAlways == Spec => []IntegrityKept
<1>1. IInv /\ Integrity => IntegrityKept
  <2> SUFFICES ASSUME IInv, Integrity PROVE IntegrityKept
    OBVIOUS
  <2>1. ASSUME NEW d \in Dealers PROVE integrity_errors[d] <= Cardinality({t \in faults : t[1] = d})
    <3>1. d \in Ranks /\ FaultsOf(d) = {t \in faults : t[1] = d}
      BY Sizes DEF IInv, FaultsOf
    <3>2. /\ integrity_errors[d] \in Nat /\ Cardinality(BadOf(d)) \in Nat /\ Cardinality(FaultsOf(d)) \in Nat
          /\ integrity_errors[d] + Cardinality(BadOf(d)) <= Cardinality(FaultsOf(d))
      BY <3>1, FaultSets DEF Integrity
    <3>3. integrity_errors[d] <= Cardinality(FaultsOf(d))
      BY <3>2
    <3> QED BY <3>1, <3>3
  <2>2. ASSUME NEW t \in Tokens, wire[t] # <<>>, wire[t][1].bad
        PROVE  \E i \in 1..Len(wire[t]) : wire[t][i].bad
    <3>1. wire[t] = <<wire[t][1]>>
      BY <2>2 DEF IInv, Places, InOnePlace
    <3>2. \A x : Len(<<x>>) = 1
      OBVIOUS
    <3>3. 1 \in 1..Len(wire[t])
      BY <3>1, <3>2
    <3> QED BY <2>2, <3>3
  <2>3. CorruptionKept
    BY <2>2 DEF CorruptionKept, Integrity, IsBad, Status
  <2> QED BY <2>1, <2>3 DEF IntegrityKept, CountedOnce
<1>2. Init => IInv /\ Routes /\ Integrity
  BY InitInv, InitRoutes, InitIntegrity
<1>3. IInv /\ Routes /\ Integrity /\ [Next]_vars => (IInv /\ Routes /\ Integrity)'
  BY StepKeeps, StepRoutes, StepIntegrity
<1> QED BY <1>1, <1>2, <1>3, PTL DEF Spec

--------------------------------------------------------------------------------
(* The types *)

\* What the other invariants leave of the types: a rank that deals no token has
\* finished none, and control words go between ranks.
Rest ==
  /\ \A r \in Ranks \ Dealers : tokens_finished[r] = 0
  /\ ctrl \subseteq Ranks \X Ranks

LEMMA InitRest == Init => Rest
BY DEF Init, Rest, Dealers

LEMMA HandleRest ==
  ASSUME IInv, Rest, NEW r \in Ranks, Handle(r)
  PROVE  Rest'
<1>1. setup' = setup /\ ctrl' = ctrl
  BY DEF Handle, FinishToken, DealToken, BounceToken, control
<1>2. Ranks' = Ranks /\ Dealers' = Dealers
  BY <1>1, SameSetup
<1>3. \/ tokens_finished' = tokens_finished
      \/ \E t \in Tokens : tokens_finished' = [tokens_finished EXCEPT ![t[1]] = tokens_finished[t[1]] + 1]
  BY DEF Handle, FinishToken, DealToken, BounceToken
<1>4. \A q \in Ranks \ Dealers : tokens_finished'[q] = tokens_finished[q]
  BY <1>3, TokenParts DEF IInv, Shapes
<1> QED BY <1>1, <1>2, <1>4 DEF Rest

LEMMA StepRest ==
  ASSUME IInv, Rest, [Next]_vars
  PROVE  Rest'
<1>1. setup' = setup /\ Ranks' = Ranks /\ Dealers' = Dealers /\ 0 \in Ranks
  BY SetupStays, SameSetup, Sizes DEF IInv
<1>2. CASE \E r \in Ranks : Start(r) \/ Repost(r)
  BY <1>1, <1>2 DEF Start, Repost, control, Rest
<1>3. CASE \E r \in Ranks : Handle(r)
  BY <1>3, HandleRest
<1>4. CASE \E t \in Tokens : Deliver(t) \/ Corrupt(t)
  BY <1>1, <1>4 DEF Deliver, Corrupt, control, Rest
<1>5. CASE \E r \in Ranks, told \in BOOLEAN : ControlOther(r, told)
  BY <1>1, <1>5 DEF ControlOther, passing, Rest
<1>6. CASE \E heard \in SUBSET Unheard : ControlMesh(heard)
  BY <1>1, <1>6 DEF ControlMesh, LeaveAndTell, passing, Rest
<1>7. CASE ControlStar
  BY <1>1, <1>7 DEF ControlStar, LeaveAndTell, passing, Rest
<1>8. CASE BeginLoop \/ TimeUp \/ EndBarrier \/ Ended \/ UNCHANGED vars
  <2>1. ctrl' = ctrl /\ tokens_finished' = tokens_finished
    BY <1>8 DEF BeginLoop, TimeUp, EndBarrier, Ended, vars, control, passing
  <2> QED BY <1>1, <2>1 DEF Rest
<1> QED BY <1>2, <1>3, <1>4, <1>5, <1>6, <1>7, <1>8 DEF Next

LEMMA SeqWider ==
  ASSUME NEW S, NEW T, S \subseteq T, NEW q \in Seq(S)
  PROVE  q \in Seq(T)
OBVIOUS

LEMMA PartSize ==
  ASSUME NEW S, IsFiniteSet(S), NEW T, T \subseteq S
  PROVE  /\ IsFiniteSet(T) /\ Cardinality(S) \in Nat /\ Cardinality(T) \in Nat
         /\ Cardinality(T) <= Cardinality(S)
BY FS_Subset, FS_CardinalityType

\* The counters stay within what there is to count.
LEMMA CountersBounded ==
  ASSUME IInv, Rest
  PROVE  /\ tokens_finished \in [Ranks -> 0..setup.tokens]
         /\ dealers_finished \in 0..setup.mpi_size
<1>1. Shapes /\ Counts
  BY DEF IInv
<1>2. setup.tokens \in Nat /\ setup.mpi_size \in Nat /\ Dealers \subseteq Ranks
  BY <1>1, Sizes
<1>3. ASSUME NEW d \in Dealers PROVE tokens_finished[d] \in 0..setup.tokens
  <2> DEFINE n == Cardinality(Finished(d))
  <2>1. Finished(d) \subseteq 1..setup.tokens
    BY DEF Finished
  <2>2. IsFiniteSet(1..setup.tokens) /\ Cardinality(1..setup.tokens) = setup.tokens
    BY <1>2, IntervalSize
  <2>3. n \in Nat /\ n <= Cardinality(1..setup.tokens)
    BY <2>1, <2>2, PartSize
  <2>4. tokens_finished[d] = n
    BY <1>1 DEF Counts
  <2> HIDE DEF n
  <2> QED BY <1>2, <2>2, <2>3, <2>4
<1>4. \A r \in Ranks \ Dealers : tokens_finished[r] \in 0..setup.tokens
  BY <1>2 DEF Rest
<1>5. tokens_finished \in [Ranks -> 0..setup.tokens]
  BY <1>1, <1>3, <1>4 DEF Shapes
<1>6. Cardinality(HeardDone) \in Nat /\ Cardinality(HeardDone) <= setup.mpi_size - 1
  <2>1. HeardDone \subseteq Ranks \ {0}
    BY DEF HeardDone
  <2>2. IsFiniteSet(Ranks \ {0}) /\ Cardinality(Ranks \ {0}) = setup.mpi_size - 1
    BY <1>1, HeardFinite
  <2>3. Cardinality(HeardDone) \in Nat /\ Cardinality(HeardDone) <= Cardinality(Ranks \ {0})
    BY <2>1, <2>2, PartSize
  <2> QED BY <2>2, <2>3
<1>7. dealers_finished = Cardinality(HeardDone) + (IF ctrl_status[0] = "DONE" THEN 1 ELSE 0)
  BY <1>1 DEF Counts
<1>8. dealers_finished \in 0..setup.mpi_size
  <2> DEFINE n == Cardinality(HeardDone)
  <2>1. dealers_finished = n \/ dealers_finished = n + 1
    BY <1>6, <1>7
  <2>2. n \in Nat /\ n <= setup.mpi_size - 1
    BY <1>6
  <2> HIDE DEF n
  <2> QED BY <1>2, <2>1, <2>2
<1> QED BY <1>5, <1>8

LEMMA TokenTypes ==
  ASSUME IInv, Routes, Trips, NEW t \in Tokens
  PROVE  /\ wire[t] \in Seq(Mail)
         /\ posted[t] \in [Ranks -> Seq([src : Ranks, role : 0..6])]
         /\ got[t] \subseteq Completed
         /\ token_obj[t].edge \in 0..(num_edges(t[1]) - 1)
         /\ token_obj[t].cycles \in Int
         /\ token_obj[t].status \in {"IDLE", "RUNNING", "FINISHED"}
         /\ bounced[t] \in [Ranks -> Nat]
<1>1. Route(t) /\ Trip(t) /\ InOnePlace(t)
  BY DEF IInv, Places, Routes, Trips
<1>2. wire[t] \in Seq(Mail)
  <2>1. \A x \in Mail : <<x>> \in Seq(Mail)
    OBVIOUS
  <2>2. <<>> \in Seq(Mail)
    OBVIOUS
  <2>3. wire[t] # <<>> => wire[t] = <<wire[t][1]>> /\ wire[t][1] \in Mail
    BY <1>1 DEF Route, OnMail, InOnePlace
  <2> QED BY <2>1, <2>2, <2>3
<1>3. posted[t] \in [Ranks -> Seq([src : Ranks, role : 0..6])]
  <2>1. posted[t] = [r \in Ranks |-> posted[t][r]]
    BY <1>1 DEF Route
  <2>2. ASSUME NEW r \in Ranks PROVE posted[t][r] \in Seq([src : Ranks, role : 0..6])
    <3>1. Receivable(r, t) \subseteq [src : Ranks, role : 0..6]
      BY DEF Receivable
    <3>2. posted[t][r] \in Seq(Receivable(r, t))
      BY <1>1 DEF Route
    <3> QED BY <3>1, <3>2, SeqWider
  <2> QED BY <2>1, <2>2
<1>4. got[t] \subseteq Completed /\ token_obj[t].edge \in 0..(num_edges(t[1]) - 1)
  BY <1>1 DEF Route, OnReceived
<1>5. token_obj[t].cycles \in Int /\ bounced[t] \in [Ranks -> Nat]
  BY <1>1 DEF Trip
<1>6. token_obj[t].status \in {"IDLE", "RUNNING", "FINISHED"}
  BY DEF IInv, Shapes, Status
<1> QED BY <1>2, <1>3, <1>4, <1>5, <1>6

\* Type correctness, for every topology, size and number of tokens: a token's edge is
\* one of its dealer's, at most as many tokens and dealers are counted as finished
\* as there are, and messages go between ranks in one of at most six roles.
THEOREM Typing == Spec => []TypeOK
<1>1. IInv /\ Routes /\ Trips /\ Integrity /\ Rest => TypeOK
  <2> SUFFICES ASSUME IInv, Routes, Trips, Integrity, Rest PROVE TypeOK
    OBVIOUS
  <2>1. /\ setup \in Setups
        /\ pc \in [Ranks -> {"init", "barrier", "loop", "repost", "left", "gone"}]
        /\ ctrl_status \in [Ranks -> {"RUNNING", "DONE"}]
        /\ dealer_ctrl \in [Ranks \ {0} -> {"RUNNING", "DONE"}]
        /\ timeup \in BOOLEAN
    BY DEF IInv, Shapes, PCs
  <2>2. /\ temp_bad_bytes \in [Ranks -> BOOLEAN] /\ integrity_errors \in [Ranks -> Nat]
        /\ faults \subseteq Tokens /\ ctrl \subseteq Ranks \X Ranks
    BY DEF Integrity, Rest
  <2>3. /\ tokens_finished \in [Ranks -> 0..setup.tokens]
        /\ dealers_finished \in 0..setup.mpi_size
    BY CountersBounded
  <2>4. \A t \in Tokens :
          /\ wire[t] \in Seq([src : Ranks, dst : Ranks, role : 0..6, bad : BOOLEAN])
          /\ posted[t] \in [Ranks -> Seq([src : Ranks, role : 0..6])]
          /\ got[t] \subseteq [rank : Ranks, role : 0..6, bad : BOOLEAN]
          /\ token_obj[t].edge \in 0..(num_edges(t[1]) - 1)
          /\ token_obj[t].cycles \in Int
          /\ token_obj[t].status \in {"IDLE", "RUNNING", "FINISHED"}
          /\ bounced[t] \in [Ranks -> Nat]
    BY TokenTypes DEF Mail, Completed
  <2> QED BY <2>1, <2>2, <2>3, <2>4 DEF TypeOK
<1>2. Init => IInv /\ Routes /\ Trips /\ Integrity /\ Rest
  BY InitInv, InitRoutes, InitTrips, InitIntegrity, InitRest
<1>3. IInv /\ Routes /\ Trips /\ Integrity /\ Rest /\ [Next]_vars
        => (IInv /\ Routes /\ Trips /\ Integrity /\ Rest)'
  BY StepKeeps, StepRoutes, StepTrips, StepIntegrity, StepRest
<1> QED BY <1>1, <1>2, <1>3, PTL DEF Spec

--------------------------------------------------------------------------------
(* The receives of an edge *)

\* Role i of rank r is that of an edge of the token's dealer; and its receive is
\* posted, has completed, or is owed because the rank has just sent the token back.
IsEdge(r, i, t) == i <= Len(EdgesOf(r)) /\ EdgesOf(r)[i] = t[1]
Has(s, x) == \E k \in 1..Len(s) : s[k] = x
Held(t, r, i) ==
  \/ Has(posted[t][r], [src |-> t[1], role |-> i])
  \/ \E m \in got[t] : m.rank = r /\ m.role = i
  \/ [token |-> t, role |-> i] \in owed[r]

Edged ==
  /\ \A r \in Ranks : IF pc[r] = "repost" THEN \E o \in owed[r] : owed[r] = {o} ELSE owed[r] = {}
  /\ \A t \in Tokens : \A r \in Ranks : \A i \in 1..6 :
       pc[r] # "init" /\ IsEdge(r, i, t) => Held(t, r, i)

LEMMA HasJoined ==
  ASSUME NEW S, NEW a \in Seq(S), NEW b \in Seq(S), NEW x
  PROVE  a \o b \in Seq(S) /\ (Has(a, x) \/ Has(b, x) => Has(a \o b, x))
<1>1. /\ a \o b \in Seq(S) /\ Len(a \o b) = Len(a) + Len(b) /\ Len(a) \in Nat /\ Len(b) \in Nat
      /\ \A k \in 1..Len(a) : (a \o b)[k] = a[k]
      /\ \A k \in 1..Len(b) : (a \o b)[Len(a) + k] = b[k]
  OBVIOUS
<1> DEFINE c == a \o b
<1> HIDE DEF c
<1>2. ASSUME NEW k \in 1..Len(a), a[k] = x PROVE k \in 1..Len(c) /\ c[k] = x
  BY <1>1, <1>2 DEF c
<1>3. ASSUME NEW k \in 1..Len(b), b[k] = x PROVE Len(a) + k \in 1..Len(c) /\ c[Len(a) + k] = x
  BY <1>1, <1>3 DEF c
<1>4. Has(a, x) \/ Has(b, x) => Has(c, x)
  BY <1>2, <1>3 DEF Has
<1> QED BY <1>1, <1>4 DEF c

LEMMA SameEdge ==
  ASSUME setup' = setup
  PROVE  \A r, i, t : IsEdge(r, i, t)' = IsEdge(r, i, t)
BY DEF IsEdge, EdgesOf, Mesh, Neighbours, xplus, xminus, yplus, yminus, zplus, zminus,
       xsize, plane, space

\* Every edge posts its receive before the loop begins.
LEMMA PrepostedHas ==
  ASSUME Shapes, NEW t \in Tokens, NEW r \in Ranks, NEW i \in 1..6, IsEdge(r, i, t)
  PROVE  Has(Preposted(r, t), [src |-> t[1], role |-> i])
<1> DEFINE S == Receivable(r, t)
           x == [src |-> t[1], role |-> i]
           own == [src |-> EdgeRank(r, start_edge(t)), role |-> 0]
           p0 == IF t[1] = r THEN <<own>> ELSE <<>>
           a1 == AsEdge(r, t, 1)
           a2 == AsEdge(r, t, 2)
           a3 == AsEdge(r, t, 3)
           a4 == AsEdge(r, t, 4)
           a5 == AsEdge(r, t, 5)
           a6 == AsEdge(r, t, 6)
<1>1. \A j \in 1..6 : AsEdge(r, t, j) \in Seq(S)
  <2>1. \A j \in 1..6 : [src |-> t[1], role |-> j] \in S
    BY StartEdge DEF Receivable
  <2> HIDE DEF S
  <2> QED BY <2>1 DEF AsEdge
<1>2. p0 \in Seq(S)
  <2>1. t[1] = r => own \in S
    BY StartEdge DEF Receivable
  <2> HIDE DEF S, own
  <2> QED BY <2>1
<1>3. Preposted(r, t) = p0 \o a1 \o a2 \o a3 \o a4 \o a5 \o a6
  BY DEF Preposted
<1>4. Has(AsEdge(r, t, i), x)
  <2>1. AsEdge(r, t, i) = <<x>>
    BY DEF AsEdge, IsEdge
  <2> HIDE DEF x
  <2> QED BY <2>1 DEF Has
<1>5. /\ a1 \in Seq(S) /\ a2 \in Seq(S) /\ a3 \in Seq(S)
      /\ a4 \in Seq(S) /\ a5 \in Seq(S) /\ a6 \in Seq(S)
  BY <1>1
<1>6. Has(a1, x) \/ Has(a2, x) \/ Has(a3, x) \/ Has(a4, x) \/ Has(a5, x) \/ Has(a6, x)
  BY <1>4
<1> HIDE DEF S, x, p0, a1, a2, a3, a4, a5, a6
<1>7. p0 \o a1 \in Seq(S) /\ (Has(a1, x) => Has(p0 \o a1, x))
  BY <1>2, <1>5, HasJoined
<1> DEFINE p1 == p0 \o a1
           p2 == p1 \o a2
           p3 == p2 \o a3
           p4 == p3 \o a4
           p5 == p4 \o a5
<1> HIDE DEF p1
<1>8. p2 \in Seq(S) /\ (Has(p1, x) \/ Has(a2, x) => Has(p2, x))
  <2>1. p1 \in Seq(S)
    BY <1>7 DEF p1
  <2> QED BY <1>5, <2>1, HasJoined
<1> HIDE DEF p2
<1>9. p3 \in Seq(S) /\ (Has(p2, x) \/ Has(a3, x) => Has(p3, x))
  BY <1>5, <1>8, HasJoined
<1> HIDE DEF p3
<1>10. p4 \in Seq(S) /\ (Has(p3, x) \/ Has(a4, x) => Has(p4, x))
  BY <1>5, <1>9, HasJoined
<1> HIDE DEF p4
<1>11. p5 \in Seq(S) /\ (Has(p4, x) \/ Has(a5, x) => Has(p5, x))
  BY <1>5, <1>10, HasJoined
<1> HIDE DEF p5
<1>12. Has(p5, x) \/ Has(a6, x) => Has(p5 \o a6, x)
  BY <1>5, <1>11, HasJoined
<1>13. Has(p5 \o a6, x)
  BY <1>6, <1>7, <1>8, <1>9, <1>10, <1>11, <1>12 DEF p1
<1> QED BY <1>3, <1>13 DEF p5, p4, p3, p2, p1, x, S

LEMMA InitEdged == Init => Edged
BY DEF Init, Edged

\* What a step does not touch is held as before.
LEMMA HeldStays ==
  ASSUME NEW t, NEW r, NEW i, Held(t, r, i),
         posted'[t][r] = posted[t][r], got'[t] = got[t], owed'[r] = owed[r]
  PROVE  Held(t, r, i)'
BY DEF Held

\* The state machine of an edge's receive, step by step.
LEMMA StartEdged ==
  ASSUME IInv, Routes, Edged, NEW r \in Ranks, Start(r)
  PROVE  Edged'
<1>1. /\ setup' = setup /\ Ranks' = Ranks /\ Tokens' = Tokens /\ UNCHANGED <<got, owed>>
      /\ pc' = [pc EXCEPT ![r] = "barrier"] /\ pc[r] = "init"
  BY SameSetup DEF Start
<1>2. \A q \in Ranks : pc'[q] = IF q = r THEN "barrier" ELSE pc[q]
  BY <1>1 DEF IInv, Shapes
<1>3. \A q \in Ranks : IF pc'[q] = "repost" THEN \E o \in owed'[q] : owed'[q] = {o} ELSE owed'[q] = {}
  BY <1>1, <1>2 DEF Edged
<1>4. ASSUME NEW t \in Tokens, NEW q \in Ranks, NEW i \in 1..6, pc'[q] # "init", IsEdge(q, i, t)
      PROVE  Held(t, q, i)'
  <2>1. posted'[t][q] = IF q = r THEN Preposted(r, t) ELSE posted[t][q]
    BY DEF Start, Routes, Route
  <2>2. CASE q = r
    <3>1. Has(posted'[t][r], [src |-> t[1], role |-> i])
      BY <1>4, <2>1, <2>2, PrepostedHas DEF IInv
    <3> QED BY <2>2, <3>1 DEF Held
  <2>3. CASE q # r
    <3>1. Held(t, q, i)
      BY <1>2, <1>4, <2>3 DEF Edged
    <3> QED BY <1>1, <2>1, <2>3, <3>1, HeldStays
  <2> QED BY <2>2, <2>3
<1> QED BY <1>1, <1>3, <1>4, SameEdge DEF Edged

LEMMA DeliverEdged ==
  ASSUME IInv, Routes, Edged, NEW u \in Tokens, Deliver(u)
  PROVE  Edged'
<1>1. setup' = setup /\ Ranks' = Ranks /\ Tokens' = Tokens /\ UNCHANGED <<pc, owed>>
  BY SameSetup DEF Deliver
<1> DEFINE m == wire[u][1]
           d == m.dst
           q0 == posted[u][d]
<1>2. got[u] = {} /\ m \in Mail /\ Route(u)
  BY Delivered DEF Routes
<1>3. PICK k \in 1..Len(q0) :
        /\ posted' = [posted EXCEPT ![u][d] = SubSeq(q0, 1, k - 1) \o SubSeq(q0, k + 1, Len(q0))]
        /\ got' = [got EXCEPT ![u] = {[rank |-> d, role |-> q0[k].role, bad |-> m.bad]}]
  BY Delivered
<1>4. d \in Ranks
  BY <1>2 DEF Mail
<1>5. /\ posted = [t \in Tokens |-> posted[t]] /\ got = [t \in Tokens |-> got[t]]
      /\ posted[u] = [p \in Ranks |-> posted[u][p]] /\ q0 \in Seq(Receivable(d, u))
  BY <1>2, <1>4 DEF Routes, Route, IInv, Shapes
<1> HIDE DEF m, d, q0
<1> DEFINE s == SubSeq(q0, 1, k - 1) \o SubSeq(q0, k + 1, Len(q0))
<1>6. Len(s) = Len(q0) - 1 /\ \A j \in 1..(Len(q0) - 1) : s[j] = IF j < k THEN q0[j] ELSE q0[j + 1]
  BY <1>5, Removed
<1> HIDE DEF s
<1>7. /\ \A t \in Tokens \ {u} : posted'[t] = posted[t] /\ got'[t] = got[t]
      /\ \A p \in Ranks : posted'[u][p] = IF p = d THEN s ELSE posted[u][p]
      /\ got'[u] = {[rank |-> d, role |-> q0[k].role, bad |-> m.bad]}
  BY <1>3, <1>4, <1>5 DEF s
<1>8. ASSUME NEW x, Has(q0, x) PROVE Has(s, x) \/ q0[k] = x
  <2>1. PICK j \in 1..Len(q0) : q0[j] = x
    BY <1>8 DEF Has
  <2>2. Len(q0) \in Nat
    BY <1>5
  <2>3. j < k => j \in 1..Len(s) /\ s[j] = x
    BY <1>6, <2>1, <2>2
  <2>4. j > k => j - 1 \in 1..Len(s) /\ s[j - 1] = x
    <3> SUFFICES ASSUME j > k PROVE j - 1 \in 1..Len(s) /\ s[j - 1] = x
      OBVIOUS
    <3>1. j - 1 \in 1..(Len(q0) - 1) /\ ~(j - 1 < k) /\ (j - 1) + 1 = j
      BY <2>2
    <3> QED BY <1>6, <2>1, <3>1
  <2>5. j < k \/ j = k \/ j > k
    OBVIOUS
  <2> QED BY <2>1, <2>3, <2>4, <2>5 DEF Has
<1>9. ASSUME NEW t \in Tokens, NEW p \in Ranks, NEW i \in 1..6, pc[p] # "init", IsEdge(p, i, t)
      PROVE  Held(t, p, i)'
  <2>1. Held(t, p, i)
    BY <1>9 DEF Edged
  <2>2. CASE t # u
    BY <1>1, <1>7, <2>1, <2>2, HeldStays
  <2>3. CASE t = u /\ p # d
    <3>1. posted'[u][p] = posted[u][p]
      BY <1>7, <2>3
    <3> QED BY <1>1, <1>2, <2>1, <2>3, <3>1 DEF Held
  <2>4. CASE t = u /\ p = d
    <3> DEFINE x == [src |-> u[1], role |-> i]
    <3>1. Has(q0, x) \/ [token |-> u, role |-> i] \in owed[d]
      BY <1>2, <2>1, <2>4 DEF Held, q0
    <3>2. CASE Has(q0, x)
      <4>1. Has(s, x) \/ q0[k] = x
        BY <1>8, <3>2
      <4>2. CASE Has(s, x)
        BY <1>7, <2>4, <4>2 DEF Held
      <4>3. CASE q0[k] = x
        <5>1. q0[k].role = i
          BY <4>3
        <5>2. \E n \in got'[u] : n.rank = d /\ n.role = i
          BY <1>7, <5>1
        <5> QED BY <2>4, <5>2 DEF Held
      <4> QED BY <4>1, <4>2, <4>3
    <3>3. CASE [token |-> u, role |-> i] \in owed[d]
      BY <1>1, <2>4, <3>3 DEF Held
    <3> QED BY <3>1, <3>2, <3>3
  <2> QED BY <2>2, <2>3, <2>4
<1> QED BY <1>1, <1>9, SameEdge DEF Edged

\* A dealer that gets its token back takes nothing from an edge.
LEMMA DealerEdged ==
  ASSUME IInv, Routes, Edged, NEW u \in Tokens, NEW m \in got[u],
         FinishToken(u, m) \/ DealToken(u, m)
  PROVE  Edged'
<1> DEFINE d == u[1]
<1>1. /\ setup' = setup /\ Ranks' = Ranks /\ Tokens' = Tokens /\ UNCHANGED <<pc, owed>>
      /\ m.role = 0 /\ got' = [got EXCEPT ![u] = got[u] \ {m}]
  BY SameSetup DEF FinishToken, DealToken
<1>2. /\ got[u] = {m} /\ Route(u)
      /\ got = [t \in Tokens |-> got[t]] /\ posted = [t \in Tokens |-> posted[t]]
  <2>1. got[u] \ {m} = {}
    BY Received
  <2> QED BY <2>1 DEF Routes, IInv, Shapes
<1>3. \A t \in Tokens \ {u} : posted'[t] = posted[t] /\ got'[t] = got[t]
  <2>1. \/ posted' = posted
        \/ \E x : posted' = [posted EXCEPT ![u][d] = x]
    BY DEF FinishToken, DealToken, Post
  <2> QED BY <1>1, <1>2, <2>1
<1>4. ASSUME NEW p \in Ranks, NEW x, Has(posted[u][p], x) PROVE Has(posted'[u][p], x)
  <2>1. CASE FinishToken(u, m)
    BY <1>4, <2>1 DEF FinishToken
  <2>2. CASE DealToken(u, m)
    <3> DEFINE y == [src |-> EdgeRank(d, (token_obj[u].edge + 1) % num_edges(d)), role |-> 0]
               q0 == posted[u][d]
    <3>1. /\ posted' = [posted EXCEPT ![u][d] = Append(q0, y)]
          /\ EdgeRank(d, (token_obj[u].edge + 1) % num_edges(d)) \in Ranks
      BY <2>2, Dealt
    <3>2. d \in Ranks /\ q0 \in Seq(Receivable(d, u)) /\ y \in Receivable(d, u)
      BY <1>2, <3>1, StartEdge DEF IInv, Route, Receivable
    <3> HIDE DEF y
    <3>3. posted'[u][p] = IF p = d THEN Append(q0, y) ELSE posted[u][p]
      BY <1>2, <3>1 DEF Route
    <3>4. CASE p = d
      <4> HIDE DEF q0
      <4>1. /\ Len(Append(q0, y)) = Len(q0) + 1 /\ Len(q0) \in Nat
            /\ \A j \in 1..Len(q0) : Append(q0, y)[j] = q0[j]
        BY <3>2, Appended
      <4>2. Has(q0, x)
        BY <1>4, <3>4 DEF q0
      <4> QED BY <3>3, <3>4, <4>1, <4>2 DEF Has
    <3>5. CASE p # d
      BY <1>4, <3>3, <3>5
    <3> QED BY <3>4, <3>5
  <2> QED BY <2>1, <2>2
<1>5. ASSUME NEW t \in Tokens, NEW p \in Ranks, NEW i \in 1..6, pc[p] # "init", IsEdge(p, i, t)
      PROVE  Held(t, p, i)'
  <2>1. Held(t, p, i)
    BY <1>5 DEF Edged
  <2>2. CASE t # u
    BY <1>1, <1>3, <2>1, <2>2, HeldStays
  <2>3. CASE t = u
    <3>1. ~\E n \in got[u] : n.rank = p /\ n.role = i
      BY <1>1, <1>2
    <3> QED BY <1>1, <1>4, <2>1, <2>3, <3>1 DEF Held
  <2> QED BY <2>2, <2>3
<1> QED BY <1>1, <1>5, SameEdge DEF Edged

LEMMA BounceEdged ==
  ASSUME IInv, Routes, Edged, NEW u \in Tokens, NEW r \in Ranks, NEW m \in got[u],
         BounceToken(u, r, m)
  PROVE  Edged'
<1>1. /\ setup' = setup /\ Ranks' = Ranks /\ Tokens' = Tokens /\ posted' = posted
      /\ m.rank = r /\ got' = [got EXCEPT ![u] = got[u] \ {m}]
      /\ owed' = [owed EXCEPT ![r] = {[token |-> u, role |-> m.role]}]
      /\ pc[r] = "loop" /\ pc' = [pc EXCEPT ![r] = "repost"]
  BY SameSetup DEF BounceToken
<1>2. got[u] = {m}
  <2>1. got[u] \ {m} = {}
    BY Received
  <2> QED BY <2>1
<1>3. /\ \A t \in Tokens \ {u} : got'[t] = got[t]
      /\ \A p \in Ranks : pc'[p] = IF p = r THEN "repost" ELSE pc[p]
      /\ \A p \in Ranks : owed'[p] = IF p = r THEN {[token |-> u, role |-> m.role]} ELSE owed[p]
  BY <1>1 DEF Routes, IInv, Shapes
<1>4. owed[r] = {}
  BY <1>1 DEF Edged
<1>5. \A p \in Ranks : IF pc'[p] = "repost" THEN \E o \in owed'[p] : owed'[p] = {o} ELSE owed'[p] = {}
  BY <1>3 DEF Edged
<1>6. ASSUME NEW t \in Tokens, NEW p \in Ranks, NEW i \in 1..6, pc'[p] # "init", IsEdge(p, i, t)
      PROVE  Held(t, p, i)'
  <2>1. Held(t, p, i)
    BY <1>1, <1>3, <1>6 DEF Edged
  <2>2. CASE Has(posted[t][p], [src |-> t[1], role |-> i])
    BY <1>1, <2>2 DEF Held
  <2>3. CASE \E n \in got[t] : n.rank = p /\ n.role = i
    <3>1. CASE t = u
      BY <1>1, <1>2, <1>3, <2>3, <3>1 DEF Held
    <3>2. CASE t # u
      BY <1>3, <2>3, <3>2 DEF Held
    <3> QED BY <3>1, <3>2
  <2>4. CASE [token |-> t, role |-> i] \in owed[p]
    BY <1>3, <1>4, <2>4 DEF Held
  <2> QED BY <2>1, <2>2, <2>3, <2>4 DEF Held
<1> QED BY <1>1, <1>5, <1>6, SameEdge DEF Edged

LEMMA RepostEdged ==
  ASSUME IInv, Routes, Edged, NEW r \in Ranks, Repost(r)
  PROVE  Edged'
<1>1. PICK o \in owed[r] :
        posted' = [posted EXCEPT ![o.token][r] = Append(@, [src |-> o.token[1], role |-> o.role])]
  BY DEF Repost, Post
<1>2. /\ setup' = setup /\ Ranks' = Ranks /\ Tokens' = Tokens /\ got' = got
      /\ owed' = [owed EXCEPT ![r] = {}] /\ pc[r] = "repost" /\ pc' = [pc EXCEPT ![r] = "loop"]
  BY SameSetup DEF Repost
<1>3. owed[r] = {o} /\ o.token \in Tokens /\ o.role \in 1..6
  BY <1>2 DEF Edged, Routes
<1> DEFINE u == o.token
           x == [src |-> u[1], role |-> o.role]
           q0 == posted[u][r]
<1>4. q0 \in Seq(Receivable(r, u)) /\ x \in Receivable(r, u)
  BY <1>3, StartEdge DEF Routes, Route, Receivable, IInv
<1>5. /\ \A p \in Ranks : pc'[p] = IF p = r THEN "loop" ELSE pc[p]
      /\ \A p \in Ranks : owed'[p] = IF p = r THEN {} ELSE owed[p]
  BY <1>2 DEF Routes, IInv, Shapes
<1>6. \A t \in Tokens, p \in Ranks :
        posted'[t][p] = IF t = u /\ p = r THEN Append(q0, x) ELSE posted[t][p]
  <2> HIDE DEF x
  <2>1. posted = [t \in Tokens |-> posted[t]] /\ posted[u] = [p \in Ranks |-> posted[u][p]]
    BY <1>3 DEF Routes, Route
  <2>2. posted' = [posted EXCEPT ![u][r] = Append(q0, x)]
    BY <1>1 DEF x
  <2> QED BY <1>3, <2>1, <2>2
<1>7. Has(Append(q0, x), x) /\ \A y : Has(q0, y) => Has(Append(q0, x), y)
  <2> HIDE DEF x, q0
  <2>1. /\ Len(Append(q0, x)) = Len(q0) + 1 /\ Len(q0) \in Nat /\ Append(q0, x)[Len(q0) + 1] = x
        /\ \A j \in 1..Len(q0) : Append(q0, x)[j] = q0[j]
    BY <1>4, Appended
  <2> QED BY <2>1 DEF Has
<1>8. \A p \in Ranks : IF pc'[p] = "repost" THEN \E z \in owed'[p] : owed'[p] = {z} ELSE owed'[p] = {}
  BY <1>5 DEF Edged
<1>9. ASSUME NEW t \in Tokens, NEW p \in Ranks, NEW i \in 1..6, pc'[p] # "init", IsEdge(p, i, t)
      PROVE  Held(t, p, i)'
  <2>1. Held(t, p, i)
    BY <1>2, <1>5, <1>9 DEF Edged
  <2>2. CASE Has(posted[t][p], [src |-> t[1], role |-> i])
    <3>1. Has(posted'[t][p], [src |-> t[1], role |-> i])
      BY <1>6, <1>7, <2>2
    <3> QED BY <3>1 DEF Held
  <2>3. CASE \E n \in got[t] : n.rank = p /\ n.role = i
    BY <1>2, <2>3 DEF Held
  <2>4. CASE [token |-> t, role |-> i] \in owed[p]
    <3>1. CASE p = r
      <4>1. [token |-> t, role |-> i] = o
        BY <1>3, <2>4, <3>1
      <4>2. t = u /\ i = o.role
        BY <4>1
      <4>3. x = [src |-> t[1], role |-> i] /\ posted'[t][p] = Append(q0, x)
        BY <1>6, <3>1, <4>2
      <4> HIDE DEF x, q0, u
      <4> QED BY <1>7, <4>3 DEF Held
    <3>2. CASE p # r
      BY <1>5, <2>4, <3>2 DEF Held
    <3> QED BY <3>1, <3>2
  <2> QED BY <2>1, <2>2, <2>3, <2>4 DEF Held
<1> QED BY <1>2, <1>8, <1>9, SameEdge DEF Edged

LEMMA EdgedKept ==
  ASSUME Edged, setup' = setup, UNCHANGED <<posted, got, owed>>,
         \A r \in Ranks : /\ pc'[r] = "init" <=> pc[r] = "init"
                          /\ pc'[r] = "repost" <=> pc[r] = "repost"
  PROVE  Edged'
<1>1. Ranks' = Ranks /\ Tokens' = Tokens
  BY SameSetup
<1>2. \A t \in Tokens : \A r \in Ranks : \A i \in 1..6 :
        pc'[r] # "init" /\ IsEdge(r, i, t)' => Held(t, r, i)'
  BY SameEdge, HeldStays DEF Edged
<1>3. \A p \in Ranks : IF pc'[p] = "repost" THEN \E o \in owed'[p] : owed'[p] = {o} ELSE owed'[p] = {}
  BY DEF Edged
<1> QED BY <1>1, <1>2, <1>3 DEF Edged

LEMMA QuietEdged ==
  ASSUME IInv, Edged,
         \/ UNCHANGED vars
         \/ \E r \in Ranks, told \in BOOLEAN : ControlOther(r, told)
         \/ \E heard \in SUBSET Unheard : ControlMesh(heard)
         \/ BeginLoop \/ ControlStar \/ TimeUp \/ EndBarrier \/ Ended
  PROVE  Edged'
<1>1. setup' = setup /\ UNCHANGED <<posted, got, owed>>
  BY QuietSteps DEF Quiet, passing
<1>2. \A r \in Ranks : /\ pc'[r] = "init" <=> pc[r] = "init"
                       /\ pc'[r] = "repost" <=> pc[r] = "repost"
  <2>1. CASE UNCHANGED vars \/ TimeUp \/ Ended
    BY <2>1 DEF vars, TimeUp, Ended
  <2>2. CASE BeginLoop \/ EndBarrier
    BY <2>2 DEF BeginLoop, EndBarrier
  <2>3. CASE \E r \in Ranks, told \in BOOLEAN : ControlOther(r, told)
    BY <2>3 DEF ControlOther, IInv, Shapes
  <2>4. CASE \E heard \in SUBSET Unheard : ControlMesh(heard)
    BY <2>4 DEF ControlMesh, LeaveAndTell, IInv, Shapes
  <2>5. CASE ControlStar
    BY <2>5 DEF ControlStar, LeaveAndTell, IInv, Shapes
  <2> QED BY <2>1, <2>2, <2>3, <2>4, <2>5
<1> QED BY <1>1, <1>2, EdgedKept

LEMMA StepEdged ==
  ASSUME IInv, Routes, Edged, [Next]_vars
  PROVE  Edged'
<1>1. CASE \E r \in Ranks : Start(r) \/ Repost(r)
  BY <1>1, StartEdged, RepostEdged
<1>2. CASE \E r \in Ranks : Handle(r)
  BY <1>2, DealerEdged, BounceEdged DEF Handle
<1>3. CASE \E t \in Tokens : Deliver(t)
  BY <1>3, DeliverEdged
<1>4. CASE \E t \in Tokens : Corrupt(t)
  BY <1>4, EdgedKept DEF Corrupt
<1>5. CASE \/ UNCHANGED vars
           \/ \E r \in Ranks, told \in BOOLEAN : ControlOther(r, told)
           \/ \E heard \in SUBSET Unheard : ControlMesh(heard)
           \/ BeginLoop \/ ControlStar \/ TimeUp \/ EndBarrier \/ Ended
  BY <1>5, QuietEdged
<1> QED BY <1>1, <1>2, <1>3, <1>4, <1>5 DEF Next

--------------------------------------------------------------------------------
(* The torus, there and back *)

\* A rank's place in its block is known from the block and the place.
LEMMA Unique ==
  ASSUME NEW b \in Nat \ {0}, NEW q \in Nat, NEW a \in 0..(b - 1)
  PROVE  (b * q + a) % b = a /\ (b * q + a) \div b = q
<1> DEFINE n == b * q + a
<1>1. n \in Nat /\ b * q \in Nat
  OBVIOUS
<1>2. n % b \in 0..(b - 1) /\ n \div b \in Nat /\ n = b * (n \div b) + (n % b)
  <2> HIDE DEF n
  <2> QED BY <1>1, Divided
<1> DEFINE w == n \div b
           c == n % b
<1>3. b * q + a = b * w + c /\ w \in Nat /\ c \in 0..(b - 1)
  BY <1>2
<1> HIDE DEF n, w, c
<1>4. ~(w < q)
  <2> SUFFICES ASSUME w < q PROVE FALSE
    OBVIOUS
  <2>1. b * w + b <= b * q
    BY <1>3, NextMultiple
  <2>2. b * w \in Int /\ b * q \in Int
    BY <1>3
  <2> QED BY <1>3, <2>1, <2>2
<1>5. ~(q < w)
  <2> SUFFICES ASSUME q < w PROVE FALSE
    OBVIOUS
  <2>1. b * q + b <= b * w
    BY <1>3, NextMultiple
  <2>2. b * w \in Int /\ b * q \in Int
    BY <1>3
  <2> QED BY <1>3, <2>1, <2>2
<1>6. w = q
  BY <1>3, <1>4, <1>5
<1>7. c = a
  BY <1>1, <1>3, <1>6
<1> QED BY <1>6, <1>7 DEF n, w, c

\* One step forward and one back, in a row, a plane and the space.
LEMMA XThereAndBack ==
  ASSUME setup \in Setups, Mesh, NEW r \in Ranks
  PROVE  xminus(xplus(r)) = r /\ xplus(xminus(r)) = r
<1>1. xsize \in Nat \ {0} /\ xsize > 1 /\ r \in Nat
  BY MeshSizes DEF Ranks
<1> DEFINE x == xsize
           q == r \div x
           a == r % x
<1>2. a \in 0..(x - 1) /\ q \in Nat /\ r = x * q + a
  BY <1>1, Divided
<1>3. \A c \in 0..(x - 1) : (x * q + c) % x = c
  BY <1>1, <1>2, Unique
<1>4. /\ \A s \in Int : xplus(s) = IF s % x = 0 THEN s + 1
                           ELSE IF s % x = x - 1 THEN s - (x - 1) ELSE s + 1
      /\ \A s \in Int : xminus(s) = IF s % x = 0 THEN s + (x - 1) ELSE s - 1
  BY DEF xplus, xminus
<1> DEFINE row == x * q
<1>5. row \in Nat
  BY <1>1, <1>2
<1>6. x \in Nat /\ x > 1 /\ r = row + a /\ r % x = a
  BY <1>1, <1>2
<1>7. \A c \in 0..(x - 1) : (row + c) % x = c
  BY <1>3
<1> HIDE DEF x, q, a, row
<1> DEFINE forth(c) == IF c = 0 THEN 1 ELSE IF c = x - 1 THEN 0 ELSE c + 1
           back(c)  == IF c = 0 THEN x - 1 ELSE c - 1
<1>8. \A c \in 0..(x - 1) : /\ forth(c) \in 0..(x - 1) /\ back(forth(c)) = c
                           /\ back(c) \in 0..(x - 1) /\ forth(back(c)) = c
  BY <1>6
<1>9. \A c \in 0..(x - 1) : xplus(row + c) = row + forth(c) /\ xminus(row + c) = row + back(c)
  <2> TAKE c \in 0..(x - 1)
  <2>1. (row + c) % x = c
    BY <1>7
  <2>9. row + c \in Int
    BY <1>5, <1>6
  <2>2. xplus(row + c) = IF c = 0 THEN row + c + 1
                         ELSE IF c = x - 1 THEN row + c - (x - 1) ELSE row + c + 1
    BY <1>4, <1>5, <1>6, <2>1, <2>9
  <2>3. xminus(row + c) = IF c = 0 THEN row + c + (x - 1) ELSE row + c - 1
    BY <1>4, <1>5, <1>6, <2>1, <2>9
  <2> QED BY <1>5, <1>6, <2>2, <2>3
<1> HIDE DEF forth, back
<1>10. xplus(r) = row + forth(a) /\ xminus(r) = row + back(a)
  BY <1>2, <1>6, <1>9
<1>11. xminus(row + forth(a)) = row + a /\ xplus(row + back(a)) = row + a
  BY <1>2, <1>8, <1>9
<1> QED BY <1>6, <1>10, <1>11

LEMMA YThereAndBack ==
  ASSUME setup \in Setups, Mesh, NEW r \in Ranks
  PROVE  yminus(yplus(r)) = r /\ yplus(yminus(r)) = r
<1>1. xsize \in Nat /\ xsize > 1 /\ plane \in Nat \ {0} /\ plane >= xsize /\ r \in Nat
  BY MeshSizes DEF Ranks
<1> DEFINE x == xsize
           p == plane
           q == r \div p
           a == r % p
           base == p * q
<1>2. a \in 0..(p - 1) /\ q \in Nat /\ r = base + a
  BY <1>1, Divided
<1>3. base \in Nat
  BY <1>1, <1>2
<1>4. \A c \in 0..(p - 1) : (base + c) % p = c /\ (base + c) \div p = q
  BY <1>1, <1>2, Unique
<1>5. \A c \in 0..(p - 1) : (base + p + c) % p = c
  <2> TAKE c \in 0..(p - 1)
  <2>1. q + 1 \in Nat
    BY <1>2
  <2>2. (p * (q + 1) + c) % p = c
    BY <1>1, <2>1, Unique
  <2>3. p * (q + 1) = base + p
    BY <1>1, <1>2
  <2> QED BY <2>2, <2>3
<1>6. q * p = base
  BY <1>1, <1>2
<1>7. /\ \A s \in Int : yplus(s) = ((s + x) % p) + (s \div p) * p
      /\ \A s \in Int : yminus(s) = IF s - (s \div p) * p < x THEN p - (x - s) ELSE s - x
  BY DEF yplus, yminus
<1>8. x \in Nat /\ x > 1 /\ p \in Nat /\ p >= x
  BY <1>1
<1>9. r \div p = q /\ (r \div p) * p = base
  BY <1>6
<1>10. \A c \in 0..(p - 1) : ((base + c) \div p) * p = base
  BY <1>4, <1>6
<1> HIDE DEF x, p, q, a, base
<1>11. \A c \in 0..(p - 1) :
         yplus(base + c) = IF c + x < p THEN base + (c + x) ELSE base + (c + x - p)
  <2> TAKE c \in 0..(p - 1)
  <2>1. yplus(base + c) = ((base + c + x) % p) + base
    <3>1. yplus(base + c) = ((base + c + x) % p) + ((base + c) \div p) * p
      <4>1. base + c \in Int
        BY <1>3, <1>8
      <4> QED BY <1>7, <4>1
    <3>2. ((base + c) \div p) * p = base
      BY <1>10
    <3> QED BY <3>1, <3>2
  <2>2. CASE c + x < p
    <3>1. c + x \in 0..(p - 1) /\ base + c + x = base + (c + x)
      BY <1>3, <1>8, <2>2
    <3>2. (base + (c + x)) % p = c + x
      BY <1>4, <3>1
    <3> QED BY <1>3, <1>8, <2>1, <2>2, <3>1, <3>2
  <2>3. CASE ~(c + x < p)
    <3>1. c + x - p \in 0..(p - 1) /\ base + c + x = base + p + (c + x - p)
      BY <1>3, <1>8, <2>3
    <3>2. (base + p + (c + x - p)) % p = c + x - p
      BY <1>5, <3>1
    <3> QED BY <1>3, <1>8, <2>1, <2>3, <3>1, <3>2
  <2> QED BY <2>2, <2>3
<1>12. \A c \in 0..(p - 1) :
         yminus(base + c) = IF c < x THEN base + (c + p - x) ELSE base + (c - x)
  <2> TAKE c \in 0..(p - 1)
  <2>1. yminus(base + c) = IF base + c - ((base + c) \div p) * p < x
                           THEN p - (x - (base + c)) ELSE base + c - x
    <3>1. base + c \in Int
      BY <1>3, <1>8
    <3> QED BY <1>3, <1>7, <1>8, <3>1
  <2>2. ((base + c) \div p) * p = base
    BY <1>10
  <2>3. yminus(base + c) = IF base + c - base < x THEN p - (x - (base + c)) ELSE base + c - x
    BY <2>1, <2>2
  <2> QED BY <1>3, <1>8, <2>3
<1>13. yminus(yplus(r)) = r
  <2>1. CASE a + x < p
    <3>1. yplus(r) = base + (a + x) /\ a + x \in 0..(p - 1)
      BY <1>2, <1>8, <1>11, <2>1
    <3>2. yminus(base + (a + x)) = base + (a + x - x)
      BY <1>2, <1>8, <1>12, <3>1
    <3> QED BY <1>2, <1>3, <1>8, <3>1, <3>2
  <2>2. CASE ~(a + x < p)
    <3>1. yplus(r) = base + (a + x - p) /\ a + x - p \in 0..(p - 1) /\ a + x - p < x
      BY <1>2, <1>8, <1>11, <2>2
    <3>2. yminus(base + (a + x - p)) = base + (a + x - p + p - x)
      BY <1>12, <3>1
    <3> QED BY <1>2, <1>3, <1>8, <3>1, <3>2
  <2> QED BY <2>1, <2>2
<1>14. yplus(yminus(r)) = r
  <2>1. CASE a < x
    <3>1. /\ yminus(r) = base + (a + p - x) /\ a + p - x \in 0..(p - 1)
          /\ ~(a + p - x + x < p)
      BY <1>2, <1>8, <1>12, <2>1
    <3>2. yplus(base + (a + p - x)) = base + (a + p - x + x - p)
      BY <1>11, <3>1
    <3> QED BY <1>2, <1>3, <1>8, <3>1, <3>2
  <2>2. CASE ~(a < x)
    <3>1. yminus(r) = base + (a - x) /\ a - x \in 0..(p - 1) /\ a - x + x < p
      BY <1>2, <1>8, <1>12, <2>2
    <3>2. yplus(base + (a - x)) = base + (a - x + x)
      BY <1>11, <3>1
    <3> QED BY <1>2, <1>3, <1>8, <3>1, <3>2
  <2> QED BY <2>1, <2>2
<1> QED BY <1>13, <1>14

LEMMA ZThereAndBack ==
  ASSUME setup \in Setups, Mesh, NEW r \in Ranks
  PROVE  zminus(zplus(r)) = r /\ zplus(zminus(r)) = r
<1> DEFINE p == plane
           n == space
<1>1. p \in Nat \ {0} /\ n \in Nat \ {0} /\ n >= p /\ r \in 0..(n - 1)
  BY MeshSizes
<1>2. \A s \in 0..(n - 1) : zplus(s) = IF s + p < n THEN s + p ELSE s + p - n
  <2> TAKE s \in 0..(n - 1)
  <2>1. zplus(s) = (s + p) % n
    BY DEF zplus
  <2>2. CASE s + p < n
    <3>1. s + p \in 0..(n - 1) /\ n * 0 + (s + p) = s + p
      BY <1>1, <2>2
    <3>2. (n * 0 + (s + p)) % n = s + p
      BY <1>1, <3>1, Unique
    <3> QED BY <2>1, <2>2, <3>1, <3>2
  <2>3. CASE ~(s + p < n)
    <3>1. s + p - n \in 0..(n - 1) /\ n * 1 + (s + p - n) = s + p
      BY <1>1, <2>3
    <3>2. (n * 1 + (s + p - n)) % n = s + p - n
      BY <1>1, <3>1, Unique
    <3> QED BY <2>1, <2>3, <3>1, <3>2
  <2> QED BY <2>2, <2>3
<1>3. \A s \in Int : zminus(s) = IF s < p THEN n - (p - s) ELSE s - p
  BY DEF zminus
<1> HIDE DEF p, n
<1>4. zminus(zplus(r)) = r
  BY <1>1, <1>2, <1>3
<1>5. zplus(zminus(r)) = r
  <2>1. zminus(r) \in 0..(n - 1)
    BY <1>1, <1>3
  <2>2. zplus(zminus(r)) = IF zminus(r) + p < n THEN zminus(r) + p ELSE zminus(r) + p - n
    BY <1>2, <2>1
  <2> QED BY <1>1, <1>3, <2>1, <2>2
<1> QED BY <1>4, <1>5

\* Every rank a dealer sends to is an edge of it in some role.
LEMMA EdgesKnowTheirDealer ==
  ASSUME Shapes, NEW t \in Tokens, NEW e \in 0..(num_edges(t[1]) - 1)
  PROVE  \E i \in 1..6 : IsEdge(EdgeRank(t[1], e), i, t)
<1> DEFINE d == t[1]
           r == EdgeRank(d, e)
<1>1. d \in Dealers /\ d \in Ranks /\ r \in Ranks /\ setup \in Setups
  BY TokenParts, StartEdge DEF Shapes
<1>2. CASE Mesh
  <2> DEFINE flat(s) == <<xplus(s), xminus(s), yplus(s), yminus(s)>>
  <2>1. /\ xminus(xplus(d)) = d /\ xplus(xminus(d)) = d
        /\ yminus(yplus(d)) = d /\ yplus(yminus(d)) = d
        /\ zminus(zplus(d)) = d /\ zplus(zminus(d)) = d
    BY <1>1, <1>2, XThereAndBack, YThereAndBack, ZThereAndBack
  <2>2. CASE setup.topology = "MESH_3D"
    <3>1. /\ Edges(d) = flat(d) \o <<zplus(d), zminus(d)>>
          /\ EdgesOf(r) = flat(r) \o <<zplus(r), zminus(r)>>
      BY <1>2, <2>2 DEF Edges, EdgesOf, Neighbours
    <3>2. /\ Len(Edges(d)) = 6 /\ Edges(d)[1] = xplus(d) /\ Edges(d)[2] = xminus(d)
          /\ Edges(d)[3] = yplus(d) /\ Edges(d)[4] = yminus(d)
          /\ Edges(d)[5] = zplus(d) /\ Edges(d)[6] = zminus(d)
      BY <3>1
    <3>3. /\ Len(EdgesOf(r)) = 6 /\ EdgesOf(r)[1] = xplus(r) /\ EdgesOf(r)[2] = xminus(r)
          /\ EdgesOf(r)[3] = yplus(r) /\ EdgesOf(r)[4] = yminus(r)
          /\ EdgesOf(r)[5] = zplus(r) /\ EdgesOf(r)[6] = zminus(r)
      <4> HIDE DEF r
      <4> QED BY <3>1
    <3>4. e + 1 \in 1..6 /\ r = Edges(d)[e + 1]
      BY <3>2 DEF num_edges, EdgeRank
    <3>5. \E i \in 1..6 : EdgesOf(r)[i] = d
      <4> HIDE DEF r, d
      <4>1. e + 1 = 1 \/ e + 1 = 2 \/ e + 1 = 3 \/ e + 1 = 4 \/ e + 1 = 5 \/ e + 1 = 6
        BY <3>4
      <4>2. r \in {xplus(d), xminus(d), yplus(d), yminus(d), zplus(d), zminus(d)}
        BY <3>2, <3>4, <4>1
      <4> QED BY <2>1, <3>3, <4>2
    <3>6. \A i \in 1..6 : i <= Len(EdgesOf(r))
      BY <3>3
    <3> QED BY <3>5, <3>6 DEF IsEdge
  <2>3. CASE setup.topology # "MESH_3D"
    <3>1. Edges(d) = flat(d) /\ EdgesOf(r) = flat(r)
      BY <1>2, <2>3 DEF Edges, EdgesOf, Neighbours
    <3>2. /\ Len(Edges(d)) = 4 /\ Edges(d)[1] = xplus(d) /\ Edges(d)[2] = xminus(d)
          /\ Edges(d)[3] = yplus(d) /\ Edges(d)[4] = yminus(d)
      BY <3>1
    <3>3. /\ Len(EdgesOf(r)) = 4 /\ EdgesOf(r)[1] = xplus(r) /\ EdgesOf(r)[2] = xminus(r)
          /\ EdgesOf(r)[3] = yplus(r) /\ EdgesOf(r)[4] = yminus(r)
      <4> HIDE DEF r
      <4> QED BY <3>1
    <3>4. e + 1 \in 1..4 /\ r = Edges(d)[e + 1]
      BY <3>2 DEF num_edges, EdgeRank
    <3>5. \E i \in 1..4 : EdgesOf(r)[i] = d
      <4> HIDE DEF r, d
      <4>1. e + 1 = 1 \/ e + 1 = 2 \/ e + 1 = 3 \/ e + 1 = 4
        BY <3>4
      <4>2. r \in {xplus(d), xminus(d), yplus(d), yminus(d)}
        BY <3>2, <3>4, <4>1
      <4> QED BY <2>1, <3>3, <4>2
    <3>6. \A i \in 1..4 : i <= Len(EdgesOf(r)) /\ i \in 1..6
      BY <3>3
    <3> QED BY <3>5, <3>6 DEF IsEdge
  <2> QED BY <2>2, <2>3
<1>3. CASE ~Mesh
  <2>1. setup.mpi_size \in Nat /\ setup.mpi_size > 1 /\ d = 0
    BY <1>1, <1>3, Sizes DEF Dealers
  <2>2. Edges(d) = [k \in 1..(setup.mpi_size - 1) |-> k]
    BY <1>3 DEF Edges
  <2>3. Len(Edges(d)) = setup.mpi_size - 1
    BY <2>1, <2>2
  <2>4. r = e + 1 /\ r # 0
    BY <2>1, <2>2, <2>3 DEF num_edges, EdgeRank
  <2>5. EdgesOf(r) = <<0>>
    BY <1>3, <2>4 DEF EdgesOf
  <2>6. 1 <= Len(EdgesOf(r)) /\ EdgesOf(r)[1] = 0
    <3> HIDE DEF r
    <3> QED BY <2>5
  <2> QED BY <2>1, <2>6 DEF IsEdge
<1> QED BY <1>2, <1>3

--------------------------------------------------------------------------------
(* The control words *)

\* The ranks pass the barriers together; once rank 0 has left, every rank that has
\* not has its word on the way, and none before; a dealer that is done has said so or
\* has been heard.
Stages ==
  \/ \A r \in Ranks : pc[r] \in {"init", "barrier"}
  \/ \A r \in Ranks : pc[r] \in {"loop", "repost", "left"}
  \/ \A r \in Ranks : pc[r] = "gone"
Dismissed ==
  \A r \in Ranks \ {0} :
    /\ pc[0] = "left" => pc[r] = "left" \/ <<0, r>> \in ctrl
    /\ pc[0] \notin {"left", "gone"} => pc[r] # "left" /\ <<0, r>> \notin ctrl
Announced ==
  \A i \in Ranks \ {0} : ctrl_status[i] = "DONE" => <<i, 0>> \in ctrl \/ dealer_ctrl[i] = "DONE"

Words == Stages /\ Dismissed /\ Announced

LEMMA InitWords == Init => Words
<1> SUFFICES ASSUME Init PROVE Words
  OBVIOUS
<1>1. 0 \in Ranks
  BY InitInv, Sizes DEF IInv
<1> QED BY <1>1 DEF Init, Words, Stages, Dismissed, Announced

\* Messages and their handling leave the control words alone, and the main loop only
\* for its own next post.
LEMMA PassingWords ==
  ASSUME Words, 0 \in Ranks, setup' = setup, UNCHANGED control,
         \A r \in Ranks : pc'[r] = pc[r] \/ {pc[r], pc'[r]} = {"loop", "repost"}
  PROVE  Words'
<1>1. Ranks' = Ranks /\ UNCHANGED <<ctrl, ctrl_status, dealer_ctrl>>
  BY SameSetup DEF control
<1>2. \A r \in Ranks : \/ pc'[r] = pc[r]
                       \/ pc[r] \in {"loop", "repost"} /\ pc'[r] \in {"loop", "repost"}
  <2> TAKE r \in Ranks
  <2> QED OBVIOUS
<1>3. Stages'
  <2>1. CASE \A r \in Ranks : pc[r] \in {"init", "barrier"}
    <3>1. \A r \in Ranks : pc'[r] \in {"init", "barrier"}
      BY <1>2, <2>1
    <3> QED BY <1>1, <3>1 DEF Stages
  <2>2. CASE \A r \in Ranks : pc[r] \in {"loop", "repost", "left"}
    <3>1. \A r \in Ranks : pc'[r] \in {"loop", "repost", "left"}
      BY <1>2, <2>2
    <3> QED BY <1>1, <3>1 DEF Stages
  <2>3. CASE \A r \in Ranks : pc[r] = "gone"
    <3>1. \A r \in Ranks : pc'[r] = "gone"
      BY <1>2, <2>3
    <3> QED BY <1>1, <3>1 DEF Stages
  <2> QED BY <2>1, <2>2, <2>3 DEF Words, Stages
<1>4. Dismissed'
  <2>1. \A r \in Ranks : pc'[r] \in {"left", "gone"} <=> pc[r] \in {"left", "gone"}
    BY <1>2
  <2>2. \A r \in Ranks : pc'[r] = "left" <=> pc[r] = "left"
    BY <1>2
  <2> QED BY <1>1, <2>1, <2>2 DEF Words, Dismissed
<1>5. Announced'
  BY <1>1 DEF Words, Announced
<1> QED BY <1>3, <1>4, <1>5 DEF Words

LEMMA BarrierWords ==
  ASSUME IInv, Words, \/ \E r \in Ranks : Start(r)
                      \/ BeginLoop \/ EndBarrier
  PROVE  Words'
<1>1. /\ setup' = setup /\ Ranks' = Ranks /\ UNCHANGED <<ctrl, ctrl_status, dealer_ctrl>>
      /\ 0 \in Ranks /\ pc \in [Ranks -> PCs]
  BY SameSetup, Sizes DEF Start, BeginLoop, EndBarrier, control, IInv, Shapes
<1>2. Announced'
  BY <1>1 DEF Words, Announced
<1>3. CASE \E r \in Ranks : Start(r)
  <2>1. PICK q \in Ranks : pc[q] = "init" /\ pc' = [pc EXCEPT ![q] = "barrier"]
    BY <1>3 DEF Start
  <2>2. \A r \in Ranks : pc[r] \in {"init", "barrier"}
    BY <2>1 DEF Words, Stages
  <2>3. \A r \in Ranks : pc'[r] \in {"init", "barrier"}
    BY <1>1, <2>1, <2>2
  <2>4. Dismissed'
    BY <1>1, <2>2, <2>3 DEF Words, Dismissed
  <2> QED BY <1>1, <1>2, <2>3, <2>4 DEF Words, Stages
<1>4. CASE BeginLoop
  <2>1. \A r \in Ranks : pc[r] = "barrier" /\ pc'[r] = "loop"
    BY <1>4 DEF BeginLoop
  <2>2. Dismissed'
    BY <1>1, <2>1 DEF Words, Dismissed
  <2> QED BY <1>1, <1>2, <2>1, <2>2 DEF Words, Stages
<1>5. CASE EndBarrier
  <2>1. \A r \in Ranks : pc[r] = "left" /\ pc'[r] = "gone"
    BY <1>5 DEF EndBarrier
  <2>2. Dismissed'
    BY <1>1, <2>1 DEF Dismissed
  <2> QED BY <1>1, <1>2, <2>1, <2>2 DEF Words, Stages
<1> QED BY <1>3, <1>4, <1>5

LEMMA ControlOtherWords ==
  ASSUME IInv, Words, NEW q \in Ranks, NEW told \in BOOLEAN, ControlOther(q, told)
  PROVE  Words'
<1> DEFINE notify == Mesh /\ AllMine(q) /\ ctrl_status[q] = "RUNNING"
<1>1. /\ setup' = setup /\ Ranks' = Ranks /\ dealer_ctrl' = dealer_ctrl /\ 0 \in Ranks
      /\ q # 0 /\ pc[q] = "loop" /\ (told => <<0, q>> \in ctrl)
  BY SameSetup, Sizes DEF ControlOther, IInv
<1>2. /\ pc' = [pc EXCEPT ![q] = IF told THEN "left" ELSE @]
      /\ ctrl' = (IF told THEN ctrl \ {<<0, q>>} ELSE ctrl) \cup (IF notify THEN {<<q, 0>>} ELSE {})
      /\ ctrl_status' = [ctrl_status EXCEPT ![q] = IF notify THEN "DONE" ELSE @]
  BY DEF ControlOther
<1> HIDE DEF notify
<1>3. /\ \A r \in Ranks : pc'[r] = IF r = q /\ told THEN "left" ELSE pc[r]
      /\ \A r \in Ranks : ctrl_status'[r] = IF r = q /\ notify THEN "DONE" ELSE ctrl_status[r]
  BY <1>2 DEF IInv, Shapes
<1>4. /\ \A r \in Ranks : <<0, r>> \in ctrl' <=> <<0, r>> \in ctrl /\ ~(r = q /\ told)
      /\ \A r \in Ranks \ {0} : <<r, 0>> \in ctrl' <=> <<r, 0>> \in ctrl \/ (r = q /\ notify)
  BY <1>1, <1>2
<1>5. Stages'
  <2>1. \A r \in Ranks : pc[r] \in {"loop", "repost", "left"}
    BY <1>1 DEF Words, Stages
  <2>2. \A r \in Ranks : pc'[r] \in {"loop", "repost", "left"}
    BY <1>3, <2>1
  <2> QED BY <1>1, <2>2 DEF Stages
<1>6. Dismissed'
  <2>1. pc'[0] = pc[0]
    BY <1>1, <1>3
  <2>2. told => pc[0] \in {"left", "gone"}
    BY <1>1 DEF Words, Dismissed
  <2>3. ASSUME NEW r \in Ranks \ {0}
        PROVE  /\ pc'[0] = "left" => pc'[r] = "left" \/ <<0, r>> \in ctrl'
               /\ pc'[0] \notin {"left", "gone"} => pc'[r] # "left" /\ <<0, r>> \notin ctrl'
    <3>1. /\ pc[0] = "left" => pc[r] = "left" \/ <<0, r>> \in ctrl
          /\ pc[0] \notin {"left", "gone"} => pc[r] # "left" /\ <<0, r>> \notin ctrl
      BY DEF Words, Dismissed
    <3> QED BY <1>3, <1>4, <2>1, <2>2, <3>1
  <2> QED BY <1>1, <2>3 DEF Dismissed
<1>7. Announced'
  BY <1>1, <1>3, <1>4 DEF Words, Announced
<1> QED BY <1>5, <1>6, <1>7 DEF Words

\* Rank 0 leaves and tells everybody.
LEMMA LeavingWords ==
  ASSUME IInv, Words, setup' = setup, pc[0] = "loop",
         NEW words, LeaveAndTell(words)
  PROVE  Stages' /\ Dismissed' /\ \A i \in Ranks \ {0} : <<i, 0>> \in words => <<i, 0>> \in ctrl'
<1>1. Ranks' = Ranks /\ 0 \in Ranks
  BY SameSetup, Sizes DEF IInv
<1>2. /\ \A r \in Ranks : pc'[r] = IF r = 0 THEN "left" ELSE pc[r]
      /\ ctrl' = words \cup {<<0, i>> : i \in Ranks \ {0}}
  BY DEF LeaveAndTell, IInv, Shapes
<1>3. \A r \in Ranks : pc[r] \in {"loop", "repost", "left"}
  BY <1>1 DEF Words, Stages
<1>4. \A r \in Ranks : pc'[r] \in {"loop", "repost", "left"}
  BY <1>2, <1>3
<1>5. Dismissed'
  BY <1>1, <1>2 DEF Dismissed
<1> QED BY <1>1, <1>2, <1>4, <1>5 DEF Stages

LEMMA ControlZeroWords ==
  ASSUME IInv, Words, ControlStar \/ \E heard \in SUBSET Unheard : ControlMesh(heard)
  PROVE  Words'
<1>1. setup' = setup /\ Ranks' = Ranks /\ 0 \in Ranks /\ pc[0] = "loop"
  BY SameSetup, Sizes DEF ControlStar, ControlMesh, IInv
<1>2. CASE ControlStar
  <2>1. LeaveAndTell(ctrl) /\ UNCHANGED <<ctrl_status, dealer_ctrl>>
    BY <1>2 DEF ControlStar
  <2>2. Stages' /\ Dismissed' /\ \A i \in Ranks \ {0} : <<i, 0>> \in ctrl => <<i, 0>> \in ctrl'
    BY <1>1, <2>1, LeavingWords
  <2> QED BY <1>1, <2>1, <2>2 DEF Words, Announced
<1>3. CASE \E heard \in SUBSET Unheard : ControlMesh(heard)
  <2>1. PICK heard \in SUBSET Unheard : ControlMesh(heard)
    BY <1>3
  <2> DEFINE words == ctrl \ {<<i, 0>> : i \in heard}
  <2>2. /\ LeaveAndTell(words) \/ (ctrl' = words /\ pc' = pc)
        /\ \A i \in Ranks \ {0} : dealer_ctrl'[i] = IF i \in heard THEN "DONE" ELSE dealer_ctrl[i]
        /\ \E s : ctrl_status' = [ctrl_status EXCEPT ![0] = s]
    BY <2>1 DEF ControlMesh
  <2>3. \A i \in Ranks \ {0} : /\ <<i, 0>> \in ctrl => i \in heard \/ <<i, 0>> \in words
                               /\ <<0, i>> \in words <=> <<0, i>> \in ctrl
                               /\ ctrl_status'[i] = ctrl_status[i]
    <3> TAKE i \in Ranks \ {0}
    <3>1. ASSUME <<i, 0>> \in ctrl, i \notin heard PROVE <<i, 0>> \in words
      <4>1. \A j \in heard : <<j, 0>> # <<i, 0>>
        BY <3>1
      <4> QED BY <3>1, <4>1
    <3>2. \A j : <<0, i>> # <<j, 0>>
      OBVIOUS
    <3>3. <<0, i>> \in words <=> <<0, i>> \in ctrl
      BY <3>2
    <3>4. ctrl_status \in [Ranks -> {"RUNNING", "DONE"}]
      BY DEF IInv, Shapes
    <3> HIDE DEF words
    <3>5. ctrl_status'[i] = ctrl_status[i]
      BY <2>2, <3>4
    <3> QED BY <3>1, <3>3, <3>5
  <2> HIDE DEF words
  <2>4. Stages' /\ Dismissed' /\ \A i \in Ranks \ {0} : <<i, 0>> \in words => <<i, 0>> \in ctrl'
    <3>1. CASE LeaveAndTell(words)
      BY <1>1, <3>1, LeavingWords
    <3>2. CASE ctrl' = words /\ pc' = pc
      <4>1. Stages'
        BY <1>1, <3>2 DEF Words, Stages
      <4>2. Dismissed'
        BY <1>1, <2>3, <3>2 DEF Words, Dismissed
      <4> QED BY <3>2, <4>1, <4>2
    <3> QED BY <2>2, <3>1, <3>2
  <2>5. Announced'
    BY <1>1, <2>2, <2>3, <2>4 DEF Words, Announced
  <2> QED BY <2>4, <2>5 DEF Words
<1> QED BY <1>2, <1>3

LEMMA StepWords ==
  ASSUME IInv, Words, [Next]_vars
  PROVE  Words'
<1>1. 0 \in Ranks /\ setup' = setup
  BY Sizes, SetupStays DEF IInv
<1>2. CASE (\E r \in Ranks : Start(r)) \/ BeginLoop \/ EndBarrier
  BY <1>2, BarrierWords
<1>3. CASE \E r \in Ranks : Handle(r) \/ Repost(r)
  <2>1. UNCHANGED control
    BY <1>3 DEF Handle, FinishToken, DealToken, BounceToken, Repost
  <2>2. \A r \in Ranks : pc'[r] = pc[r] \/ {pc[r], pc'[r]} = {"loop", "repost"}
    <3>1. \/ pc' = pc
          \/ \E q \in Ranks : pc[q] = "loop" /\ pc' = [pc EXCEPT ![q] = "repost"]
          \/ \E q \in Ranks : pc[q] = "repost" /\ pc' = [pc EXCEPT ![q] = "loop"]
      BY <1>3 DEF Handle, FinishToken, DealToken, BounceToken, Repost
    <3> QED BY <3>1 DEF IInv, Shapes
  <2> QED BY <1>1, <2>1, <2>2, PassingWords
<1>4. CASE (\E t \in Tokens : Deliver(t) \/ Corrupt(t)) \/ TimeUp \/ Ended \/ UNCHANGED vars
  <2>1. UNCHANGED <<control, pc>>
    BY <1>4 DEF Deliver, Corrupt, TimeUp, Ended, vars, control
  <2> QED BY <1>1, <2>1, PassingWords
<1>5. CASE \E r \in Ranks, told \in BOOLEAN : ControlOther(r, told)
  BY <1>5, ControlOtherWords
<1>6. CASE ControlStar \/ \E heard \in SUBSET Unheard : ControlMesh(heard)
  BY <1>6, ControlZeroWords
<1> QED BY <1>2, <1>3, <1>4, <1>5, <1>6 DEF Next

--------------------------------------------------------------------------------
(* Nobody hangs *)

\* A dealer past its first sends has no idle token, and without a walltime a token
\* that is not finished has cycles left.
Begun == \A t \in Tokens : pc[t[1]] # "init" => Status(t) # "IDLE"
Short == ~setup.walltime => \A t \in Tokens : Status(t) # "FINISHED" => token_obj[t].cycles < count
Going == Begun /\ Short

LEMMA CountPositive ==
  ASSUME setup \in Setups
  PROVE  count \in Nat /\ count > 0 /\ AtLeast(count, MaxCycles) >= count
<1>1. setup.count \in Nat /\ REPORT_PERIOD \in Nat \ {0} /\ MaxCycles \in Nat
  BY TokenSmashAssumption
<1>2. count \in Nat /\ count > 0
  BY <1>1 DEF count, AtLeast
<1> QED BY <1>1, <1>2 DEF AtLeast

LEMMA SameCount ==
  ASSUME setup' = setup
  PROVE  count' = count
BY DEF count

LEMMA InitGoing == Init => Going
<1> SUFFICES ASSUME Init PROVE Going
  OBVIOUS
<1>1. IInv /\ \A t \in Tokens : token_obj[t].cycles = -1
  BY InitInv DEF Init, Object, NoCycles
<1>2. Short
  BY <1>1, CountPositive DEF Short, IInv, Shapes
<1>3. Begun
  BY <1>1, TokenParts, Sizes DEF Begun, Init, IInv
<1> QED BY <1>2, <1>3 DEF Going

\* A step that sets no token idle, and no cycles but those of a token its dealer sends
\* on.
LEMMA GoingKept ==
  ASSUME IInv, Going, setup' = setup, \A r \in Ranks : pc[r] = "init" => pc'[r] = "init",
         token_obj' = token_obj
  PROVE  Going'
<1>1. Tokens' = Tokens /\ count' = count /\ \A t \in Tokens : Status(t)' = Status(t)
  BY SameSetup, SameCount DEF Status
<1>2. \A t \in Tokens : t[1] \in Ranks
  BY TokenParts, Sizes DEF IInv
<1>3. Begun'
  BY <1>1, <1>2 DEF Going, Begun
<1>4. Short'
  BY <1>1 DEF Going, Short
<1> QED BY <1>3, <1>4 DEF Going

LEMMA StartGoing ==
  ASSUME IInv, Going, NEW r \in Ranks, Start(r)
  PROVE  Going'
<1>1. setup' = setup /\ Tokens' = Tokens /\ count' = count
  BY SameSetup, SameCount DEF Start
<1>2. \A t \in Tokens : Status(t)' = IF t[1] = r THEN "RUNNING" ELSE Status(t)
  BY StartStatus
<1>3. \A t \in Tokens : t[1] \in Ranks
  BY TokenParts, Sizes DEF IInv
<1>4. Begun'
  <2>1. \A q \in Ranks : q # r => pc'[q] = pc[q]
    BY DEF Start, IInv, Shapes
  <2> QED BY <1>1, <1>2, <1>3, <2>1 DEF Going, Begun
<1>5. Short'
  <2> SUFFICES ASSUME ~setup.walltime, NEW t \in Tokens, Status(t)' # "FINISHED"
               PROVE  token_obj'[t].cycles < count
    BY <1>1 DEF Short
  <2>1. CASE t[1] = r
    <3>1. token_obj'[t].cycles = -1
      BY <2>1 DEF Start, Object, NoCycles
    <3>2. count \in Nat /\ count > 0
      BY CountPositive DEF IInv, Shapes
    <3> QED BY <3>1, <3>2
  <2>2. CASE t[1] # r
    <3>1. token_obj'[t] = token_obj[t] /\ Status(t)' = Status(t)
      BY <1>2, <2>2 DEF Start
    <3> QED BY <3>1 DEF Going, Short
  <2> QED BY <2>1, <2>2
<1> QED BY <1>4, <1>5 DEF Going

LEMMA DealerGoing ==
  ASSUME IInv, Routes, Trips, Going, NEW u \in Tokens, NEW m \in got[u],
         FinishToken(u, m) \/ DealToken(u, m)
  PROVE  Going'
<1>1. setup' = setup /\ Tokens' = Tokens /\ count' = count /\ pc' = pc
  BY SameSetup, SameCount DEF FinishToken, DealToken
<1>2. \E e, s : /\ token_obj' = [token_obj EXCEPT ![u] = Object(e, CyclesNow(u), s)]
                /\ s = "FINISHED" \/ (s = "RUNNING" /\ ~LastCycle(u))
  BY DEF FinishToken, DealToken
<1>3. PICK e, s : /\ token_obj' = [token_obj EXCEPT ![u] = Object(e, CyclesNow(u), s)]
                  /\ s = "FINISHED" \/ (s = "RUNNING" /\ ~LastCycle(u))
  BY <1>2
<1>4. /\ \A t \in Tokens : Status(t)' = IF t = u THEN s ELSE Status(t)
      /\ \A t \in Tokens \ {u} : token_obj'[t] = token_obj[t]
      /\ token_obj'[u].cycles = CyclesNow(u)
  <2>1. \A t \in Tokens : Status(t)' = IF t = u THEN s ELSE Status(t)
    BY <1>3, ObjectWritten DEF IInv
  <2>2. /\ \A t \in Tokens \ {u} : token_obj'[t] = token_obj[t]
        /\ token_obj'[u] = Object(e, CyclesNow(u), s)
    BY <1>3 DEF IInv, Shapes
  <2> QED BY <2>1, <2>2 DEF Object
<1>5. Begun'
  BY <1>1, <1>3, <1>4 DEF Going, Begun
<1>6. Short'
  <2> SUFFICES ASSUME ~setup.walltime, NEW t \in Tokens, Status(t)' # "FINISHED"
               PROVE  token_obj'[t].cycles < count
    BY <1>1 DEF Short
  <2>1. CASE t = u
    <3>1. s = "RUNNING" /\ ~LastCycle(u)
      BY <1>3, <1>4, <2>1
    <3>2. Status(u) = "RUNNING" /\ token_obj[u].cycles \in Int
      BY Received DEF Trips, Trip
    <3>3. token_obj[u].cycles < count /\ count \in Nat
      BY <3>2, CountPositive DEF Going, Short, IInv, Shapes
    <3>4. Around(u) => CyclesNow(u) # count
      BY <3>1 DEF LastCycle
    <3>5. CyclesNow(u) = token_obj[u].cycles + (IF Around(u) THEN 1 ELSE 0)
      BY DEF CyclesNow
    <3>6. CyclesNow(u) < count
      <4>1. CASE Around(u)
        <5>1. CyclesNow(u) = token_obj[u].cycles + 1
          BY <3>5, <4>1
        <5> QED BY <3>2, <3>3, <3>4, <4>1, <5>1
      <4>2. CASE ~Around(u)
        <5>1. CyclesNow(u) = token_obj[u].cycles + 0
          BY <3>5, <4>2
        <5> QED BY <3>2, <3>3, <5>1
      <4> QED BY <4>1, <4>2
    <3> QED BY <1>4, <2>1, <3>6
  <2>2. CASE t # u
    BY <1>4, <2>2 DEF Going, Short
  <2> QED BY <2>1, <2>2
<1> QED BY <1>5, <1>6 DEF Going

LEMMA StepGoing ==
  ASSUME IInv, Routes, Trips, Going, [Next]_vars
  PROVE  Going'
<1>1. CASE \E r \in Ranks : Start(r)
  BY <1>1, StartGoing
<1>2. CASE \E t \in Tokens : \E m \in got[t] : FinishToken(t, m) \/ DealToken(t, m)
  BY <1>2, DealerGoing
<1>3. setup' = setup
  BY SetupStays
<1>4. CASE \/ \E t \in Tokens, r \in Ranks : \E m \in got[t] : BounceToken(t, r, m)
           \/ \E r \in Ranks : Repost(r)
  <2>1. token_obj' = token_obj /\ \A r \in Ranks : pc[r] = "init" => pc'[r] = "init"
    BY <1>4 DEF BounceToken, Repost, IInv, Shapes
  <2> QED BY <1>3, <2>1, GoingKept
<1>5. CASE \E t \in Tokens : Deliver(t) \/ Corrupt(t)
  BY <1>3, <1>5, GoingKept DEF Deliver, Corrupt
<1>6. CASE \/ UNCHANGED vars
           \/ \E r \in Ranks, told \in BOOLEAN : ControlOther(r, told)
           \/ \E heard \in SUBSET Unheard : ControlMesh(heard)
           \/ BeginLoop \/ ControlStar \/ TimeUp \/ EndBarrier \/ Ended
  <2>1. token_obj' = token_obj
    BY <1>6, QuietSteps DEF Quiet, passing
  <2>2. ASSUME NEW r \in Ranks, pc[r] = "init" PROVE pc'[r] = "init"
    <3>1. CASE UNCHANGED vars \/ TimeUp \/ Ended
      BY <2>2, <3>1 DEF vars, TimeUp, Ended
    <3>2. CASE BeginLoop \/ EndBarrier
      BY <2>2, <3>2 DEF BeginLoop, EndBarrier
    <3>3. CASE \E q \in Ranks, told \in BOOLEAN : ControlOther(q, told)
      BY <2>2, <3>3 DEF ControlOther, IInv, Shapes
    <3>4. CASE ControlStar \/ \E heard \in SUBSET Unheard : ControlMesh(heard)
      BY <2>2, <3>4 DEF ControlStar, ControlMesh, LeaveAndTell, IInv, Shapes
    <3> QED BY <1>6, <3>1, <3>2, <3>3, <3>4
  <2> QED BY <1>3, <2>1, <2>2, GoingKept
<1>7. ASSUME NEW r \in Ranks, Handle(r)
      PROVE  \/ \E t \in Tokens : \E m \in got[t] : FinishToken(t, m) \/ DealToken(t, m)
             \/ \E t \in Tokens, q \in Ranks : \E m \in got[t] : BounceToken(t, q, m)
  BY <1>7 DEF Handle
<1> QED BY <1>1, <1>2, <1>4, <1>5, <1>6, <1>7 DEF Next

\* What the steps of the program need: a message its receive, a completed receive its
\* rank's main loop, a rank in its main loop a word or its tokens' end, and the
\* barriers everybody.
Finds(t) ==
  /\ wire[t] # <<>>
  /\ LET m == Head(wire[t])
         q == posted[t][m.dst]
     IN  \E k \in 1..Len(q) : q[k].src = m.src /\ \A h \in 1..(k - 1) : q[h].src # m.src
Handles(t) == \E m \in got[t] :
  /\ pc[m.rank] = "loop"
  /\ m.role = 0 => m.rank = t[1] /\ (LastCycle(t) \/ CyclesNow(t) <= AtLeast(count, MaxCycles))
Hears(r) ==
  /\ r # 0 /\ pc[r] = "loop"
  /\ <<0, r>> \in ctrl \/ (Mesh /\ AllMine(r) /\ ctrl_status[r] = "RUNNING")
Coordinates ==
  /\ pc[0] = "loop"
  /\ \/ timeup \/ setup.walltime
     \/ Mesh /\ \/ Unheard # {} \/ AllDone(dealers_finished)
                \/ AllMine(0) /\ ctrl_status[0] = "RUNNING"
     \/ ~Mesh /\ AllMine(0)
CanStep ==
  \/ \E r \in Ranks : pc[r] = "init" \/ (pc[r] = "repost" /\ owed[r] # {}) \/ Hears(r)
  \/ \A r \in Ranks : pc[r] = "barrier"
  \/ \A r \in Ranks : pc[r] = "left"
  \/ \E t \in Tokens : Finds(t) \/ Handles(t)
  \/ Coordinates

NeverStuck == (\A r \in Ranks : pc[r] = "gone") \/ CanStep

\* The oldest receive for a message, when there is one.
LEMMA Oldest ==
  ASSUME NEW S, NEW q \in Seq(S), NEW x, \E k \in 1..Len(q) : q[k].src = x
  PROVE  \E k \in 1..Len(q) : q[k].src = x /\ \A h \in 1..(k - 1) : q[h].src # x
<1> DEFINE T == {k \in 1..Len(q) : q[k].src = x}
           Less == OpToRel(<, Nat)
<1>1. IsWellFoundedOn(Less, Nat)
  BY NatLessThanWellFounded
<1>2. T \subseteq Nat /\ T # {} /\ Len(q) \in Nat
  OBVIOUS
<1>3. PICK k \in T : \A h \in T : ~(<<h, k>> \in Less)
  <2> HIDE DEF T, Less
  <2> QED BY <1>1, <1>2, WFMin
<1>4. ASSUME NEW h \in 1..(k - 1) PROVE q[h].src # x
  <2>1. h \in Nat /\ k \in Nat /\ h < k /\ h \in 1..Len(q)
    BY <1>2
  <2>2. <<h, k>> \in Less
    BY <2>1 DEF OpToRel
  <2> QED BY <1>3, <2>1, <2>2
<1> QED BY <1>4

\* Before the ranks leave, a message finds its receive.
LEMMA MailFinds ==
  ASSUME IInv, Routes, Edged, NEW t \in Tokens, wire[t] # <<>>,
         \A r \in Ranks : pc[r] = "loop"
  PROVE  Finds(t)
<1> DEFINE m == wire[t][1]
           d == m.dst
           q == posted[t][d]
<1>1. /\ Status(t) = "RUNNING" /\ wire[t] = <<wire[t][1]>> /\ got[t] = {} /\ Route(t)
  BY DEF IInv, Places, InOnePlace, Routes
<1>2. m \in Mail /\ d \in Ranks
  BY <1>1 DEF Route, OnMail, Mail
<1>3. q \in Seq(Receivable(d, t))
  BY <1>1, <1>2 DEF Route
<1>4. Head(wire[t]) = m
  <2> HIDE DEF m
  <2>1. wire[t] = <<m>>
    BY <1>1 DEF m
  <2> QED BY <2>1
<1>5. \E k \in 1..Len(q) : q[k].src = m.src
  <2>1. CASE m.src = Expected(t) /\ m.dst = t[1]
    <3>1. ~Returned(t)
      BY <1>1 DEF Returned
    <3>2. \E k \in 1..Len(q) : q[k] = [src |-> Expected(t), role |-> 0]
      BY <1>1, <2>1, <3>1 DEF Route, Awaited
    <3> QED BY <2>1, <3>2
  <2>2. CASE m.src = t[1] /\ m.dst = Expected(t)
    <3>1. token_obj[t].edge \in 0..(num_edges(t[1]) - 1)
      BY <1>1 DEF Route
    <3>2. PICK i \in 1..6 : IsEdge(Expected(t), i, t)
      BY <3>1, EdgesKnowTheirDealer DEF Expected, IInv
    <3>3. Held(t, d, i) /\ owed[d] = {}
      BY <1>2, <2>2, <3>2 DEF Edged
    <3>4. Has(q, [src |-> t[1], role |-> i])
      BY <1>1, <3>3 DEF Held
    <3> HIDE DEF q
    <3> QED BY <2>2, <3>4 DEF Has
  <2> QED BY <1>1, <2>1, <2>2 DEF Route, OnMail
<1> HIDE DEF m, d, q
<1>6. \E k \in 1..Len(q) : q[k].src = m.src /\ \A h \in 1..(k - 1) : q[h].src # m.src
  BY <1>3, <1>5, Oldest
<1> QED BY <1>4, <1>6 DEF Finds, q, d

\* Before the ranks leave, and with no walltime, a completed receive is handled.
LEMMA ReceivedHandles ==
  ASSUME IInv, Routes, Trips, Going, NEW t \in Tokens, got[t] # {}, ~setup.walltime,
         \A r \in Ranks : pc[r] = "loop"
  PROVE  Handles(t)
<1>1. PICK m \in got[t] : TRUE
  OBVIOUS
<1>2. Status(t) = "RUNNING" /\ Route(t) /\ m \in Completed /\ token_obj[t].cycles \in Int
  BY Received DEF Routes, Route, OnReceived, Trips, Trip
<1>3. pc[m.rank] = "loop"
  BY <1>2 DEF Completed
<1>4. m.role = 0 => m.rank = t[1]
  BY <1>2 DEF Route, OnReceived
<1>5. token_obj[t].cycles < count /\ count \in Nat /\ AtLeast(count, MaxCycles) >= count
  BY <1>2, CountPositive DEF Going, Short, IInv, Shapes
<1>6. CyclesNow(t) = token_obj[t].cycles \/ CyclesNow(t) = token_obj[t].cycles + 1
  BY <1>2 DEF CyclesNow
<1>7. AtLeast(count, MaxCycles) \in Nat
  BY <1>5, TokenSmashAssumption DEF AtLeast
<1>8. CyclesNow(t) <= AtLeast(count, MaxCycles)
  BY <1>2, <1>5, <1>6, <1>7
<1> QED BY <1>3, <1>4, <1>8 DEF Handles

\* When all tokens have finished, every dealer finds that they have.
LEMMA AllAreMine ==
  ASSUME IInv, AllFinished, NEW d \in Dealers
  PROVE  AllMine(d)
<1>1. Finished(d) = 1..setup.tokens
  BY DEF Finished, AllFinished, Tokens
<1>2. Cardinality(1..setup.tokens) = setup.tokens
  BY Sizes, IntervalSize DEF IInv
<1> QED BY <1>1, <1>2 DEF AllMine, IInv, Counts

LEMMA StuckNowhere ==
  ASSUME IInv, Routes, Trips, Edged, Words, Going
  PROVE  NeverStuck
<1> SUFFICES ASSUME ~CanStep, ~\A r \in Ranks : pc[r] = "gone"
             PROVE  FALSE
  BY DEF NeverStuck
<1>1. /\ 0 \in Ranks /\ setup.mpi_size \in Nat /\ setup.mpi_size > 1
      /\ Mesh => Dealers = Ranks /\ 0 \in Dealers
      /\ 0 \in Dealers
  BY Sizes DEF IInv
<1>2. \A r \in Ranks : pc[r] # "init" /\ pc[r] # "repost"
  <2>1. \A r \in Ranks : pc[r] = "repost" => owed[r] # {}
    BY DEF Edged
  <2> QED BY <2>1 DEF CanStep
<1>3. \A r \in Ranks : pc[r] \in {"loop", "left"}
  <2>1. ~\A r \in Ranks : pc[r] = "barrier"
    BY DEF CanStep
  <2> QED BY <1>2, <2>1 DEF Words, Stages
<1>4. pc[0] # "left"
  <2> SUFFICES ASSUME pc[0] = "left" PROVE FALSE
    OBVIOUS
  <2>1. \A r \in Ranks : pc[r] = "left"
    <3> SUFFICES ASSUME NEW r \in Ranks, pc[r] = "loop" PROVE FALSE
      BY <1>3
    <3>1. r # 0 /\ <<0, r>> \in ctrl
      BY DEF Words, Dismissed
    <3> QED BY <3>1 DEF CanStep, Hears
  <2> QED BY <2>1 DEF CanStep
<1>5. \A r \in Ranks : pc[r] = "loop"
  BY <1>1, <1>3, <1>4 DEF Words, Dismissed
<1>6. ~timeup /\ ~setup.walltime
  BY <1>1, <1>5 DEF CanStep, Coordinates
<1>7. \A t \in Tokens : wire[t] = <<>> /\ got[t] = {}
  BY <1>5, <1>6, MailFinds, ReceivedHandles DEF CanStep
<1>8. AllFinished
  <2> SUFFICES ASSUME NEW t \in Tokens PROVE Status(t) = "FINISHED"
    BY DEF AllFinished
  <2>1. InOnePlace(t) /\ t[1] \in Ranks /\ Status(t) \in {"IDLE", "RUNNING", "FINISHED"}
    BY TokenParts, Sizes DEF IInv, Places, Shapes
  <2>2. Status(t) # "IDLE"
    BY <1>2, <2>1 DEF Going, Begun
  <2>3. Status(t) # "RUNNING"
    <3>1. \A x : <<x>> # <<>>
      OBVIOUS
    <3> QED BY <1>7, <2>1, <3>1 DEF InOnePlace
  <2> QED BY <2>1, <2>2, <2>3
<1>9. \A d \in Dealers : AllMine(d)
  BY <1>8, AllAreMine
<1>10. Mesh
  BY <1>1, <1>5, <1>9 DEF CanStep, Coordinates
<1>11. \A r \in Ranks : ctrl_status[r] = "DONE"
  <2>1. \A r \in Ranks : ctrl_status[r] \in {"RUNNING", "DONE"} /\ AllMine(r)
    BY <1>1, <1>9, <1>10 DEF IInv, Shapes
  <2> QED BY <1>5, <1>10, <2>1 DEF CanStep, Hears, Coordinates
<1>12. Unheard = {}
  BY <1>5, <1>10, <1>1 DEF CanStep, Coordinates
<1>13. \A i \in Ranks \ {0} : dealer_ctrl[i] = "DONE"
  <2>1. \A i \in Ranks \ {0} : dealer_ctrl[i] \in {"RUNNING", "DONE"}
    BY DEF IInv, Shapes
  <2> QED BY <1>11, <1>12, <2>1 DEF Words, Announced, Unheard
<1>14. HeardDone = Ranks \ {0}
  BY <1>13 DEF HeardDone
<1>15. Cardinality(Ranks \ {0}) = setup.mpi_size - 1
  BY HeardFinite DEF IInv
<1>16. dealers_finished = (setup.mpi_size - 1) + 1
  BY <1>1, <1>11, <1>14, <1>15 DEF IInv, Counts
<1>17. AllDone(dealers_finished)
  BY <1>1, <1>16 DEF AllDone
<1> QED BY <1>1, <1>5, <1>10, <1>17 DEF CanStep, Coordinates

\* Until all ranks are gone some part of the program can go on, for every topology,
\* size, number of tokens and cycles, whatever is corrupted and whenever time is up:
\* no message waits for a receive that nobody posts, no barrier for a rank that was
\* not told, and rank 0 for no dealer whose tokens have finished unannounced.
THEOREM NobodyHangs == Spec => []NeverStuck
<1> DEFINE HInv == IInv /\ Routes /\ Trips /\ Edged /\ Words /\ Going
<1>1. Init => HInv
  BY InitInv, InitRoutes, InitTrips, InitEdged, InitWords, InitGoing
<1>2. HInv /\ [Next]_vars => HInv'
  BY StepKeeps, StepRoutes, StepTrips, StepEdged, StepWords, StepGoing
<1>3. HInv => NeverStuck
  BY StuckNowhere
<1> QED BY <1>1, <1>2, <1>3, PTL DEF Spec
================================================================================
