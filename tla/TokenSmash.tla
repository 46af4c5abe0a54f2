------------------------------- MODULE TokenSmash -------------------------------
(***************************************************************************)
(* mpi_tokensmash.c: dealers send every one of their tokens around their   *)
(* neighbours, which bounce it back; a token that has gone around often    *)
(* enough is finished, a dealer whose tokens are finished tells rank 0,    *)
(* and rank 0 shuts everybody down when all dealers are done.              *)
(*                                                                         *)
(* MPI is modelled by what the program relies on: messages of one pair of  *)
(* ranks with one tag stay in order, and a message goes to the oldest      *)
(* posted receive that matches its source and tag.  A main loop runs the   *)
(* steps below whenever MPI_Test reports that a receive completed.         *)
(***************************************************************************)
EXTENDS Integers, Sequences, FiniteSets

CONSTANTS
  Setups,           \* the command lines of interest
  REPORT_PERIOD,    \* the least count of cycles (4 in the code)
  INTEGRITY_PERIOD, \* cycles between two integrity checks (10 in the code)
  MaxFaults,        \* bound: corrupted messages in a run
  MaxCycles         \* bound: cycles of a token when only the walltime ends a run

ASSUME TokenSmashAssumption ==
  /\ \A s \in Setups :
       /\ s.topology \in {"STAR", "MESH_2D", "MESH_3D"}
       /\ s.tokens \in 1..255
       /\ s.count \in Nat
       /\ s.walltime \in BOOLEAN
       /\ s.check \in 0..2
       /\ s.mpi_size \in Nat /\ s.mpi_size > 1
       /\ s.topology # "STAR" =>
            /\ s.xsize \in Nat \ {0, 1} /\ s.ysize \in Nat \ {0} /\ s.zsize \in Nat \ {0}
            /\ s.mpi_size = s.xsize * s.ysize * s.zsize
  /\ REPORT_PERIOD \in Nat \ {0} /\ INTEGRITY_PERIOD \in Nat \ {0}
  /\ MaxFaults \in Nat /\ MaxCycles \in Nat

\* token_len_init divides by the number of long tokens less one (mpi_tokensmash.c:487):
\* with one long token, so with one token and the default -r, rank 0 dies of it.  The
\* lengths themselves are left out.
ASSUME LengthsAssumption ==
  \A s \in Setups : s.short \in Nat /\ s.tokens - s.short # 1

VARIABLES
  setup,            \* the command line, the same for every rank
  pc,               \* init, barrier, loop, repost, left (the main loop), gone
  wire,             \* token -> its messages under way
  posted,           \* token -> rank -> its posted receives, oldest first
  got,              \* token -> completed receives not handled yet
  owed,             \* rank -> the receive an edge posts again after its bounce
  token_obj,        \* token -> where its dealer has it
  tokens_finished,  \* rank -> number of its tokens that finished
  temp_bad_bytes,   \* rank -> whether the last integrity check found bad bytes
  integrity_errors, \* rank -> corrupted buffers counted
  ctrl,             \* control words under way, as <<from, to>>
  ctrl_status,      \* rank -> DEALER_RUNNING or DEALER_DONE, its own view
  dealer_ctrl,      \* rank 0's view of the other dealers
  dealers_finished, \* rank 0's count
  timeup,           \* the walltime has elapsed
  faults,           \* history: the tokens whose message was corrupted
  bounced           \* history: token -> rank -> times that rank bounced it

vars == <<setup, pc, wire, posted, got, owed, token_obj, tokens_finished,
          temp_bad_bytes, integrity_errors, ctrl, ctrl_status, dealer_ctrl,
          dealers_finished, timeup, faults, bounced>>

passing == <<wire, posted, got, owed, token_obj, tokens_finished, temp_bad_bytes,
             integrity_errors, bounced>>
control == <<ctrl, ctrl_status, dealer_ctrl, dealers_finished>>

--------------------------------------------------------------------------------
\* The logical mesh: a torus in every direction.

xsize == setup.xsize
plane == setup.xsize * setup.ysize
space == plane * setup.zsize

xplus(r)  == LET xnorm == r % xsize
             IN  IF xnorm = 0 THEN r + 1
                 ELSE IF xnorm = xsize - 1 THEN r - (xsize - 1) ELSE r + 1
xminus(r) == IF r % xsize = 0 THEN r + (xsize - 1) ELSE r - 1
yplus(r)  == ((r + xsize) % plane) + (r \div plane) * plane
yminus(r) == IF r - (r \div plane) * plane < xsize THEN plane - (xsize - r) ELSE r - xsize
zplus(r)  == (r + plane) % space
zminus(r) == IF r < plane THEN space - (plane - r) ELSE r - plane

--------------------------------------------------------------------------------
\* Roles: every rank of a mesh deals to its neighbours and is an edge of each
\* of them; in a star rank 0 deals and the others are its edges.

Ranks  == 0..(setup.mpi_size - 1)
Mesh   == setup.topology # "STAR"
Dealers == IF Mesh THEN Ranks ELSE {0}
Tokens == Dealers \X (1..setup.tokens)

Neighbours(r) ==
  <<xplus(r), xminus(r), yplus(r), yminus(r)>>
    \o IF setup.topology = "MESH_3D" THEN <<zplus(r), zminus(r)>> ELSE <<>>

\* The ranks a dealer sends to, and the dealers a rank is an edge of.  Role 0
\* is the dealer's, role i is the edge of the i-th dealer.
Edges(d)   == IF Mesh THEN Neighbours(d) ELSE [e \in 1..(setup.mpi_size - 1) |-> e]
EdgesOf(r) == IF Mesh THEN Neighbours(r) ELSE IF r = 0 THEN <<>> ELSE <<0>>
num_edges(d) == Len(Edges(d))
EdgeRank(d, e) == Edges(d)[e + 1]

DEALER_ID == 256    \* the shift by DEALER_ID_SHIFT
Tag(t) == t[1] * DEALER_ID + t[2]
GENERIC_TAG   == 10 * 65536
CTRL_WORD_TAG == 11 * 65536
STATS_TAG     == 12 * 65536

AtLeast(a, b) == IF a < b THEN b ELSE a
count == AtLeast(setup.count, REPORT_PERIOD)
integrity_period == IF INTEGRITY_PERIOD > count THEN count ELSE INTEGRITY_PERIOD
start_edge(t) == (t[2] - 1) % num_edges(t[1])

Object(edge, cycles, status) == [edge |-> edge, cycles |-> cycles, status |-> status]
Message(src, dst, role, bad) == [src |-> src, dst |-> dst, role |-> role, bad |-> bad]

\* Variant: the first receive from the first edge counts as a cycle.
FirstCycles == 0

NoCycles == -1  \* "because first receive isn't a completed trip"

--------------------------------------------------------------------------------

Init ==
  /\ setup \in Setups
  /\ pc = [r \in Ranks |-> "init"]
  /\ wire = [t \in Tokens |-> <<>>]
  /\ posted = [t \in Tokens |-> [r \in Ranks |-> <<>>]]
  /\ got = [t \in Tokens |-> {}]
  /\ owed = [r \in Ranks |-> {}]
  /\ token_obj = [t \in Tokens |-> Object(start_edge(t), NoCycles, "IDLE")]
  /\ tokens_finished = [r \in Ranks |-> 0]
  /\ temp_bad_bytes = [r \in Ranks |-> FALSE]
  /\ integrity_errors = [r \in Ranks |-> 0]
  /\ ctrl = {}
  /\ ctrl_status = [r \in Ranks |-> "RUNNING"]
  /\ dealer_ctrl = [r \in Ranks \ {0} |-> "RUNNING"]
  /\ dealers_finished = 0
  /\ timeup = FALSE
  /\ faults = {}
  /\ bounced = [t \in Tokens |-> [r \in Ranks |-> 0]]

\* The receives rank r posts for token t before the first send: the dealer's
\* own, from the token's first edge, and one per role (at most six) as an edge of
\* the dealer.
AsEdge(r, t, i) ==
  IF i <= Len(EdgesOf(r)) /\ EdgesOf(r)[i] = t[1] THEN <<[src |-> t[1], role |-> i]>> ELSE <<>>
Preposted(r, t) ==
  (IF t[1] = r THEN <<[src |-> EdgeRank(r, start_edge(t)), role |-> 0]>> ELSE <<>>)
    \o AsEdge(r, t, 1) \o AsEdge(r, t, 2) \o AsEdge(r, t, 3)
    \o AsEdge(r, t, 4) \o AsEdge(r, t, 5) \o AsEdge(r, t, 6)

\* send_recv_buf_init and the first sends of a dealer, up to the barrier.
Start(r) ==
  /\ pc[r] = "init"
  /\ pc' = [pc EXCEPT ![r] = "barrier"]
  /\ posted' = [t \in Tokens |-> [posted[t] EXCEPT ![r] = Preposted(r, t)]]
  /\ wire' = [t \in Tokens |->
                IF t[1] = r
                THEN Append(wire[t], Message(r, EdgeRank(r, start_edge(t)), 0, FALSE))
                ELSE wire[t]]
  /\ token_obj' = [t \in Tokens |->
                     IF t[1] = r THEN Object(start_edge(t), NoCycles, "RUNNING")
                     ELSE token_obj[t]]
  /\ UNCHANGED <<setup, got, owed, tokens_finished, temp_bad_bytes, integrity_errors,
                 control, timeup, faults, bounced>>

\* The barrier before the main loop.
BeginLoop ==
  /\ \A r \in Ranks : pc[r] = "barrier"
  /\ pc' = [r \in Ranks |-> "loop"]
  /\ UNCHANGED <<setup, passing, control, timeup, faults>>
--------------------------------------------------------------------------------
\* Messages.

\* A message reaches the oldest receive posted for its source and its tag.
Deliver(t) ==
  /\ wire[t] # <<>>
  /\ LET m == Head(wire[t])
         q == posted[t][m.dst]
     IN  \E k \in 1..Len(q) :
           /\ q[k].src = m.src /\ \A h \in 1..(k - 1) : q[h].src # m.src
           /\ posted' = [posted EXCEPT ![t][m.dst] = SubSeq(q, 1, k - 1) \o SubSeq(q, k + 1, Len(q))]
           /\ got' = [got EXCEPT ![t] = @ \cup {[rank |-> m.dst, role |-> q[k].role, bad |-> m.bad]}]
  /\ wire' = [wire EXCEPT ![t] = Tail(@)]
  /\ UNCHANGED <<setup, pc, owed, token_obj, tokens_finished, temp_bad_bytes,
                 integrity_errors, control, timeup, faults, bounced>>

\* The fault the program is there to find: a message changes on its way.
Corrupt(t) ==
  /\ Cardinality(faults) < MaxFaults /\ t \notin faults
  /\ setup.check # 0     \* bound: with check 0 nobody looks at the data
  /\ wire[t] # <<>>
  /\ LET m == Head(wire[t])
     IN  wire' = [wire EXCEPT ![t] = <<Message(m.src, m.dst, m.role, TRUE)>> \o Tail(@)]
  /\ faults' = faults \cup {t}
  /\ UNCHANGED <<setup, pc, posted, got, owed, token_obj, tokens_finished,
                 temp_bad_bytes, integrity_errors, control, timeup, bounced>>

\* Rank r posts a receive for token t, or sends it on.
Post(t, r, role, src)     == posted' = [posted EXCEPT ![t][r] = Append(@, [src |-> src, role |-> role])]
Send(t, r, role, to, bad) == wire' = [wire EXCEPT ![t] = Append(@, Message(r, to, role, bad))]

\* The token came back from the edge it started with: one cycle more.
Around(t) == token_obj[t].edge = start_edge(t)
CyclesNow(t) == token_obj[t].cycles + (IF Around(t) THEN 1 ELSE 0)
LastCycle(t) == ~setup.walltime /\ Around(t) /\ CyclesNow(t) = count

Checked(t) ==
  /\ CyclesNow(t) % integrity_period = 0
  /\ setup.check = 1 \/ (setup.check = 2 /\ Around(t))

\* The dealer got the last bounce of its token.
FinishToken(t, m) ==
  /\ pc[t[1]] = "loop"
  /\ m \in got[t] /\ m.rank = t[1] /\ m.role = 0
  /\ LastCycle(t)
  /\ token_obj' = [token_obj EXCEPT ![t] = Object(@.edge, CyclesNow(t), "FINISHED")]
  /\ tokens_finished' = [tokens_finished EXCEPT ![t[1]] = @ + 1]
  /\ got' = [got EXCEPT ![t] = @ \ {m}]
  /\ UNCHANGED <<setup, pc, wire, posted, owed, temp_bad_bytes, integrity_errors,
                 control, timeup, faults, bounced>>

\* Variant: with integrity check 2 the received buffer is sent on regardless.
SentBadAnyway(found, bad) == setup.check = 2 /\ bad

\* The buffer that is sent on with integrity check 2 is the one received, and
\* a clean one when the last check found bad bytes; the other modes always
\* send a clean one.
SentBad(found, bad) == setup.check = 2 /\ ~found /\ bad

\* Variant: the next receive is posted for the edge the token came from.
NextFromOld(t) == token_obj[t].edge

NextFrom(t) == (token_obj[t].edge + 1) % num_edges(t[1])

\* The dealer got a bounce of its token and sends it on to the next edge, whose
\* bounce it expects before it sends.
DealToken(t, m) ==
  /\ pc[t[1]] = "loop"
  /\ m \in got[t] /\ m.rank = t[1] /\ m.role = 0
  /\ ~LastCycle(t)
  /\ CyclesNow(t) <= AtLeast(count, MaxCycles)
  /\ LET d     == t[1]
         found == IF Checked(t) THEN m.bad ELSE temp_bad_bytes[d]
         next  == (token_obj[t].edge + 1) % num_edges(d)
     IN  /\ token_obj' = [token_obj EXCEPT ![t] = Object(next, CyclesNow(t), "RUNNING")]
         /\ temp_bad_bytes' = [temp_bad_bytes EXCEPT ![d] = found]
         /\ integrity_errors' = IF Checked(t) /\ m.bad
                                THEN [integrity_errors EXCEPT ![d] = @ + 1]
                                ELSE integrity_errors
         /\ Post(t, d, 0, EdgeRank(d, NextFrom(t)))
         /\ Send(t, d, 0, EdgeRank(d, next), SentBad(found, m.bad))
  /\ got' = [got EXCEPT ![t] = @ \ {m}]
  /\ UNCHANGED <<setup, pc, owed, tokens_finished, control, timeup, faults, bounced>>

\* An edge sends the token back to its dealer; it posts the receive for the next
\* time only after that, so the token may be there first.
BounceToken(t, r, m) ==
  /\ pc[r] = "loop"
  /\ m \in got[t] /\ m.rank = r /\ m.role # 0
  /\ Send(t, r, m.role, t[1], m.bad)
  /\ owed' = [owed EXCEPT ![r] = {[token |-> t, role |-> m.role]}]
  /\ pc' = [pc EXCEPT ![r] = "repost"]
  /\ got' = [got EXCEPT ![t] = @ \ {m}]
  /\ bounced' = [bounced EXCEPT ![t][r] = @ + 1]
  /\ UNCHANGED <<setup, posted, token_obj, tokens_finished, temp_bad_bytes,
                 integrity_errors, control, timeup, faults>>

Repost(r) ==
  /\ pc[r] = "repost"
  /\ \E o \in owed[r] : Post(o.token, r, o.role, o.token[1])
  /\ owed' = [owed EXCEPT ![r] = {}]
  /\ pc' = [pc EXCEPT ![r] = "loop"]
  /\ UNCHANGED <<setup, wire, got, token_obj, tokens_finished, temp_bad_bytes,
                 integrity_errors, control, timeup, faults, bounced>>

--------------------------------------------------------------------------------
\* Control coordination, every CTRL_PERIOD seconds of the main loop.

\* Variant: off by one, as if the first cycle counted for the tokens as well.
AllMineOff(r) == tokens_finished[r] > setup.tokens

AllMine(r) == tokens_finished[r] = setup.tokens

\* Rank r # 0: a control word from rank 0 ends its loop, and a dealer whose
\* tokens are finished says so, once.
ControlOther(r, told) ==
  /\ r # 0 /\ pc[r] = "loop"
  /\ told => <<0, r>> \in ctrl
  /\ LET notify == Mesh /\ AllMine(r) /\ ctrl_status[r] = "RUNNING"
     IN  /\ told \/ notify
         /\ pc' = [pc EXCEPT ![r] = IF told THEN "left" ELSE @]
         /\ ctrl' = (IF told THEN ctrl \ {<<0, r>>} ELSE ctrl)
                      \cup (IF notify THEN {<<r, 0>>} ELSE {})
         /\ ctrl_status' = [ctrl_status EXCEPT ![r] = IF notify THEN "DONE" ELSE @]
  /\ UNCHANGED <<setup, passing, dealer_ctrl, dealers_finished, timeup, faults>>

\* The dealers whose word rank 0 has not heard yet.
Unheard == {i \in Ranks \ {0} : dealer_ctrl[i] = "RUNNING" /\ <<i, 0>> \in ctrl}

\* Rank 0 leaves the loop and sends CTRL_SHUTDOWN to everybody.
LeaveAndTell(words) ==
  /\ pc' = [pc EXCEPT ![0] = "left"]
  /\ ctrl' = words \cup {<<0, i>> : i \in Ranks \ {0}}

\* Variant: rank 0 does not wait for the last dealer.
AllDoneButOne(n) == n >= setup.mpi_size - 1

AllDone(n) == n = setup.mpi_size

\* Rank 0 in a mesh: hears the dealers that say they are done, counts itself
\* when its own tokens are finished, and leaves when all have been counted.
ControlMesh(heard) ==
  /\ Mesh /\ pc[0] = "loop"
  /\ heard \subseteq Unheard
  /\ LET mine == AllMine(0) /\ ctrl_status[0] = "RUNNING"
         done == dealers_finished + Cardinality(heard) + (IF mine THEN 1 ELSE 0)
         words == ctrl \ {<<i, 0>> : i \in heard}
     IN  /\ heard # {} \/ mine \/ timeup \/ AllDone(done)
         /\ dealer_ctrl' = [i \in Ranks \ {0} |-> IF i \in heard THEN "DONE" ELSE dealer_ctrl[i]]
         /\ dealers_finished' = done
         /\ ctrl_status' = [ctrl_status EXCEPT ![0] = IF mine THEN "DONE" ELSE @]
         /\ IF AllDone(done) \/ timeup THEN LeaveAndTell(words)
            ELSE ctrl' = words /\ UNCHANGED pc
  /\ UNCHANGED <<setup, passing, timeup, faults>>

\* Rank 0 in a star is the only dealer.
ControlStar ==
  /\ ~Mesh /\ pc[0] = "loop"
  /\ AllMine(0) \/ timeup
  /\ LeaveAndTell(ctrl)
  /\ UNCHANGED <<setup, passing, ctrl_status, dealer_ctrl, dealers_finished, timeup, faults>>

\* The walltime of option -w elapses.
TimeUp ==
  /\ setup.walltime /\ ~timeup /\ pc[0] = "loop"
  /\ timeup' = TRUE
  /\ UNCHANGED <<setup, pc, passing, control, faults>>

\* The barrier after the main loop.
EndBarrier ==
  /\ \A r \in Ranks : pc[r] = "left"
  /\ pc' = [r \in Ranks |-> "gone"]
  /\ UNCHANGED <<setup, passing, control, timeup, faults>>

Ended == (\A r \in Ranks : pc[r] = "gone") /\ UNCHANGED vars

\* What a pass of rank r's main loop does with the receives that completed, and
\* what its control coordination does with what has arrived.
Handle(r) ==
  \E t \in Tokens : \E m \in got[t] :
    \/ r = t[1] /\ (FinishToken(t, m) \/ DealToken(t, m))
    \/ BounceToken(t, r, m)
LoopStep(r) == Handle(r) \/ Repost(r)

Coordinate(r) ==
  \/ ControlOther(r, <<0, r>> \in ctrl)
  \/ r = 0 /\ (ControlMesh(Unheard) \/ ControlStar)

Next ==
  \/ \E r \in Ranks : Start(r) \/ Handle(r) \/ Repost(r)
  \/ BeginLoop
  \/ \E t \in Tokens : Deliver(t) \/ Corrupt(t)
  \/ \E r \in Ranks, told \in BOOLEAN : ControlOther(r, told)
  \/ \E heard \in SUBSET Unheard : ControlMesh(heard)
  \/ ControlStar
  \/ TimeUp
  \/ EndBarrier
  \/ Ended

Spec == Init /\ [][Next]_vars

\* Every rank runs, handles what has completed and comes to its control
\* coordination again and again, MPI moves messages along, and time passes.
AllRanks  == UNION {0..(s.mpi_size - 1) : s \in Setups}
AllTokens == AllRanks \X UNION {1..s.tokens : s \in Setups}

FairSpec ==
  /\ Spec
  /\ \A r \in AllRanks :
       /\ WF_vars(r \in Ranks /\ Start(r))
       /\ WF_vars(r \in Ranks /\ LoopStep(r))
       /\ WF_vars(r \in Ranks /\ Coordinate(r))
  /\ \A t \in AllTokens : WF_vars(t \in Tokens /\ Deliver(t))
  /\ WF_vars(BeginLoop) /\ WF_vars(TimeUp) /\ WF_vars(EndBarrier)

--------------------------------------------------------------------------------

TypeOK ==
  /\ setup \in Setups
  /\ pc \in [Ranks -> {"init", "barrier", "loop", "repost", "left", "gone"}]
  /\ \A t \in Tokens :
       /\ wire[t] \in Seq([src : Ranks, dst : Ranks, role : 0..6, bad : BOOLEAN])
       /\ posted[t] \in [Ranks -> Seq([src : Ranks, role : 0..6])]
       /\ got[t] \subseteq [rank : Ranks, role : 0..6, bad : BOOLEAN]
       /\ token_obj[t].edge \in 0..(num_edges(t[1]) - 1)
       /\ token_obj[t].cycles \in Int
       /\ token_obj[t].status \in {"IDLE", "RUNNING", "FINISHED"}
       /\ bounced[t] \in [Ranks -> Nat]
  /\ tokens_finished \in [Ranks -> 0..setup.tokens]
  /\ temp_bad_bytes \in [Ranks -> BOOLEAN]
  /\ integrity_errors \in [Ranks -> Nat]
  /\ ctrl \subseteq Ranks \X Ranks
  /\ ctrl_status \in [Ranks -> {"RUNNING", "DONE"}]
  /\ dealer_ctrl \in [Ranks \ {0} -> {"RUNNING", "DONE"}]
  /\ dealers_finished \in 0..setup.mpi_size
  /\ timeup \in BOOLEAN
  /\ faults \subseteq Tokens

\* A token that is running is in exactly one place, under way or in a receive
\* that completed, so its tag never has two messages at once.
OneCopy ==
  \A t \in Tokens :
    Len(wire[t]) + Cardinality(got[t]) = (IF token_obj[t].status = "RUNNING" THEN 1 ELSE 0)

\* "Pre-post a receive for this token object": a bounce always finds its dealer's
\* receive posted, so MPI never has to keep it as an unexpected message.
BounceExpected ==
  \A t \in Tokens : \A i \in 1..Len(wire[t]) :
    wire[t][i].dst = t[1] /\ wire[t][i].src # t[1] =>
      \E k \in 1..Len(posted[t][t[1]]) :
        posted[t][t[1]][k] = [src |-> wire[t][i].src, role |-> 0]

\* "If the receive of the token object completed, then no doubt the Isend that
\* sent it is completed": the send a rank made from a role's buffer has been
\* delivered when that role's next receive completes into the same buffer, and
\* the loop that waits for it does not spin.
BufferFree ==
  \A t \in Tokens : \A m \in got[t] : \A i \in 1..Len(wire[t]) :
    ~(wire[t][i].src = m.rank /\ wire[t][i].role = m.role)

\* Messages of the main loop: one per token, a bounce expected by its dealer,
\* and each into a buffer that is not being sent.
MessagesExpected == OneCopy /\ BounceExpected /\ BufferFree

\* Rank 0 shuts everybody down, unless time is up, only when every token of
\* every dealer has finished and no token is left in a message or a buffer.
ShutdownMeansDone ==
  pc[0] \in {"left", "gone"} /\ ~timeup =>
    \A t \in Tokens :
      token_obj[t].status = "FINISHED" /\ wire[t] = <<>> /\ got[t] = {}

\* How often the dealer has sent its token to rank r when it has finished.
Visits(t, r) ==
  LET mine == {e \in 0..(num_edges(t[1]) - 1) : EdgeRank(t[1], e) = r}
  IN  Cardinality(mine) * count + (IF start_edge(t) \in mine THEN 1 ELSE 0)

\* A finished token has been bounced by every neighbour of its dealer in every
\* cycle: once more by the edge it started with, whose first bounce is no cycle.
VisitedAll ==
  \A t \in Tokens : token_obj[t].status = "FINISHED" =>
    \A r \in Ranks \ {t[1]} : bounced[t][r] = Visits(t, r)

\* A corrupted message is counted at most once, whichever way integrity is
\* checked: what has been counted is not sent around again.
CountedOnce ==
  \A d \in Dealers :
    integrity_errors[d] <= Cardinality({t \in faults : t[1] = d})

\* With integrity check 2 a single corrupted message does not get lost: it is
\* still going around, it has been counted, or its token finished with it.
CorruptionKept ==
  setup.check = 2 =>
    \A t \in faults : faults = {t} =>
      \/ \E i \in 1..Len(wire[t]) : wire[t][i].bad
      \/ \E m \in got[t] : m.bad
      \/ integrity_errors[t[1]] = 1
      \/ token_obj[t].status = "FINISHED"

\* What the integrity checks report: every corruption at most once, and a single
\* one not never.
IntegrityKept == CountedOnce /\ CorruptionKept

\* Every rank comes to the end of the program.
AllGone == <>(\A r \in Ranks : pc[r] = "gone")
================================================================================
