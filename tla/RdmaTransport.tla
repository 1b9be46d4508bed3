--------------------------- MODULE RdmaTransport ---------------------------
(***************************************************************************)
(* The collective of tools/cpu_rdma_transport.c: every rank writes its     *)
(* operand into every peer's arena with RDMA WRITE WITH IMMEDIATE, waits   *)
(* for its own send completions and for one receive completion per peer,   *)
(* and sums the operands on the CPU.  There is no barrier between rounds:  *)
(* two slots per peer, chosen by the parity of the round, are all that     *)
(* keeps a fast rank from overwriting an operand a slow one has not read.  *)
(*                                                                         *)
(* A reliable connection executes the writes of one queue pair in order,   *)
(* so a pair of ranks is a log of posted immediates, wr, and three         *)
(* cursors into it: landed (executed in the peer's memory), acked (send    *)
(* completions the sender took) and recv_next (receive completions the     *)
(* receiver took; the code's own expected sequence number).  The NIC reads *)
(* the operand when the write is executed, not when it is posted.          *)
(***************************************************************************)
EXTENDS Naturals, Sequences

CONSTANTS Ranks,        \* the NR ranks of the group
          UintMax,      \* UINT32_MAX
          RecvDepth,    \* receives posted per queue pair during setup
          EarlyReduce,  \* build_rdma_early_reduce.py: sum before the sends end
          NoResult      \* nothing was written to the output buffer yet

ASSUME UintMaxAssumption == UintMax \in Nat /\ UintMax >= 2
ASSUME RecvDepthAssumption == RecvDepth \in Nat /\ RecvDepth >= 2
ASSUME EarlyReduceAssumption == EarlyReduce \in BOOLEAN

VARIABLES pc,         \* "idle", "post" or "poll": where cpu_rdma_run is
          poisoned,   \* ranks whose context an error has poisoned for good
          up,         \* ranks whose queue pairs still exist
          sequence,   \* rounds completed
          to_post,    \* peers the posting loop has yet to serve
          sent,       \* peers whose send completion this round has seen
          recv_next,  \* recv_next[r][p]: immediate expected next from p
          recv_mask,  \* recv_mask[r][b]: peers received into slot b
          reduced,    \* ranks that have computed the output of this round
          input,      \* generation of the operand in the input buffer
          memory,     \* memory[r][b][p]: generation in p's part of slot b
          output,     \* output[r][p]: generation of p's operand in the sum
          wr,         \* wr[s][d]: immediates s ever posted to d
          landed,     \* landed[d][s]: writes of s executed at d
          acked       \* acked[s][d]: send completions s took for d

nicVars == <<memory, landed>>
vars == <<pc, poisoned, up, sequence, to_post, sent, recv_next, recv_mask,
          reduced, input, memory, output, wr, landed, acked>>

Slots == {0, 1}
Peers(r) == Ranks \ {r}

\* Unsigned 32-bit increment.
Inc(x) == IF x = UintMax THEN 0 ELSE x + 1

\* Seeded fault: a single receive slot.
SlotOf_Single(seq) == 0

\* The receive slot of a round: seq & 1.
SlotOf(seq) == seq % 2

\* The generation of the operand the caller stages for round seq.  The arena
\* is zeroed by cpu_rdma_create, so generation 0 is the operand nobody wrote.
Generation(seq) == seq + 1

Init == /\ pc = [r \in Ranks |-> "idle"]
        /\ poisoned = {}
        /\ up = Ranks
        /\ sequence = [r \in Ranks |-> 0]
        /\ to_post = [r \in Ranks |-> {}]
        /\ sent = [r \in Ranks |-> {}]
        /\ recv_next = [r \in Ranks |-> [p \in Ranks |-> 0]]
        /\ recv_mask = [r \in Ranks |-> [b \in Slots |-> {}]]
        /\ reduced = {}
        /\ input = [r \in Ranks |-> 0]
        /\ memory = [r \in Ranks |-> [b \in Slots |-> [p \in Ranks |-> 0]]]
        /\ output = [r \in Ranks |-> NoResult]
        /\ wr = [r \in Ranks |-> [p \in Ranks |-> <<>>]]
        /\ landed = [r \in Ranks |-> [p \in Ranks |-> 0]]
        /\ acked = [r \in Ranks |-> [p \in Ranks |-> 0]]
-----------------------------------------------------------------------------
(***************************************************************************)
(* cpu_rdma_run and collective.  A call on a poisoned context returns      *)
(* POISONED and changes nothing, so it is not a step.                      *)
(***************************************************************************)

\* "s->sequence >= UINT32_MAX - 1u": the last sequence number is not used.
Exhausted(r) == sequence[r] >= UintMax - 1

\* The caller stages a new operand and calls cpu_rdma_run.
Run(r) == /\ pc[r] = "idle" /\ r \notin poisoned /\ r \in up
          /\ ~Exhausted(r)
          /\ pc' = [pc EXCEPT ![r] = "post"]
          /\ input' = [input EXCEPT ![r] = Generation(sequence[r])]
          /\ to_post' = [to_post EXCEPT ![r] = Peers(r)]
          /\ sent' = [sent EXCEPT ![r] = {}]
          /\ reduced' = reduced \ {r}
          /\ UNCHANGED <<poisoned, up, sequence, recv_next, recv_mask, output,
                         wr, acked, nicVars>>

\* cpu_rdma_run refuses to start: the sequence numbers are used up (or the
\* calling thread's floating-point state is wrong); the context is poisoned.
Refuse(r) == /\ pc[r] = "idle" /\ r \notin poisoned /\ r \in up
             /\ poisoned' = poisoned \union {r}
             /\ UNCHANGED <<pc, up, sequence, to_post, sent, recv_next, recv_mask,
                            reduced, input, output, wr, acked, nicVars>>

\* Post one RDMA write carrying the round's number as immediate data.  The
\* peers are served in any order: the order of cpu_rdma_transport.c and the
\* cyclic one of build_rdma_send_order.py are two of them.
PostSend(r, d) ==
    /\ pc[r] = "post" /\ d \in to_post[r]
    /\ wr' = [wr EXCEPT ![r][d] = Append(@, sequence[r])]
    /\ to_post' = [to_post EXCEPT ![r] = @ \ {d}]
    /\ pc' = [pc EXCEPT ![r] = IF to_post[r] = {d} THEN "poll" ELSE "post"]
    /\ UNCHANGED <<poisoned, up, sequence, sent, recv_next, recv_mask, reduced,
                   input, output, acked, nicVars>>

\* The completion loop runs until everything was sent and received.  In the
\* original order the reduction follows the loop; once it has been done no
\* completion is polled.
Polling(r) == pc[r] = "poll" /\ (EarlyReduce \/ r \notin reduced)

\* Seeded fault: the error path leaves the call in a state of its own.
Fail_Stuck(r) == /\ pc' = [pc EXCEPT ![r] = "failed"]
                 /\ poisoned' = poisoned \union {r}

\* collective() returns -1: cpu_rdma_run poisons the context and returns.
Fail(r) == /\ pc' = [pc EXCEPT ![r] = "idle"]
           /\ poisoned' = poisoned \union {r}

\* A send completion for d: a second one in the same round is an error.
SendCompletion(r, d) ==
    /\ Polling(r) /\ d \in Peers(r)
    /\ acked[r][d] < landed[d][r]
    /\ acked' = [acked EXCEPT ![r][d] = @ + 1]
    /\ IF d \in sent[r]
         THEN Fail(r) /\ UNCHANGED sent
         ELSE /\ sent' = [sent EXCEPT ![r] = @ \union {d}]
              /\ UNCHANGED <<pc, poisoned>>
    /\ UNCHANGED <<up, sequence, to_post, recv_next, recv_mask, reduced, input,
                   output, wr, nicVars>>

\* A receive completion of p waits in the completion queue of r.
Received(r, p) == p \in Peers(r) /\ recv_next[r][p] < landed[r][p]

\* The immediate that the completion carries.
Got(r, p) == wr[p][r][recv_next[r][p] + 1]

\* Seeded fault: the window admits the current round only.
InWindow_NoNext(r, p, got) == /\ got = recv_next[r][p]
                              /\ got = sequence[r]
                              /\ p \notin recv_mask[r][SlotOf(got)]

\* The checks of the completion loop on an immediate.
InWindow(r, p, got) == /\ got = recv_next[r][p]
                       /\ got >= sequence[r]
                       /\ got <= Inc(sequence[r])
                       /\ p \notin recv_mask[r][SlotOf(got)]

\* A receive completion of p: accepted, and its receive posted again, or an
\* error.
RecvCompletion(r, p) ==
    /\ Polling(r) /\ Received(r, p)
    /\ LET got == Got(r, p)
       IN  IF InWindow(r, p, got)
             THEN /\ recv_next' = [recv_next EXCEPT ![r][p] = Inc(@)]
                  /\ recv_mask' = [recv_mask EXCEPT ![r][SlotOf(got)] = @ \union {p}]
                  /\ UNCHANGED <<pc, poisoned>>
             ELSE Fail(r) /\ UNCHANGED <<recv_next, recv_mask>>
    /\ UNCHANGED <<up, sequence, to_post, sent, reduced, input, output, wr,
                   acked, nicVars>>

\* Seeded fault: some operand is enough.
AllReceived_Any(r) == recv_mask[r][SlotOf(sequence[r])] # {}

AllReceived(r) == recv_mask[r][SlotOf(sequence[r])] = Peers(r)

\* Seeded fault: the call does not wait for its send completions.
AllSent_Unawaited(r) == sent[r] \subseteq Peers(r)

AllSent(r) == sent[r] = Peers(r)

\* Seeded fault: the operands are read from the other slot.
Reduce_OtherSlot(r) ==
    /\ pc[r] = "poll" /\ r \notin reduced
    /\ AllReceived(r)
    /\ EarlyReduce \/ AllSent(r)
    /\ output' = [output EXCEPT ![r] =
                    [p \in Ranks |-> IF p = r THEN input[r]
                                     ELSE memory[r][SlotOf(sequence[r] + 1)][p]]]
    /\ reduced' = reduced \union {r}
    /\ UNCHANGED <<pc, poisoned, up, sequence, to_post, sent, recv_next,
                   recv_mask, input, wr, acked, nicVars>>

\* Sum the own operand and the slot's operands into the output buffer.
Reduce(r) ==
    /\ pc[r] = "poll" /\ r \notin reduced
    /\ AllReceived(r)
    /\ EarlyReduce \/ AllSent(r)
    /\ output' = [output EXCEPT ![r] =
                    [p \in Ranks |-> IF p = r THEN input[r]
                                     ELSE memory[r][SlotOf(sequence[r])][p]]]
    /\ reduced' = reduced \union {r}
    /\ UNCHANGED <<pc, poisoned, up, sequence, to_post, sent, recv_next,
                   recv_mask, input, wr, acked, nicVars>>

\* The end of collective(): the slot is free, the round is over.
RoundOver(r) ==
    /\ pc[r] = "poll" /\ r \in reduced /\ AllSent(r)
    /\ pc' = [pc EXCEPT ![r] = "idle"]
    /\ recv_mask' = [recv_mask EXCEPT ![r][SlotOf(sequence[r])] = {}]
    /\ sequence' = [sequence EXCEPT ![r] = Inc(@)]
    /\ UNCHANGED <<up, to_post, sent, recv_next, reduced, input, output, wr,
                   acked, nicVars>>

Return(r) == RoundOver(r) /\ UNCHANGED poisoned

\* collective() succeeded but the deadline passed: TIMEOUT, poisoned.
ReturnExpired(r) == RoundOver(r) /\ poisoned' = poisoned \union {r}

\* ibv_post_send fails, part of the peers served.
PostFails(r) ==
    /\ pc[r] = "post" /\ Fail(r)
    /\ UNCHANGED <<up, sequence, to_post, sent, recv_next, recv_mask, reduced,
                   input, output, wr, acked, nicVars>>

\* Seeded fault: the loop has no deadline, only errors of a lost peer end it.
PollFails_NoDeadline(r) ==
    /\ Polling(r) /\ Peers(r) \ up # {} /\ Fail(r)
    /\ UNCHANGED <<up, sequence, to_post, sent, recv_next, recv_mask, reduced,
                   input, output, wr, acked, nicVars>>

\* The loop gives up: the deadline, a failed poll, an error completion (a
\* lost link, a peer whose queue pair is gone) or a failed post_receive.
PollFails(r) ==
    /\ Polling(r) /\ Fail(r)
    /\ UNCHANGED <<up, sequence, to_post, sent, recv_next, recv_mask, reduced,
                   input, output, wr, acked, nicVars>>
-----------------------------------------------------------------------------
(***************************************************************************)
(* The fabric and the end of a rank.                                       *)
(***************************************************************************)

\* Seeded fault: a consumed receive is not posted again.
Credits_NoRepost(d, s) == RecvDepth - landed[d][s]

\* Receives that d has posted for s and no write has consumed.
Credits(d, s) == RecvDepth + recv_next[d][s] - landed[d][s]

\* The NIC of d executes the next write of s: it takes a posted receive and
\* puts the operand, as it is in the input buffer of s at that time, into
\* the slot of the round.
Land(s, d) ==
    /\ s \in Peers(d) /\ s \in up /\ d \in up
    /\ landed[d][s] < Len(wr[s][d])
    /\ Credits(d, s) > 0
    /\ landed' = [landed EXCEPT ![d][s] = @ + 1]
    /\ memory' = [memory EXCEPT ![d][SlotOf(wr[s][d][landed[d][s] + 1])][s] = input[s]]
    /\ UNCHANGED <<pc, poisoned, up, sequence, to_post, sent, recv_next, recv_mask,
                   reduced, input, output, wr, acked>>

\* The context is destroyed between calls, or its process exits: its queue
\* pairs are gone, and what was in flight on them with them.
Close(r) ==
    /\ pc[r] = "idle" /\ r \in up
    /\ up' = up \ {r}
    /\ poisoned' = poisoned \union {r}
    /\ UNCHANGED <<pc, sequence, to_post, sent, recv_next, recv_mask, reduced,
                   input, output, wr, acked, nicVars>>

\* What the CPU of rank r does when nothing goes wrong.
Work(r) == \/ Run(r) \/ Reduce(r) \/ Return(r)
           \/ \E p \in Ranks : \/ PostSend(r, p)
                               \/ SendCompletion(r, p)
                               \/ RecvCompletion(r, p)

Fault(r) == Refuse(r) \/ PostFails(r) \/ PollFails(r) \/ ReturnExpired(r) \/ Close(r)

Fabric == \E s, d \in Ranks : Land(s, d)

HealthyNext == Fabric \/ \E r \in Ranks : Work(r)
Next == HealthyNext \/ \E r \in Ranks : Fault(r)

Spec == Init /\ [][Next]_vars
-----------------------------------------------------------------------------
(***************************************************************************)
(* Properties.                                                             *)
(***************************************************************************)

\* What the CPUs and the arenas hold: masks of peers, counters, generations.
StateTypeOK ==
    /\ pc \in [Ranks -> {"idle", "post", "poll"}]
    /\ poisoned \subseteq Ranks
    /\ up \subseteq Ranks
    /\ reduced \subseteq Ranks
    /\ sequence \in [Ranks -> Nat]
    /\ to_post \in [Ranks -> SUBSET Ranks]
    /\ sent \in [Ranks -> SUBSET Ranks]
    /\ recv_next \in [Ranks -> [Ranks -> Nat]]
    /\ recv_mask \in [Ranks -> [Slots -> SUBSET Ranks]]
    /\ input \in [Ranks -> Nat]
    /\ memory \in [Ranks -> [Slots -> [Ranks -> Nat]]]
    /\ output \in [Ranks -> [Ranks -> Nat] \union {NoResult}]
    /\ landed \in [Ranks -> [Ranks -> Nat]]
    /\ acked \in [Ranks -> [Ranks -> Nat]]

\* The logs of posted writes.
LogTypeOK == wr \in [Ranks -> [Ranks -> Seq(Nat)]]

\* Every variable has its type: an error leaves a call, never a stuck pc, and
\* no cursor goes below zero.
TypeOK == StateTypeOK /\ LogTypeOK

\* "Two slots suffice" (cpu_rdma_transport.c:290): an operand that has landed
\* stays in its slot, whole and unreplaced, until its receiver has summed it,
\* however far the sender runs ahead and whoever fails meanwhile.
OperandIntact ==
    \A d \in Ranks : \A s \in Peers(d) :
        \A k \in 1..landed[d][s] :
            wr[s][d][k] >= sequence[d] =>
                memory[d][SlotOf(wr[s][d][k])][s] = Generation(wr[s][d][k])

\* "All three send completions precede return, permitting input reuse
\* afterward" (cpu_rdma_transport.h:62): a write still to be executed finds in
\* the input buffer the operand it was posted for.
InputHeld ==
    \A s \in Ranks : \A d \in Peers(s) :
        \A k \in (landed[d][s] + 1)..Len(wr[s][d]) :
            input[s] = Generation(wr[s][d][k])

\* The checks of the completion loop never turn a correct peer into a protocol
\* error: whatever the schedule, every receive completion that waits while the
\* loop polls has the expected number, in the window, on a free slot.
NoFalseAlarm ==
    \A r, p \in Ranks :
        pc[r] = "poll" /\ Received(r, p) => InWindow(r, p, Got(r, p))

\* The receives posted in setup and by post_receive never run out (no RNR
\* retry), and no send completion of an old round is ever left behind.
QueuesBounded ==
    \A r \in Ranks : \A p \in Peers(r) :
        /\ landed[r][p] < Len(wr[p][r]) => Credits(r, p) > 0
        /\ pc[r] = "idle" /\ r \notin poisoned => acked[r][p] = Len(wr[r][p])

\* A rank completes a round only after all ranks entered it; so no rank is
\* ever more than one round ahead of another, even of one that has failed.
Lockstep == \A r, p \in Ranks : sequence[r] <= input[p] /\ sequence[p] <= input[p]

\* What the caller of rank r sees: where it is, and the answer it holds.
Phase(r) == IF r \in poisoned THEN "stopped"
            ELSE IF pc[r] = "idle" THEN "idle" ELSE "waiting"
Answer(r) == IF r \in poisoned \/ pc[r] # "idle" THEN NoResult ELSE output[r]

Promise == INSTANCE AllReduce WITH
    contributed <- input,
    phase <- [r \in Ranks |-> Phase(r)],
    result <- [r \in Ranks |-> Answer(r)]

\* The transport implements the abstract all-reduce: in particular a call
\* that returns OK delivers the sum of the operands of its own round.
ImplementsAllReduce == Promise!AbsSpec
=============================================================================
