--------------------------- MODULE DescriptorPool ---------------------------
(***************************************************************************)
(* tools/hip_rdma_backend.cpp: each all-reduce is three operations on the  *)
(* caller's stream: a copy of the operand into the descriptor's staging    *)
(* memory, a host callback that runs the RDMA collective through the one   *)
(* arena, and a copy of the sum to the output.  A first quarter of the     *)
(* descriptors serves eager calls and is reused when the event behind the  *)
(* last copy has completed; the others are given to captured calls for     *)
(* good.  Whatever goes wrong ends the process: tools/hip_rdma_backend.py  *)
(* calls _fail_stop for every error that the C functions return.           *)
(*                                                                         *)
(* An operand is the number of its call.  A graph is one captured call and *)
(* is named by its descriptor.                                             *)
(***************************************************************************)
EXTENDS Naturals, Sequences, FiniteSetsExt

CONSTANTS Streams,
          Count,      \* descriptors, params "slots"
          MaxCalls,   \* bound on the calls that reach a stream
          MaxWork     \* bound on calls and captures together: many calls, or
                      \* so many captures that their descriptors run out

ASSUME CountAssumption == Count \in Nat /\ Count >= 4
ASSUME BoundAssumption == MaxCalls \in Nat

VARIABLES
    \* the streams
    queue,        \* queue[s]: calls on s that have not returned, in order
    stage,        \* stage[s]: where the first of them is
    output,       \* output[s]: what the last copy on s wrote, or 0
    calls,        \* calls made so far
    \* struct Descriptor and the arena
    slotIn, slotOut, arenaIn, arenaOut,
    active,       \* the CAS flag of the callback
    \* struct Backend
    captured,     \* descriptors given to graphs; has_capture if there are any
    next_eager, next_capture,
    ready,
    transport,    \* the RDMA context exists
    closing,      \* "no", the step of a close under way, or "closed"
    \* the caller and the process
    graphs,       \* graphs that still exist
    fatal         \* "no", or why the process has called _exit(86)

streamVars == <<queue, stage, output, calls>>
dataVars == <<slotIn, slotOut, arenaIn, arenaOut, active>>
cursorVars == <<captured, next_eager, next_capture>>
lifeVars == <<ready, transport, closing>>
poolVars == <<streamVars, dataVars, cursorVars, lifeVars, graphs, fatal>>

Descriptors == 0..Count - 1
EagerCount == Count \div 4
Eager == 0..EagerCount - 1

\* hip_rdma_backend_create has succeeded.
PoolInit ==
    /\ queue = [s \in Streams |-> <<>>]
    /\ stage = [s \in Streams |-> "idle"]
    /\ output = [s \in Streams |-> 0] /\ calls = 0
    /\ slotIn = [d \in Descriptors |-> 0] /\ slotOut = [d \in Descriptors |-> 0]
    /\ arenaIn = 0 /\ arenaOut = 0 /\ active = FALSE
    /\ captured = {} /\ next_eager = 0 /\ next_capture = 0
    /\ ready = TRUE /\ transport = TRUE /\ closing = "no"
    /\ graphs = {} /\ fatal = "no"
-----------------------------------------------------------------------------
Alive == fatal = "no"

\* The descriptors that the calls on s hold.
Held(s) == {queue[s][k].desc : k \in DOMAIN queue[s]}

\* The event of d has not completed: its call has not returned.
Pending(d) == \E s \in Streams : d \in Held(s)

Die(why) == /\ fatal' = why
            /\ UNCHANGED <<streamVars, dataVars, cursorVars, lifeVars, graphs>>

\* A call of descriptor d joins the end of the stream.
Push(s, d) == /\ calls' = calls + 1
              /\ queue' = [queue EXCEPT ![s] = Append(@, [desc |-> d, id |-> calls + 1])]
              /\ UNCHANGED <<stage, output, dataVars>>

Open == Alive /\ ready /\ closing = "no"

\* The bounds of the model.
More == calls + Cardinality(captured) < MaxWork
MoreCalls == More /\ calls < MaxCalls

\* Seeded fault: the event is not asked.
FreeEager_Unasked == Eager

\* The offsets at which the scan from the cursor finds a usable descriptor.
FreeEager == {i \in Eager : ~Pending((next_eager + i) % EagerCount)}
CaptureCount == Count - EagerCount

FreeCapture == {i \in 0..CaptureCount - 1 :
                  EagerCount + ((next_capture + i) % CaptureCount) \notin captured}

TakeEager(s, d) == /\ Push(s, d)
                   /\ next_eager' = (d + 1) % EagerCount
                   /\ UNCHANGED <<captured, next_capture, lifeVars, graphs, fatal>>

\* hip_rdma_backend_enqueue outside a capture.
Enqueue(s) ==
    /\ Open /\ MoreCalls
    /\ IF FreeEager # {} THEN TakeEager(s, (next_eager + Min(FreeEager)) % EagerCount)
                         ELSE Die("eager exhausted")

\* hip_rdma_backend_enqueue on a capturing stream: nothing runs yet.
Capture ==
    /\ Open /\ More
    /\ IF FreeCapture = {} THEN Die("capture exhausted") ELSE
       LET i == (next_capture + Min(FreeCapture)) % CaptureCount IN
         /\ captured' = captured \union {EagerCount + i}
         /\ graphs' = graphs \union {EagerCount + i}
         /\ next_capture' = (i + 1) % CaptureCount
         /\ UNCHANGED <<streamVars, dataVars, next_eager, lifeVars, fatal>>

\* A graph is replayed.  "Caller must serialize collective order and graph
\* replays" (hip_rdma_backend.cpp:3): not while it runs on another stream.
Replay(s, d) == /\ Alive /\ d \in graphs /\ MoreCalls
                /\ \A t \in Streams \ {s} : d \notin Held(t)
                /\ Push(s, d)
                /\ UNCHANGED <<cursorVars, lifeVars, graphs, fatal>>

\* The caller drops a graph that is not running.
DestroyGraph(d) == /\ Alive /\ d \in graphs /\ ~Pending(d)
                   /\ graphs' = graphs \ {d}
                   /\ UNCHANGED <<streamVars, dataVars, cursorVars, lifeVars, fatal>>
-----------------------------------------------------------------------------
(***************************************************************************)
(* The operations of the first call of a stream.                           *)
(***************************************************************************)

Desc(s) == Head(queue[s]).desc

Advance(s, here, there) == /\ Alive /\ queue[s] # <<>> /\ stage[s] = here
                           /\ stage' = [stage EXCEPT ![s] = there]
                           /\ UNCHANGED <<calls, cursorVars, lifeVars, graphs, fatal>>

\* hipMemcpyAsync of the operand into the descriptor.
CopyIn(s) == /\ Advance(s, "idle", "staged")
             /\ slotIn' = [slotIn EXCEPT ![Desc(s)] = Head(queue[s]).id]
             /\ output' = [output EXCEPT ![s] = 0]
             /\ UNCHANGED <<queue, slotOut, arenaIn, arenaOut, active>>

\* callback: take the flag, and the operand into the arena.
CallbackEnter(s) ==
    /\ ~active
    /\ Advance(s, "staged", "running")
    /\ active' = TRUE /\ arenaIn' = slotIn[Desc(s)]
    /\ UNCHANGED <<queue, output, slotIn, slotOut, arenaOut>>

\* callback: another one is at work.
CallbackClash(s) == /\ Alive /\ queue[s] # <<>> /\ stage[s] = "staged" /\ active
                    /\ Die("clash")

\* cpu_rdma_run succeeds: the sum is in the arena.
RunReturns(s) == /\ Advance(s, "running", "reduced")
                 /\ arenaOut' = arenaIn
                 /\ UNCHANGED <<queue, output, slotIn, slotOut, arenaIn, active>>

\* Seeded fault: the callback returns to the stream after an error.
RunFails_Ignored(s) == /\ Advance(s, "running", "reduced")
                       /\ UNCHANGED <<queue, output, dataVars>>

RunFails(s) == /\ Alive /\ stage[s] = "running"
               /\ Die("transport")

\* callback: the sum into the descriptor, and the flag back.
CallbackLeave(s) == /\ Advance(s, "reduced", "answered")
                    /\ slotOut' = [slotOut EXCEPT ![Desc(s)] = arenaOut]
                    /\ active' = FALSE
                    /\ UNCHANGED <<queue, output, slotIn, arenaIn, arenaOut>>

\* hipMemcpyAsync of the sum to the output.
CopyOut(s) == /\ Advance(s, "answered", "landed")
              /\ output' = [output EXCEPT ![s] = slotOut[Desc(s)]]
              /\ UNCHANGED <<queue, dataVars>>

\* The event of an eager call completes; the stream goes on.
Retire(s) == /\ Advance(s, "landed", "idle")
             /\ queue' = [queue EXCEPT ![s] = Tail(@)]
             /\ UNCHANGED <<output, dataVars>>

\* A HIP call fails: every path of the code ends in a _fail_stop.
HipFails == Alive /\ closing # "closed" /\ Die("hip")
-----------------------------------------------------------------------------
(***************************************************************************)
(* hip_rdma_backend_close, called by close_after_graphs_destroyed.         *)
(***************************************************************************)

CloseStep(here, there) == /\ Alive /\ closing = here
                          /\ closing' = there
                          /\ UNCHANGED <<streamVars, dataVars, cursorVars, graphs, fatal>>

\* The caller vouches for its graphs.
CloseCall == /\ graphs = {}
             /\ CloseStep("no", "sync")
             /\ UNCHANGED <<ready, transport>>

\* hipDeviceSynchronize.
CloseSync == /\ \A s \in Streams : queue[s] = <<>>
             /\ CloseStep("sync", "destroy")
             /\ ready' = FALSE /\ UNCHANGED transport

CloseDestroy == /\ CloseStep("destroy", "free")
                /\ transport' = FALSE /\ UNCHANGED ready

\* The descriptors, the staging memory and the arena are freed.
CloseFree == CloseStep("free", "closed") /\ UNCHANGED <<ready, transport>>

CallStep(s) == \/ CopyIn(s) \/ CallbackEnter(s) \/ CallbackClash(s) \/ RunReturns(s)
               \/ CallbackLeave(s) \/ CopyOut(s) \/ Retire(s)

Close == CloseSync \/ CloseDestroy \/ CloseFree

PoolNext ==
    \/ \E s \in Streams : \/ Enqueue(s) \/ CallStep(s) \/ RunFails(s)
                          \/ \E d \in graphs : Replay(s, d)
    \/ Capture \/ \E d \in graphs : DestroyGraph(d)
    \/ CloseCall \/ Close \/ HipFails

PoolSpec == PoolInit /\ [][PoolNext]_poolVars
-----------------------------------------------------------------------------
\* Every variable has its type.
PoolTypeOK ==
    /\ queue \in [Streams -> Seq([desc : Descriptors, id : 1..MaxCalls])]
    /\ stage \in [Streams -> {"idle", "staged", "running", "reduced", "answered", "landed"}]
    /\ output \in [Streams -> 0..MaxCalls] /\ calls \in 0..MaxCalls
    /\ slotIn \in [Descriptors -> 0..MaxCalls] /\ slotOut \in [Descriptors -> 0..MaxCalls]
    /\ arenaIn \in 0..MaxCalls /\ arenaOut \in 0..MaxCalls /\ active \in BOOLEAN
    /\ captured \subseteq Descriptors \ Eager /\ graphs \subseteq captured
    /\ next_eager \in Eager /\ next_capture \in 0..CaptureCount - 1
    /\ ready \in BOOLEAN /\ transport \in BOOLEAN
    /\ closing \in {"no", "sync", "destroy", "free", "closed"}
    /\ fatal \in {"no", "eager exhausted", "capture exhausted", "clash", "transport", "hip"}

\* "Events are used only to reclaim eager descriptors; captured descriptors
\* are never reused" (hip_rdma_backend.cpp:121): a descriptor serves one stream
\* at a time, and only replays of its own graph stand behind each other; and
\* "preallocated descriptor pool exhausted" is said, and the worker ended, only
\* when each descriptor of its part is taken: the scan misses none.
DescriptorOwned ==
    /\ PoolTypeOK
    /\ \A s, t \in Streams : \A j \in DOMAIN queue[s], k \in DOMAIN queue[t] :
           queue[s][j].desc = queue[t][k].desc /\ <<s, j>> # <<t, k>> =>
               s = t /\ queue[s][j].desc \in graphs
    /\ fatal = "eager exhausted" => \A d \in Eager : Pending(d)
    /\ fatal = "capture exhausted" => captured = Descriptors \ Eager

\* What a stream sees of its first call.
Answer(s) == IF output[s] = 0 THEN "untouched"
             ELSE IF queue[s] = <<>> \/ stage[s] = "idle" \/ output[s] = Head(queue[s]).id
                  THEN "sum" ELSE "wrong"

Promise == INSTANCE DeviceCollective WITH
    MayAbandon <- FALSE,
    call <- [s \in Streams |-> IF stage[s] = "idle" THEN "none" ELSE "open"],
    answer <- [s \in Streams |-> Answer(s)],
    doomed <- FALSE,
    exited <- ~Alive

\* The pool keeps the promise of a back end that abandons no call: the stream
\* goes on with the sum of the operand of this call, or not at all.
ImplementsCollective == Promise!PromiseSpec
=============================================================================
