---------------------------- MODULE UmaExchange ----------------------------
(***************************************************************************)
(* tools/hip_uma_backend.hip: a GPU kernel, exchange, hands its operand to *)
(* a CPU thread, progress, through host memory that both map, and spins    *)
(* until the thread has run the RDMA collective and answered.  The         *)
(* handshake is four words: active (one kernel at a time), request and     *)
(* completed (epochs) and error.  Nothing ever resets error.               *)
(*                                                                         *)
(* The atomics are sequentially consistent here; the fences of the code    *)
(* order the plain copies around them.  The transport is reduced to what   *)
(* RdmaTransport shows of it: while a call runs, its operand is read at    *)
(* any time, so carried collects whatever the input slot holds during it.  *)
(***************************************************************************)
EXTENDS Naturals

CONSTANTS Streams,    \* HIP streams that launch the kernel
          MaxEpoch    \* bound on the kernels launched

ASSUME MaxEpochAssumption == MaxEpoch \in Nat

VARIABLES
    \* the kernels, one at a time on each stream
    kpc,          \* kpc[s]: the step the kernel on s is at, or "idle"
    epoch,        \* epoch[s]: the epoch it took from the counter
    output,       \* output[s]: epochs of the operands in the output, none until it
                  \* is written
    counter,      \* epochs handed out, in device memory
    \* struct Control
    active, request, completed, error,
    \* the arena
    staged,       \* epoch of the operand in the input slot
    reduced,      \* epochs of the operands the result slot is made of
    \* the progress thread
    cpc,          \* its step, or "exited"
    carried,      \* epochs of the operands the current call may have sent
    alive,        \* FALSE after _exit(86)
    \* struct Backend and hip_rdma_backend_close
    ready, stop, has_capture,
    transport,    \* the RDMA context exists
    graphs,       \* the caller still holds graphs with captured kernels
    closing,      \* "no", the step of a close under way, or "closed"
    orderly       \* one kernel at a time and no fault: chosen once, to ask what
                  \* the exchange does when nothing goes wrong

kernelVars == <<kpc, epoch, output, counter>>
controlVars == <<active, request, completed, error>>
arenaVars == <<staged, reduced>>
cpuVars == <<cpc, carried, alive>>
hostVars == <<ready, stop, has_capture, transport, graphs, closing, orderly>>
vars == <<kernelVars, controlVars, arenaVars, cpuVars, hostVars>>

\* hip_rdma_backend_create has succeeded: everything is zero, the thread runs.
Init == /\ kpc = [s \in Streams |-> "idle"]
        /\ epoch = [s \in Streams |-> 0]
        /\ output = [s \in Streams |-> {}]
        /\ counter = 0 /\ active = 0 /\ request = 0 /\ completed = 0 /\ error = 0
        /\ staged = 0 /\ reduced = {0}
        /\ cpc = "top" /\ carried = {} /\ alive = TRUE
        /\ ready = TRUE /\ stop = FALSE /\ has_capture = FALSE
        /\ transport = TRUE /\ graphs = FALSE /\ closing = "no"
        /\ orderly \in BOOLEAN
-----------------------------------------------------------------------------
(***************************************************************************)
(* Launching.                                                              *)
(***************************************************************************)

\* The stream reaches the kernel.
Launch(s) == /\ kpc[s] = "idle" /\ counter < MaxEpoch
             /\ orderly => \A t \in Streams : kpc[t] = "idle"
             /\ kpc' = [kpc EXCEPT ![s] = "enter"]
             /\ output' = [output EXCEPT ![s] = {}]
             /\ UNCHANGED <<epoch, counter, controlVars, arenaVars, cpuVars>>

\* hip_rdma_backend_enqueue outside a capture.
Enqueue(s) == /\ alive /\ ready /\ closing = "no"
              /\ Launch(s)
              /\ UNCHANGED hostVars

\* hip_rdma_backend_enqueue on a capturing stream: nothing runs yet.
Capture == /\ alive /\ ready /\ closing = "no"
           /\ has_capture' = TRUE /\ graphs' = TRUE
           /\ UNCHANGED <<kernelVars, controlVars, arenaVars, cpuVars, ready,
                          stop, transport, closing, orderly>>

\* A graph is replayed: the backend is not asked.
Replay(s) == alive /\ graphs /\ Launch(s) /\ UNCHANGED hostVars

DestroyGraphs == /\ alive /\ graphs /\ graphs' = FALSE
                 /\ UNCHANGED <<kernelVars, controlVars, arenaVars, cpuVars,
                                ready, stop, has_capture, transport, closing,
                                orderly>>
-----------------------------------------------------------------------------
(***************************************************************************)
(* The kernel.                                                             *)
(***************************************************************************)

\* From one step of the kernel to the next.
Goto(s, here, there) == /\ alive /\ kpc[s] = here
                        /\ kpc' = [kpc EXCEPT ![s] = there]

\* Take the active flag, or find another kernel at work.
Enter(s) ==
    /\ Goto(s, "enter", IF active = 0 THEN "stage" ELSE "clash")
    /\ active' = 1
    /\ IF active = 0
         THEN counter' = counter + 1 /\ epoch' = [epoch EXCEPT ![s] = counter + 1]
         ELSE UNCHANGED <<counter, epoch>>
    /\ UNCHANGED <<output, request, completed, error, arenaVars, cpuVars, hostVars>>

\* Seeded fault: the rejected kernel leaves like any other.
Clash_Releases(s) == /\ Goto(s, "clash", "idle")
                     /\ error' = 1 /\ active' = 0
                     /\ UNCHANGED <<epoch, output, counter, request, completed,
                                    arenaVars, cpuVars, hostVars>>

\* The rejected kernel reports and returns at once.
Clash(s) == /\ Goto(s, "clash", "idle")
            /\ error' = 1
            /\ UNCHANGED <<epoch, output, counter, active, request, completed,
                           arenaVars, cpuVars, hostVars>>

Stage(s) == /\ Goto(s, "stage", "publish")
            /\ staged' = epoch[s]
            /\ carried' = IF cpc = "run" THEN carried \union {epoch[s]} ELSE carried
            /\ UNCHANGED <<epoch, output, counter, controlVars, reduced, cpc,
                           alive, hostVars>>

\* Seeded fault: the epoch before is requested.
Publish_Stale(s) == /\ Goto(s, "publish", "spin")
                    /\ request' = epoch[s] - 1
                    /\ UNCHANGED <<epoch, output, counter, active, completed, error,
                                   arenaVars, cpuVars, hostVars>>

Publish(s) == /\ Goto(s, "publish", "spin")
              /\ request' = epoch[s]
              /\ UNCHANGED <<epoch, output, counter, active, completed, error,
                             arenaVars, cpuVars, hostVars>>

\* Seeded fault: the loop does not look at the error word.
SpinError_Ignored(s) == /\ Goto(s, "spin", "look")
                        /\ UNCHANGED <<epoch, output, counter, controlVars,
                                       arenaVars, cpuVars, hostVars>>

\* One turn of the spin loop: the error word, then the completed epoch.
SpinError(s) == /\ Goto(s, "spin", IF error # 0 THEN "fail" ELSE "look")
                /\ UNCHANGED <<epoch, output, counter, controlVars, arenaVars,
                               cpuVars, hostVars>>

SpinCompleted(s) ==
    /\ Goto(s, "look", IF completed = epoch[s] THEN "copy"
                       ELSE IF completed > epoch[s] THEN "fail" ELSE "spin")
    /\ UNCHANGED <<epoch, output, counter, controlVars, arenaVars, cpuVars, hostVars>>

\* "spin<10000000" no longer holds.
SpinOut(s) == /\ ~orderly /\ Goto(s, "spin", "fail")
              /\ UNCHANGED <<epoch, output, counter, controlVars, arenaVars,
                             cpuVars, hostVars>>

\* Seeded fault: the kernel gives up without a word.
GiveUp_Silent(s) == /\ Goto(s, "fail", "leave")
                    /\ UNCHANGED <<epoch, output, counter, controlVars, arenaVars,
                                   cpuVars, hostVars>>

GiveUp(s) == /\ Goto(s, "fail", "leave")
             /\ error' = 2
             /\ UNCHANGED <<epoch, output, counter, active, request, completed,
                            arenaVars, cpuVars, hostVars>>

Copy(s) == /\ Goto(s, "copy", "leave")
           /\ output' = [output EXCEPT ![s] = reduced]
           /\ UNCHANGED <<epoch, counter, controlVars, arenaVars, cpuVars, hostVars>>

Leave(s) == /\ Goto(s, "leave", "idle")
            /\ active' = 0
            /\ UNCHANGED <<epoch, output, counter, request, completed, error,
                           arenaVars, cpuVars, hostVars>>
-----------------------------------------------------------------------------
(***************************************************************************)
(* The progress thread.                                                    *)
(***************************************************************************)

\* fail(): the process is gone.
Exit == /\ alive' = FALSE
        /\ UNCHANGED <<kernelVars, controlVars, arenaVars, cpc, carried, hostVars>>

Top == /\ alive /\ cpc = "top"
       /\ cpc' = IF stop THEN "exited" ELSE "error"
       /\ UNCHANGED <<kernelVars, controlVars, arenaVars, carried, alive, hostVars>>

\* Seeded fault: only the error of a rejected kernel counts.
CheckError_First == /\ alive /\ cpc = "error"
                    /\ IF error = 1
                         THEN Exit
                         ELSE /\ cpc' = "request"
                              /\ UNCHANGED <<kernelVars, controlVars, arenaVars,
                                             carried, alive, hostVars>>

CheckError == /\ alive /\ cpc = "error"
              /\ IF error # 0
                   THEN Exit
                   ELSE /\ cpc' = "request"
                        /\ UNCHANGED <<kernelVars, controlVars, arenaVars,
                                       carried, alive, hostVars>>

\* Load the request: nothing new, an epoch that was skipped, or the next one.
LoadRequest ==
    /\ alive /\ cpc = "request"
    /\ \/ /\ request = completed
          /\ cpc' = "top"
          /\ UNCHANGED <<kernelVars, controlVars, arenaVars, carried, alive, hostVars>>
       \/ /\ request # completed /\ request # completed + 1
          /\ Exit
       \/ /\ request = completed + 1
          /\ cpc' = "run" /\ carried' = {staged}
          /\ UNCHANGED <<kernelVars, controlVars, arenaVars, alive, hostVars>>

\* cpu_rdma_run returns OK: the sum is in the result slot.
RunReturns == /\ alive /\ cpc = "run"
              /\ cpc' = "done" /\ reduced' = carried
              /\ UNCHANGED <<kernelVars, controlVars, staged, carried, alive, hostVars>>

RunFails == alive /\ ~orderly /\ cpc = "run" /\ Exit

\* completed = request, the epoch that was loaded.
Complete == /\ alive /\ cpc = "done"
            /\ cpc' = "top" /\ completed' = completed + 1
            /\ UNCHANGED <<kernelVars, active, request, error, arenaVars, carried,
                           alive, hostVars>>
-----------------------------------------------------------------------------
(***************************************************************************)
(* hip_rdma_backend_close; a failing step returns an error and the close   *)
(* may be called again.                                                    *)
(***************************************************************************)

hostOnly == <<kernelVars, controlVars, arenaVars, cpuVars, has_capture, graphs, orderly>>

\* graphs_destroyed is an assertion of the caller, who tells the truth.
CloseCall(graphs_destroyed) ==
    /\ alive /\ closing = "no"
    /\ graphs_destroyed => ~graphs
    /\ has_capture => graphs_destroyed
    /\ closing' = "sync"
    /\ UNCHANGED <<hostOnly, ready, stop, transport>>

\* Seeded fault: the device is not synchronized.
CloseSync_NoWait == /\ alive /\ closing = "sync"
                    /\ ready' = FALSE /\ stop' = TRUE /\ closing' = "join"
                    /\ UNCHANGED <<hostOnly, transport>>

\* hipDeviceSynchronize: every kernel has returned.
CloseSync == /\ alive /\ closing = "sync"
             /\ \A s \in Streams : kpc[s] = "idle"
             /\ ready' = FALSE /\ stop' = TRUE /\ closing' = "join"
             /\ UNCHANGED <<hostOnly, transport>>

CloseJoin == /\ alive /\ closing = "join" /\ cpc = "exited"
             /\ closing' = "destroy"
             /\ UNCHANGED <<hostOnly, ready, stop, transport>>

\* cpu_rdma_destroy, unless an earlier close did it.
CloseDestroy == /\ alive /\ closing = "destroy"
                /\ transport' = FALSE /\ closing' = "free"
                /\ UNCHANGED <<hostOnly, ready, stop>>

CloseFree == /\ alive /\ closing = "free"
             /\ closing' = "closed"
             /\ UNCHANGED <<hostOnly, ready, stop, transport>>

\* A HIP call or cpu_rdma_destroy fails.
CloseFails == /\ alive /\ ~orderly /\ closing \in {"sync", "destroy", "free"}
              /\ closing = "destroy" => transport
              /\ closing' = "no"
              /\ UNCHANGED <<hostOnly, ready, stop, transport>>
-----------------------------------------------------------------------------
Spin(s) == SpinError(s) \/ SpinCompleted(s)
Kernel(s) == \/ Enter(s) \/ Clash(s) \/ Stage(s) \/ Publish(s) \/ Spin(s)
             \/ GiveUp(s) \/ Copy(s) \/ Leave(s)

Progress == Top \/ CheckError \/ LoadRequest \/ RunReturns \/ Complete

Caller == \/ \E s \in Streams : Enqueue(s) \/ Replay(s)
          \/ Capture \/ DestroyGraphs
          \/ \E g \in BOOLEAN : CloseCall(g)
CloseSteps == CloseSync \/ CloseJoin \/ CloseDestroy \/ CloseFree

Faults == RunFails \/ CloseFails \/ \E s \in Streams : SpinOut(s)

Next == Caller \/ CloseSteps \/ Progress \/ Faults \/ \E s \in Streams : Kernel(s)

\* The GPU keeps running, and the bounded spin loop ends.  That the CPU does
\* not is possible: a driver call of the transport may hang.
Spec == /\ Init /\ [][Next]_vars
        /\ \A s \in Streams : WF_vars(Kernel(s)) /\ SF_vars(SpinOut(s))

\* The CPU keeps running too.
CpuFair == WF_vars(Progress) /\ WF_vars(CloseSteps)
-----------------------------------------------------------------------------
(***************************************************************************)
(* Properties.                                                             *)
(***************************************************************************)

\* The kernels that hold the active flag.
Exchanging == {s \in Streams :
                 kpc[s] \in {"stage", "publish", "spin", "look", "fail", "copy", "leave"}}

\* Every variable has its type.
TypeOK ==
    /\ kpc \in [Streams -> {"idle", "enter", "clash", "stage", "publish", "spin",
                            "look", "fail", "copy", "leave"}]
    /\ epoch \in [Streams -> Nat] /\ counter \in Nat
    /\ output \in [Streams -> SUBSET Nat]
    /\ active \in {0, 1} /\ request \in Nat /\ completed \in Nat /\ error \in {0, 1, 2}
    /\ staged \in Nat /\ reduced \subseteq Nat /\ carried \subseteq Nat
    /\ cpc \in {"top", "error", "request", "run", "done", "exited"}
    /\ alive \in BOOLEAN /\ ready \in BOOLEAN /\ stop \in BOOLEAN
    /\ has_capture \in BOOLEAN /\ graphs \in BOOLEAN /\ transport \in BOOLEAN
    /\ closing \in {"no", "sync", "join", "destroy", "free", "closed"}

\* "A system-scope active flag rejects overlapping kernels"
\* (docs/2026-09-07-hip-uma.md:35): the arena and the handshake words serve
\* one kernel at a time, also after errors and with several streams.
Exclusive == TypeOK /\ \A s, t \in Exchanging : s = t

\* Until an error is raised, the input slot holds the operand of the call that
\* runs for as long as it runs (cpu_rdma_transport.h:47, "stable input slot").
StableUntilError == cpc = "run" /\ error = 0 => carried = {completed + 1}

\* The same without the exception: what the header promises the transport.
StableInputSlot == cpc = "run" => carried = {completed + 1}

\* "Resource teardown synchronizes the GPU, joins the progress thread and
\* destroys the transport before freeing the borrowed arena"
\* (docs/2026-09-07-hip-uma.md:38): once the transport is gone, also when the
\* close that destroyed it failed later, no kernel, graph or thread uses it.
TeardownOrder ==
    /\ closing = "closed" => ~transport
    /\ ~transport => /\ \A s \in Streams : kpc[s] = "idle"
                     /\ ~graphs /\ cpc = "exited"

\* A kernel never waits for ever, even if the CPU thread hangs in a driver
\* call: the loop at hip_uma_backend.hip:60 has a bound (which an orderly
\* behaviour never meets, so that it has no part in this).
KernelReturns ==
    \A s \in Streams : ~orderly /\ kpc[s] # "idle" ~> kpc[s] = "idle" \/ ~alive

\* An exchange that failed ends the worker (hip_uma_backend.hip:86), unless
\* the backend is being closed at that very time.
FailureFatal == CpuFair => (error # 0 ~> ~alive \/ stop)

\* A close that was let in comes to an end: the thread sees stop.
CloseEnds == CpuFair =>
    (closing \notin {"no", "closed"} ~> closing \in {"no", "closed"} \/ ~alive)

\* Nobody waits for ever for somebody who has given up: the three above.
NobodyLeftWaiting == KernelReturns /\ FailureFatal /\ CloseEnds

\* One kernel at a time and no fault: every kernel is answered, whether launched by an
\* eager call or a graph; no epoch is skipped.
Served == CpuFair => \A s \in Streams :
    orderly /\ kpc[s] = "enter" ~> kpc[s] = "idle" /\ output[s] = {epoch[s]}

\* What a stream sees of the exchange.
Call(s) == IF kpc[s] = "idle" THEN "none"
           ELSE IF /\ error # 0
                   /\ kpc[s] \notin {"look", "copy"}
                   /\ output[s] = {}
                THEN "late" ELSE "open"
Answer(s) == IF output[s] = {} THEN "untouched"
             ELSE IF output[s] = {epoch[s]} THEN "sum" ELSE "wrong"

Promise == INSTANCE DeviceCollective WITH
    MayAbandon <- TRUE,
    call <- [s \in Streams |-> Call(s)],
    answer <- [s \in Streams |-> Answer(s)],
    doomed <- error # 0,
    exited <- ~alive

\* The exchange keeps the promise of a back end that may abandon calls: an
\* answer is the right one, and after an error no new call is answered.
ImplementsCollective == Promise!PromiseSpec
=============================================================================
