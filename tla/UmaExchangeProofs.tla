------------------------- MODULE UmaExchangeProofs -------------------------
(***************************************************************************)
(* Proofs about UmaExchange, for any number of streams and of epochs.      *)
(*                                                                         *)
(* A kernel that has looked at the error word when it was zero works on    *)
(* the one epoch in flight (InFlight), which is the last one handed out:   *)
(* so what it copies is the sum of its own operand.  After an error no     *)
(* kernel gets as far as looking for an answer.                            *)
(***************************************************************************)
EXTENDS UmaExchange, TLAPS

\* The active flag keeps the kernels apart; the one that has it has the last epoch.
OneActive == /\ \A s, t \in Exchanging : s = t
             /\ \A s \in Exchanging : active = 1 /\ epoch[s] = counter

\* The last epoch is requested, and perhaps answered.
InFlight == /\ request = counter /\ staged = counter
            /\ completed = counter \/ completed + 1 = counter
            /\ cpc \in {"run", "done"} => completed + 1 = counter
            /\ cpc = "run" => carried = {counter}
            /\ cpc = "done" => reduced = {counter}
            /\ completed = counter => reduced = {counter}

AtRest == cpc \notin {"run", "done"} /\ request = completed

\* How far the epoch is where the kernel is.
Agrees(s) ==
    /\ error = 0 /\ kpc[s] \in {"stage", "publish"} => AtRest /\ completed + 1 = counter
    /\ error = 0 /\ kpc[s] = "publish" => staged = counter
    /\ error = 0 /\ kpc[s] \in {"spin", "fail", "leave"} => InFlight
    /\ kpc[s] \in {"look", "copy"} => InFlight
    /\ kpc[s] = "copy" \/ (error = 0 /\ kpc[s] = "leave") => completed = counter

Handshake == /\ error = 0 /\ Exchanging = {} => AtRest /\ completed = counter
             /\ \A s \in Streams : Agrees(s)

\* What is in an output, and what a kernel on its way out has done.
Output(s) == /\ output[s] \in {{}, {epoch[s]}}
             /\ kpc[s] \notin {"idle", "leave"} => output[s] = {}
             /\ kpc[s] = "leave" => output[s] = {epoch[s]} \/ error # 0
Outputs == \A s \in Streams : Output(s)

\* The order of a close.
Teardown ==
    /\ graphs => has_capture
    /\ closing # "no" => ~graphs
    /\ ~ready => ~graphs /\ \A s \in Streams : kpc[s] = "idle"
    /\ closing \in {"join", "destroy", "free", "closed"} => ~ready
    /\ closing \in {"destroy", "free", "closed"} => cpc = "exited"
    /\ closing \in {"free", "closed"} => ~transport
    /\ ~transport => ~ready /\ cpc = "exited"

IInv == TypeOK /\ OneActive /\ Handshake /\ Outputs /\ Teardown
-----------------------------------------------------------------------------
(* The caller, and a close.                                                *)

\* What is as it was, variable by variable.
LEMMA SameKernels ==
    ASSUME UNCHANGED kernelVars
    PROVE  kpc' = kpc /\ epoch' = epoch /\ output' = output /\ counter' = counter
BY DEF kernelVars

LEMMA SameControl ==
    ASSUME UNCHANGED controlVars
    PROVE  active' = active /\ request' = request /\ completed' = completed /\ error' = error
BY DEF controlVars

LEMMA SameCpu ==
    ASSUME UNCHANGED <<arenaVars, cpuVars>>
    PROVE  /\ staged' = staged /\ reduced' = reduced
           /\ cpc' = cpc /\ carried' = carried /\ alive' = alive
BY DEF arenaVars, cpuVars

LEMMA SameHost ==
    ASSUME UNCHANGED hostVars
    PROVE  /\ ready' = ready /\ stop' = stop /\ has_capture' = has_capture
           /\ transport' = transport /\ graphs' = graphs /\ closing' = closing
           /\ orderly' = orderly
BY DEF hostVars

\* A step of the host that leaves the exchange alone keeps all but the order of
\* the close.
LEMMA HostStep ==
    ASSUME IInv, UNCHANGED <<kernelVars, controlVars, arenaVars, cpuVars>>,
           ready' \in BOOLEAN, stop' \in BOOLEAN, has_capture' \in BOOLEAN, graphs' \in BOOLEAN,
           transport' \in BOOLEAN,
           closing' \in {"no", "sync", "join", "destroy", "free", "closed"},
           Teardown'
    PROVE  IInv'
<1>1. /\ kpc' = kpc /\ epoch' = epoch /\ output' = output /\ counter' = counter
      /\ active' = active /\ request' = request /\ completed' = completed /\ error' = error
      /\ staged' = staged /\ reduced' = reduced
      /\ cpc' = cpc /\ carried' = carried /\ alive' = alive
      BY SameKernels, SameControl, SameCpu
<1>2. TypeOK' BY <1>1 DEF IInv, TypeOK
<1>3. OneActive' BY <1>1 DEF IInv, OneActive, Exchanging
<1>4. Handshake' BY <1>1 DEF IInv, Handshake, Agrees, Exchanging, AtRest, InFlight
<1>5. Outputs' BY <1>1 DEF IInv, Outputs, Output
<1> QED BY <1>2, <1>3, <1>4, <1>5 DEF IInv

LEMMA CallerSteps ==
    ASSUME IInv, Capture \/ DestroyGraphs \/ (\E g \in BOOLEAN : CloseCall(g))
                 \/ CloseSteps \/ CloseFails
    PROVE  IInv'
<1>1. UNCHANGED <<kernelVars, controlVars, arenaVars, cpuVars>>
      BY DEF Capture, DestroyGraphs, CloseCall, CloseSteps, CloseSync, CloseJoin, CloseDestroy,
         CloseFree, CloseFails, hostOnly
<1>2. kpc' = kpc /\ cpc' = cpc BY <1>1, SameKernels, SameCpu
<1>3. TypeOK /\ Teardown BY DEF IInv
<1>4. CASE Capture
  <2>1. /\ ready /\ closing = "no" /\ has_capture' = TRUE /\ graphs' = TRUE /\ ready' = ready
        /\ stop' = stop /\ transport' = transport /\ closing' = closing
        BY <1>4 DEF Capture
  <2>2. Teardown' BY <1>2, <1>3, <2>1 DEF Teardown
  <2> QED BY <1>1, <1>3, <2>1, <2>2, HostStep DEF TypeOK
<1>5. CASE DestroyGraphs
  <2>1. /\ graphs' = FALSE /\ ready' = ready /\ has_capture' = has_capture
        /\ stop' = stop /\ transport' = transport /\ closing' = closing
        BY <1>5 DEF DestroyGraphs
  <2>2. Teardown' BY <1>2, <1>3, <2>1 DEF Teardown
  <2> QED BY <1>1, <1>3, <2>1, <2>2, HostStep DEF TypeOK
<1>6. CASE (\E g \in BOOLEAN : CloseCall(g)) \/ CloseSteps \/ CloseFails
  <2>1. has_capture' = has_capture /\ graphs' = graphs
        BY <1>6 DEF CloseCall, CloseSteps, CloseSync, CloseJoin, CloseDestroy, CloseFree,
           CloseFails, hostOnly
  <2>2. CASE \E g \in BOOLEAN : CloseCall(g)
    <3>1. /\ ready' = ready /\ stop' = stop /\ transport' = transport
          /\ closing = "no" /\ closing' = "sync" /\ (has_capture => ~graphs)
          BY <2>2 DEF CloseCall
    <3>2. Teardown' BY <1>2, <1>3, <2>1, <3>1 DEF Teardown
    <3> QED BY <1>1, <1>3, <2>1, <3>1, <3>2, HostStep DEF TypeOK
  <2>3. CASE CloseSync
    <3>1. /\ ready' = FALSE /\ stop' = TRUE /\ transport' = transport
          /\ closing = "sync" /\ closing' = "join" /\ \A s \in Streams : kpc[s] = "idle"
          BY <2>3 DEF CloseSync
    <3>2. Teardown' BY <1>2, <1>3, <2>1, <3>1 DEF Teardown
    <3> QED BY <1>1, <1>3, <2>1, <3>1, <3>2, HostStep DEF TypeOK
  <2>4. CASE CloseJoin \/ CloseDestroy \/ CloseFree \/ CloseFails
    <3>1. ready' = ready /\ stop' = stop
          BY <2>4 DEF CloseJoin, CloseDestroy, CloseFree, CloseFails
    <3>2. /\ transport' \in {transport, FALSE}
          /\ closing' \in {"no", "destroy", "free", "closed"}
          BY <2>4 DEF CloseJoin, CloseDestroy, CloseFree, CloseFails
    <3>3. Teardown'
      <4>1. CASE CloseJoin BY <1>2, <1>3, <2>1, <3>1, <4>1 DEF Teardown, CloseJoin
      <4>2. CASE CloseDestroy BY <1>2, <1>3, <2>1, <3>1, <4>2 DEF Teardown, CloseDestroy
      <4>3. CASE CloseFree BY <1>2, <1>3, <2>1, <3>1, <4>3 DEF Teardown, CloseFree
      <4>4. CASE CloseFails BY <1>2, <1>3, <2>1, <3>1, <4>4 DEF Teardown, CloseFails
      <4> QED BY <2>4, <4>1, <4>2, <4>3, <4>4
    <3>4. /\ ready' \in BOOLEAN /\ stop' \in BOOLEAN /\ has_capture' \in BOOLEAN
          /\ graphs' \in BOOLEAN /\ transport' \in BOOLEAN
          /\ closing' \in {"no", "sync", "join", "destroy", "free", "closed"}
          BY <1>3, <2>1, <3>1, <3>2 DEF TypeOK
    <3> QED BY <1>1, <3>3, <3>4, HostStep
  <2> QED BY <1>6, <2>2, <2>3, <2>4 DEF CloseSteps
<1> QED BY <1>4, <1>5, <1>6

\* The stream reaches the kernel.
LEMMA LaunchStep ==
    ASSUME IInv, NEW s \in Streams, Enqueue(s) \/ Replay(s)
    PROVE  IInv'
<1>1. Launch(s) /\ UNCHANGED hostVars /\ ready
      BY DEF Enqueue, Replay, IInv, Teardown
<1>2. /\ epoch' = epoch /\ counter' = counter
      /\ active' = active /\ request' = request /\ completed' = completed /\ error' = error
      /\ staged' = staged /\ reduced' = reduced
      /\ cpc' = cpc /\ carried' = carried /\ alive' = alive
      BY <1>1, SameControl, SameCpu DEF Launch
<1>3. /\ ready' = ready /\ stop' = stop /\ has_capture' = has_capture
      /\ transport' = transport /\ graphs' = graphs /\ closing' = closing
      BY <1>1, SameHost
<1>4. /\ kpc[s] = "idle" /\ kpc'[s] = "enter"
      /\ \A t \in Streams : t # s => kpc'[t] = kpc[t]
      /\ output'[s] = {} /\ \A t \in Streams : t # s => output'[t] = output[t]
      BY <1>1 DEF Launch, IInv, TypeOK
<1>5. TypeOK'
  <2>1. /\ kpc' \in [Streams -> {"idle", "enter", "clash", "stage", "publish", "spin",
                            "look", "fail", "copy", "leave"}]
        /\ output' \in [Streams -> SUBSET Nat]
        BY <1>1 DEF Launch, IInv, TypeOK
  <2> QED BY <1>2, <1>3, <2>1 DEF IInv, TypeOK
<1>6. Exchanging' = Exchanging BY <1>4 DEF Exchanging
<1>7. OneActive' BY <1>2, <1>6 DEF IInv, OneActive
<1>8. Handshake'
  <2>1. \A t \in Streams : kpc'[t] \notin {"idle", "enter"} => kpc'[t] = kpc[t]
        BY <1>4
  <2> QED BY <1>2, <1>6, <2>1 DEF IInv, Handshake, Agrees, AtRest, InFlight
<1>9. Outputs' BY <1>2, <1>4 DEF IInv, Outputs, Output
<1>10. Teardown' BY <1>1, <1>2, <1>3 DEF IInv, Teardown
<1> QED BY <1>5, <1>7, <1>8, <1>9, <1>10 DEF IInv
-----------------------------------------------------------------------------
(* The progress thread.                                                    *)

LEMMA ProgressSteps ==
    ASSUME IInv, Progress \/ RunFails
    PROVE  IInv'
<1>1. /\ UNCHANGED kernelVars /\ UNCHANGED hostVars
      /\ active' = active /\ request' = request /\ error' = error /\ staged' = staged
      BY DEF Progress, Top, CheckError, LoadRequest, RunReturns, Complete, RunFails, Exit,
         controlVars, arenaVars
<1>2. /\ kpc' = kpc /\ epoch' = epoch /\ output' = output /\ counter' = counter
      /\ ready' = ready /\ stop' = stop /\ has_capture' = has_capture
      /\ transport' = transport /\ graphs' = graphs /\ closing' = closing
      BY <1>1, SameKernels, SameHost
<1>3. OneActive' BY <1>1, <1>2 DEF IInv, OneActive, Exchanging
<1>4. Outputs' BY <1>1, <1>2 DEF IInv, Outputs, Output
<1>5. TypeOK /\ Handshake BY DEF IInv
\* It stays where it is when it has exited, and calls the transport for the epoch in
\* flight only.
<1>6. /\ cpc = "exited" => cpc' = "exited"
      /\ TypeOK' /\ Handshake'
  <2>0. /\ kpc \in [Streams -> {"idle", "enter", "clash", "stage", "publish", "spin",
                            "look", "fail", "copy", "leave"}]
        /\ request \in Nat /\ completed \in Nat /\ counter \in Nat
        BY <1>5 DEF TypeOK
  <2>1. CASE Exit \/ Top \/ CheckError
    <3>1. /\ completed' = completed /\ reduced' = reduced /\ carried' = carried
          /\ cpc' \in {cpc, "exited", "error", "request"} /\ alive' \in BOOLEAN
          /\ cpc' # cpc => cpc \notin {"exited"}
          BY <1>5, <2>1, SameControl DEF Exit, Top, CheckError, controlVars, arenaVars, cpuVars, TypeOK
    <3>2. TypeOK' BY <1>1, <1>2, <1>5, <3>1 DEF TypeOK
    <3>3. AtRest => AtRest' BY <1>1, <3>1 DEF AtRest
    <3>4. InFlight => InFlight' BY <1>1, <1>2, <3>1 DEF InFlight
    <3>5. Handshake' BY <1>1, <1>2, <1>5, <3>1, <3>3, <3>4 DEF Handshake, Agrees, Exchanging
    <3> QED BY <3>1, <3>2, <3>5
  <2>2. CASE LoadRequest /\ ~Exit
    <3>1. /\ completed' = completed /\ reduced' = reduced /\ alive' = alive /\ cpc = "request"
          /\ \/ cpc' = "top" /\ carried' = carried
             \/ cpc' = "run" /\ carried' = {staged} /\ request = completed + 1
          BY <2>2 DEF LoadRequest, controlVars, arenaVars
    <3>2. TypeOK'
      <4>1. carried' \subseteq Nat /\ cpc' \in {"top", "run"} BY <1>5, <3>1 DEF TypeOK
      <4>2. completed' \in Nat /\ reduced' \subseteq Nat /\ alive' \in BOOLEAN
            BY <1>5, <3>1 DEF TypeOK
      <4> QED BY <1>1, <1>2, <1>5, <4>1, <4>2 DEF TypeOK
    <3>3. AtRest => AtRest'
      <4>1. ASSUME AtRest, request = completed + 1 PROVE FALSE BY <2>0, <4>1 DEF AtRest
      <4> QED BY <1>1, <3>1, <4>1 DEF AtRest
    <3>4. InFlight => InFlight' BY <1>1, <1>2, <2>0, <3>1 DEF InFlight
    <3>5. Handshake' BY <1>1, <1>2, <1>5, <3>1, <3>3, <3>4 DEF Handshake, Agrees, Exchanging
    <3> QED BY <3>1, <3>2, <3>5
  <2>3. CASE RunReturns
    <3>1. /\ completed' = completed /\ cpc = "run" /\ cpc' = "done" /\ reduced' = carried
          /\ carried' = carried /\ alive' = alive
          BY <2>3 DEF RunReturns, controlVars
    <3>2. TypeOK' BY <1>1, <1>2, <1>5, <3>1 DEF TypeOK
    <3>3. AtRest => AtRest' BY <3>1 DEF AtRest
    <3>4. InFlight => InFlight' BY <1>1, <1>2, <2>0, <3>1 DEF InFlight
    <3>5. Handshake' BY <1>1, <1>2, <1>5, <3>1, <3>3, <3>4 DEF Handshake, Agrees, Exchanging
    <3> QED BY <3>1, <3>2, <3>5
  <2>4. CASE Complete
    <3>1. /\ completed' = completed + 1 /\ cpc = "done" /\ cpc' = "top" /\ reduced' = reduced
          /\ carried' = carried /\ alive' = alive
          BY <2>4 DEF Complete, arenaVars
    <3>2. TypeOK' BY <1>1, <1>2, <1>5, <2>0, <3>1 DEF TypeOK
    <3>3. ~AtRest BY <3>1 DEF AtRest
    <3>4. InFlight => InFlight' /\ completed + 1 = counter BY <1>1, <1>2, <2>0, <3>1 DEF InFlight
    <3>5. Handshake' BY <1>1, <1>2, <1>5, <3>1, <3>3, <3>4 DEF Handshake, Agrees, Exchanging
    <3> QED BY <3>1, <3>2, <3>5
  <2> QED BY <2>1, <2>2, <2>3, <2>4 DEF Progress, RunFails
<1>7. Teardown' BY <1>2, <1>6 DEF IInv, Teardown
<1> QED BY <1>3, <1>4, <1>6, <1>7 DEF IInv
-----------------------------------------------------------------------------
(* The kernel.                                                             *)

Holding == {"stage", "publish", "spin", "look", "fail", "copy", "leave"}
KernelStages == Holding \union {"idle", "enter", "clash"}

LEMMA Moved ==
    ASSUME IInv, NEW s \in Streams, NEW here, NEW there \in KernelStages, Goto(s, here, there)
    PROVE  /\ kpc[s] = here /\ kpc'[s] = there /\ \A t \in Streams : t # s => kpc'[t] = kpc[t]
           /\ kpc' \in [Streams -> {"idle", "enter", "clash", "stage", "publish", "spin",
                                    "look", "fail", "copy", "leave"}]
BY DEF Goto, IInv, TypeOK, KernelStages, Holding

\* The kernel that has the active flag goes on: it is the only one that the
\* handshake is about.
LEMMA HolderStep ==
    ASSUME IInv, NEW s \in Streams, NEW here \in Holding, NEW there \in Holding,
           Goto(s, here, there),
           epoch' = epoch, counter' = counter, active' = active, completed' = completed,
           reduced' = reduced, cpc' = cpc, alive' = alive, UNCHANGED hostVars,
           request' \in Nat, staged' \in Nat, carried' \subseteq Nat,
           error' \in {error, 2},
           output' \in [Streams -> SUBSET Nat],
           \A t \in Streams : t # s => output'[t] = output[t],
           Agrees(s)', Output(s)'
    PROVE  IInv'
<1>1. /\ kpc[s] = here /\ kpc'[s] = there /\ \A t \in Streams : t # s => kpc'[t] = kpc[t]
      /\ kpc' \in [Streams -> {"idle", "enter", "clash", "stage", "publish", "spin",
                               "look", "fail", "copy", "leave"}]
      BY Moved DEF KernelStages
<1>2. /\ ready' = ready /\ stop' = stop /\ has_capture' = has_capture
      /\ transport' = transport /\ graphs' = graphs /\ closing' = closing
      BY SameHost
<1>3. TypeOK' BY <1>1, <1>2 DEF IInv, TypeOK
<1>4. Exchanging' = Exchanging /\ s \in Exchanging
      BY <1>1 DEF Exchanging, Holding
<1>5. \A t \in Streams : t # s => t \notin Exchanging
      BY <1>4 DEF IInv, OneActive
<1>6. OneActive' BY <1>4 DEF IInv, OneActive
<1>7. Handshake'
  <2>1. ASSUME NEW t \in Streams, t # s PROVE Agrees(t)'
        BY <1>1, <1>5, <2>1 DEF Agrees, Exchanging
  <2> QED BY <1>4, <2>1 DEF Handshake
<1>8. Outputs'
  <2>1. ASSUME NEW t \in Streams, t # s PROVE Output(t)'
        BY <1>1, <1>5, <2>1 DEF IInv, Outputs, Output, Exchanging
  <2> QED BY <2>1 DEF Outputs
<1>9. Teardown' BY <1>1, <1>2 DEF IInv, Teardown, Holding
<1> QED BY <1>3, <1>6, <1>7, <1>8, <1>9 DEF IInv

\* What is known of the kernel that has the flag.
LEMMA Holder ==
    ASSUME IInv, NEW s \in Streams, kpc[s] \in Holding
    PROVE  epoch[s] = counter /\ counter \in Nat /\ Agrees(s) /\ Output(s)
<1>1. s \in Exchanging BY DEF Exchanging, Holding
<1> QED BY <1>1 DEF IInv, OneActive, TypeOK, Handshake, Outputs

LEMMA HolderSteps ==
    ASSUME IInv, NEW s \in Streams,
           Stage(s) \/ Publish(s) \/ Spin(s) \/ SpinOut(s) \/ GiveUp(s) \/ Copy(s)
    PROVE  IInv'
<1>0. /\ TypeOK /\ {"stage", "publish", "spin", "look", "fail", "copy", "leave"} \subseteq Holding
      /\ Holding \subseteq KernelStages
      /\ completed \in Nat /\ counter \in Nat /\ error \in {0, 1, 2}
      BY DEF IInv, TypeOK, Holding, KernelStages
<1>1. CASE Stage(s)
  <2>1. /\ Goto(s, "stage", "publish") /\ staged' = epoch[s] /\ cpc' = cpc /\ alive' = alive
        /\ carried' = (IF cpc = "run" THEN carried \union {epoch[s]} ELSE carried)
        /\ epoch' = epoch /\ output' = output /\ counter' = counter /\ reduced' = reduced
        /\ UNCHANGED hostVars
        BY <1>1 DEF Stage
  <2>2. active' = active /\ request' = request /\ completed' = completed /\ error' = error
        BY <1>1, SameControl DEF Stage
  <2>3. kpc[s] = "stage" /\ kpc'[s] = "publish" BY <1>0, <2>1, Moved
  <2>4. epoch[s] = counter /\ Agrees(s) /\ Output(s) BY <1>0, <2>3, Holder
  <2>5. AtRest => AtRest' BY <2>1, <2>2 DEF AtRest
  <2>6. Agrees(s)' BY <2>1, <2>2, <2>3, <2>4, <2>5 DEF Agrees
  <2>7. Output(s)' BY <2>1, <2>2, <2>3, <2>4 DEF Output
  <2>8. /\ request' \in Nat /\ staged' \in Nat /\ carried' \subseteq Nat /\ error' \in {error, 2}
        /\ output' \in [Streams -> SUBSET Nat]
        /\ \A t \in Streams : t # s => output'[t] = output[t]
        BY <1>0, <2>1, <2>2, <2>4 DEF TypeOK
  <2> QED BY <1>0, <2>1, <2>2, <2>6, <2>7, <2>8, HolderStep
<1>2. CASE Publish(s)
  <2>1. /\ Goto(s, "publish", "spin") /\ request' = epoch[s]
        /\ epoch' = epoch /\ output' = output /\ counter' = counter /\ active' = active
        /\ completed' = completed /\ error' = error /\ UNCHANGED hostVars
        BY <1>2 DEF Publish
  <2>2. staged' = staged /\ reduced' = reduced /\ cpc' = cpc /\ carried' = carried /\ alive' = alive
        BY <1>2, SameCpu DEF Publish
  <2>3. kpc[s] = "publish" /\ kpc'[s] = "spin" BY <1>0, <2>1, Moved
  <2>4. epoch[s] = counter /\ Agrees(s) /\ Output(s) BY <1>0, <2>3, Holder
  <2>5. error = 0 => InFlight'
    <3>1. error = 0 => AtRest /\ completed + 1 = counter /\ staged = counter
          BY <2>3, <2>4 DEF Agrees
    <3> QED BY <1>0, <2>1, <2>2, <2>4, <3>1 DEF InFlight, AtRest
  <2>6. Agrees(s)' BY <2>1, <2>3, <2>5 DEF Agrees
  <2>7. Output(s)' BY <2>1, <2>3, <2>4 DEF Output
  <2>8. /\ request' \in Nat /\ staged' \in Nat /\ carried' \subseteq Nat /\ error' \in {error, 2}
        /\ output' \in [Streams -> SUBSET Nat]
        /\ \A t \in Streams : t # s => output'[t] = output[t]
        BY <1>0, <2>1, <2>2, <2>4 DEF TypeOK
  <2> QED BY <1>0, <2>1, <2>2, <2>6, <2>7, <2>8, HolderStep
<1>3. CASE Spin(s) \/ SpinOut(s)
  <2>1. /\ epoch' = epoch /\ output' = output /\ counter' = counter /\ UNCHANGED hostVars
        /\ active' = active /\ request' = request /\ completed' = completed /\ error' = error
        BY <1>3, SameControl DEF Spin, SpinError, SpinCompleted, SpinOut
  <2>2. staged' = staged /\ reduced' = reduced /\ cpc' = cpc /\ carried' = carried /\ alive' = alive
        BY <1>3, SameCpu DEF Spin, SpinError, SpinCompleted, SpinOut
  <2>3. PICK here \in {"spin", "look"}, there \in {"spin", "look", "fail", "copy"} :
            /\ Goto(s, here, there)
            /\ there = "look" => here = "spin" /\ error = 0
            /\ there = "copy" => here = "look" /\ completed = epoch[s]
        BY <1>3 DEF Spin, SpinError, SpinCompleted, SpinOut
  <2>4. here \in Holding /\ there \in Holding BY <1>0
  <2>5. kpc[s] = here /\ kpc'[s] = there BY <1>0, <2>3, <2>4, Moved
  <2>6. epoch[s] = counter /\ Agrees(s) /\ Output(s) BY <2>4, <2>5, Holder
  <2>7. error = 0 \/ here = "look" => InFlight BY <2>5, <2>6 DEF Agrees
  <2>8. InFlight => InFlight' BY <2>1, <2>2 DEF InFlight
  <2>9. Agrees(s)' BY <2>1, <2>3, <2>5, <2>6, <2>7, <2>8 DEF Agrees
  <2>10. Output(s)' BY <2>1, <2>5, <2>6 DEF Output
  <2>11. /\ request' \in Nat /\ staged' \in Nat /\ carried' \subseteq Nat /\ error' \in {error, 2}
         /\ output' \in [Streams -> SUBSET Nat]
         /\ \A t \in Streams : t # s => output'[t] = output[t]
         BY <1>0, <2>1, <2>2 DEF TypeOK
  <2> QED BY <2>1, <2>2, <2>3, <2>4, <2>9, <2>10, <2>11, HolderStep
<1>4. CASE GiveUp(s)
  <2>1. /\ Goto(s, "fail", "leave") /\ error' = 2
        /\ epoch' = epoch /\ output' = output /\ counter' = counter /\ active' = active
        /\ request' = request /\ completed' = completed /\ UNCHANGED hostVars
        BY <1>4 DEF GiveUp
  <2>2. staged' = staged /\ reduced' = reduced /\ cpc' = cpc /\ carried' = carried /\ alive' = alive
        BY <1>4, SameCpu DEF GiveUp
  <2>3. kpc[s] = "fail" /\ kpc'[s] = "leave" BY <1>0, <2>1, Moved
  <2>4. Output(s) BY <1>0, <2>3, Holder
  <2>5. Agrees(s)' BY <2>1, <2>3 DEF Agrees
  <2>6. Output(s)' BY <2>1, <2>3, <2>4 DEF Output
  <2>7. /\ request' \in Nat /\ staged' \in Nat /\ carried' \subseteq Nat /\ error' \in {error, 2}
        /\ output' \in [Streams -> SUBSET Nat]
        /\ \A t \in Streams : t # s => output'[t] = output[t]
        BY <1>0, <2>1, <2>2 DEF TypeOK
  <2> QED BY <1>0, <2>1, <2>2, <2>5, <2>6, <2>7, HolderStep
<1>5. CASE Copy(s)
  <2>1. /\ Goto(s, "copy", "leave") /\ output' = [output EXCEPT ![s] = reduced]
        /\ epoch' = epoch /\ counter' = counter /\ UNCHANGED hostVars
        /\ active' = active /\ request' = request /\ completed' = completed /\ error' = error
        BY <1>5, SameControl DEF Copy
  <2>2. staged' = staged /\ reduced' = reduced /\ cpc' = cpc /\ carried' = carried /\ alive' = alive
        BY <1>5, SameCpu DEF Copy
  <2>3. kpc[s] = "copy" /\ kpc'[s] = "leave" BY <1>0, <2>1, Moved
  <2>4. epoch[s] = counter /\ Agrees(s) BY <1>0, <2>3, Holder
  <2>5. InFlight /\ completed = counter BY <2>3, <2>4 DEF Agrees
  <2>6. InFlight' BY <2>1, <2>2, <2>5 DEF InFlight
  <2>7. Agrees(s)' BY <2>1, <2>3, <2>5, <2>6 DEF Agrees
  <2>8. /\ output'[s] = {epoch[s]} /\ \A t \in Streams : t # s => output'[t] = output[t]
        /\ output' \in [Streams -> SUBSET Nat]
        BY <1>0, <2>1, <2>4, <2>5 DEF TypeOK, InFlight
  <2>9. Output(s)' BY <2>1, <2>3, <2>8 DEF Output
  <2>10. request' \in Nat /\ staged' \in Nat /\ carried' \subseteq Nat /\ error' \in {error, 2}
         BY <1>0, <2>1, <2>2 DEF TypeOK
  <2> QED BY <1>0, <2>1, <2>2, <2>7, <2>8, <2>9, <2>10, HolderStep
<1> QED BY <1>1, <1>2, <1>3, <1>4, <1>5

LEMMA ClashStep ==
    ASSUME IInv, NEW s \in Streams, Clash(s)
    PROVE  IInv'
<1>1. /\ Goto(s, "clash", "idle") /\ error' = 1 /\ UNCHANGED hostVars
      /\ epoch' = epoch /\ output' = output /\ counter' = counter
      /\ active' = active /\ request' = request /\ completed' = completed
      BY DEF Clash
<1>2. staged' = staged /\ reduced' = reduced /\ cpc' = cpc /\ carried' = carried /\ alive' = alive
      BY SameCpu DEF Clash
<1>3. /\ ready' = ready /\ stop' = stop /\ has_capture' = has_capture
      /\ transport' = transport /\ graphs' = graphs /\ closing' = closing
      BY <1>1, SameHost
<1>4. /\ kpc[s] = "clash" /\ kpc'[s] = "idle" /\ \A t \in Streams : t # s => kpc'[t] = kpc[t]
      /\ kpc' \in [Streams -> {"idle", "enter", "clash", "stage", "publish", "spin",
                               "look", "fail", "copy", "leave"}]
      BY <1>1, Moved DEF KernelStages
<1>5. TypeOK' BY <1>1, <1>2, <1>3, <1>4 DEF IInv, TypeOK
<1>6. Exchanging' = Exchanging BY <1>4 DEF Exchanging
<1>7. OneActive' BY <1>1, <1>6 DEF IInv, OneActive
<1>8. Handshake'
  <2>1. ASSUME NEW t \in Streams PROVE Agrees(t)'
    <3>1. InFlight => InFlight' BY <1>1, <1>2 DEF InFlight
    <3>2. Agrees(t) BY DEF IInv, Handshake
    <3>3. kpc'[t] \in {"look", "copy"} => kpc[t] = kpc'[t] BY <1>4
    <3> QED BY <1>1, <3>1, <3>2, <3>3 DEF Agrees
  <2> QED BY <1>1, <2>1 DEF Handshake
<1>9. Outputs'
  <2>1. ASSUME NEW t \in Streams PROVE Output(t)'
        BY <1>1, <1>4 DEF IInv, Outputs, Output
  <2> QED BY <2>1 DEF Outputs
<1>10. Teardown' BY <1>2, <1>3, <1>4 DEF IInv, Teardown
<1> QED BY <1>5, <1>7, <1>8, <1>9, <1>10 DEF IInv

LEMMA LeaveStep ==
    ASSUME IInv, NEW s \in Streams, Leave(s)
    PROVE  IInv'
<1>1. /\ Goto(s, "leave", "idle") /\ active' = 0 /\ UNCHANGED hostVars
      /\ epoch' = epoch /\ output' = output /\ counter' = counter
      /\ request' = request /\ completed' = completed /\ error' = error
      BY DEF Leave
<1>2. staged' = staged /\ reduced' = reduced /\ cpc' = cpc /\ carried' = carried /\ alive' = alive
      BY SameCpu DEF Leave
<1>3. /\ ready' = ready /\ stop' = stop /\ has_capture' = has_capture
      /\ transport' = transport /\ graphs' = graphs /\ closing' = closing
      BY <1>1, SameHost
<1>4. /\ kpc[s] = "leave" /\ kpc'[s] = "idle" /\ \A t \in Streams : t # s => kpc'[t] = kpc[t]
      /\ kpc' \in [Streams -> {"idle", "enter", "clash", "stage", "publish", "spin",
                               "look", "fail", "copy", "leave"}]
      BY <1>1, Moved DEF KernelStages
<1>5. TypeOK' BY <1>1, <1>2, <1>3, <1>4 DEF IInv, TypeOK
<1>6. Exchanging' = {}
  <2>1. s \in Exchanging BY <1>4 DEF Exchanging
  <2>2. \A t \in Streams : t # s => t \notin Exchanging BY <2>1 DEF IInv, OneActive
  <2> QED BY <1>4, <2>2 DEF Exchanging
<1>7. OneActive' BY <1>6 DEF OneActive
<1>8. Handshake'
  <2>1. ASSUME error = 0 PROVE AtRest' /\ completed' = counter'
    <3>1. InFlight /\ completed = counter /\ counter \in Nat
          BY <1>4, <2>1, Holder DEF Agrees, Holding
    <3>2. completed + 1 # counter BY <3>1
    <3> QED BY <1>1, <1>2, <3>1, <3>2 DEF InFlight, AtRest
  <2>2. ASSUME NEW t \in Streams PROVE Agrees(t)'
    <3>1. kpc'[t] \notin Holding BY <1>6 DEF Exchanging, Holding
    <3> QED BY <3>1 DEF Agrees, Holding
  <2> QED BY <1>1, <2>1, <2>2 DEF Handshake
<1>9. Outputs'
  <2>1. ASSUME NEW t \in Streams PROVE Output(t)'
        BY <1>1, <1>4 DEF IInv, Outputs, Output
  <2> QED BY <2>1 DEF Outputs
<1>10. Teardown' BY <1>2, <1>3, <1>4 DEF IInv, Teardown
<1> QED BY <1>5, <1>7, <1>8, <1>9, <1>10 DEF IInv

LEMMA EnterStep ==
    ASSUME IInv, NEW s \in Streams, Enter(s)
    PROVE  IInv'
<1> DEFINE there == IF active = 0 THEN "stage" ELSE "clash"
<1>0. there \in KernelStages BY DEF KernelStages, Holding
<1>1. /\ Goto(s, "enter", there) /\ active' = 1 /\ UNCHANGED hostVars
      /\ output' = output /\ request' = request /\ completed' = completed /\ error' = error
      BY DEF Enter
<1>2. staged' = staged /\ reduced' = reduced /\ cpc' = cpc /\ carried' = carried /\ alive' = alive
      BY SameCpu DEF Enter
<1>3. /\ ready' = ready /\ stop' = stop /\ has_capture' = has_capture
      /\ transport' = transport /\ graphs' = graphs /\ closing' = closing
      BY <1>1, SameHost
<1>4. /\ kpc[s] = "enter" /\ kpc'[s] = there /\ \A t \in Streams : t # s => kpc'[t] = kpc[t]
      /\ kpc' \in [Streams -> {"idle", "enter", "clash", "stage", "publish", "spin",
                               "look", "fail", "copy", "leave"}]
      BY <1>0, <1>1, Moved
<1>5. ready BY <1>4 DEF IInv, Teardown
<1>6. Teardown' BY <1>2, <1>3, <1>5 DEF IInv, Teardown
<1>7. CASE active = 0
  <2>1. /\ kpc'[s] = "stage" /\ counter' = counter + 1
        /\ epoch' = [epoch EXCEPT ![s] = counter + 1]
        BY <1>4, <1>7 DEF Enter
  <2>2. counter \in Nat /\ epoch \in [Streams -> Nat] BY DEF IInv, TypeOK
  <2>3. /\ epoch' \in [Streams -> Nat] /\ epoch'[s] = counter'
        /\ \A t \in Streams : t # s => epoch'[t] = epoch[t]
        BY <2>1, <2>2
  <2>4. TypeOK' BY <1>1, <1>2, <1>3, <1>4, <2>1, <2>2, <2>3 DEF IInv, TypeOK
  <2>5. Exchanging = {} BY <1>7 DEF IInv, OneActive
  <2>6. Exchanging' = {s}
        BY <1>4, <2>1, <2>5 DEF Exchanging
  <2>7. OneActive' BY <1>1, <2>3, <2>6 DEF OneActive
  <2>8. Handshake'
    <3>1. error = 0 => AtRest' /\ completed' + 1 = counter'
          BY <1>1, <1>2, <2>1, <2>5 DEF IInv, Handshake, AtRest
    <3>2. ASSUME NEW t \in Streams PROVE Agrees(t)'
      <4>1. CASE t = s BY <1>1, <2>1, <3>1, <4>1 DEF Agrees
      <4>2. CASE t # s
        <5>1. kpc'[t] \notin Holding BY <2>6, <4>2 DEF Exchanging, Holding
        <5> QED BY <5>1 DEF Agrees, Holding
      <4> QED BY <4>1, <4>2
    <3> QED BY <2>6, <3>2 DEF Handshake
  <2>9. Outputs'
    <3>1. ASSUME NEW t \in Streams PROVE Output(t)'
      <4>1. CASE t = s BY <1>1, <1>4, <2>1, <4>1 DEF IInv, Outputs, Output
      <4>2. CASE t # s BY <1>1, <1>4, <2>3, <4>2 DEF IInv, Outputs, Output
      <4> QED BY <4>1, <4>2
    <3> QED BY <3>1 DEF Outputs
  <2> QED BY <1>6, <2>4, <2>7, <2>8, <2>9 DEF IInv
<1>8. CASE active # 0
  <2>1. kpc'[s] = "clash" /\ counter' = counter /\ epoch' = epoch
        BY <1>4, <1>8 DEF Enter
  <2>2. TypeOK' BY <1>1, <1>2, <1>3, <1>4, <2>1 DEF IInv, TypeOK
  <2>3. active = 1 /\ Exchanging' = Exchanging
    <3>1. active = 1 BY <1>8 DEF IInv, TypeOK
    <3> QED BY <1>4, <2>1, <3>1 DEF Exchanging
  <2>4. OneActive' BY <1>1, <2>1, <2>3 DEF IInv, OneActive
  <2>5. Handshake'
    <3>1. ASSUME NEW t \in Streams PROVE Agrees(t)'
      <4>1. (InFlight => InFlight') /\ (AtRest => AtRest')
            BY <1>1, <1>2, <2>1 DEF InFlight, AtRest
      <4>2. Agrees(t) BY DEF IInv, Handshake
      <4>3. kpc'[t] \in Holding => kpc[t] = kpc'[t] BY <1>4, <2>1 DEF Holding
      <4> QED BY <1>1, <1>2, <2>1, <4>1, <4>2, <4>3 DEF Agrees, Holding
    <3>2. error = 0 /\ Exchanging = {} => AtRest' /\ completed' = counter'
          BY <1>1, <1>2, <2>1 DEF IInv, Handshake, AtRest
    <3> QED BY <1>1, <2>3, <3>1, <3>2 DEF Handshake
  <2>6. Outputs'
    <3>1. ASSUME NEW t \in Streams PROVE Output(t)'
      <4>1. CASE t = s BY <1>1, <1>4, <2>1, <4>1 DEF IInv, Outputs, Output
      <4>2. CASE t # s BY <1>1, <1>4, <2>1, <4>2 DEF IInv, Outputs, Output
      <4> QED BY <4>1, <4>2
    <3> QED BY <3>1 DEF Outputs
  <2> QED BY <1>6, <2>2, <2>4, <2>5, <2>6 DEF IInv
<1> QED BY <1>7, <1>8
-----------------------------------------------------------------------------
(* The invariant.                                                          *)

LEMMA InitInv == Init => IInv
<1> SUFFICES ASSUME Init PROVE IInv
    OBVIOUS
<1>1. \A s \in Streams : kpc[s] = "idle" /\ output[s] = {}
      BY DEF Init
<1>2. TypeOK
  <2>1. /\ output \in [Streams -> SUBSET Nat] /\ epoch \in [Streams -> Nat]
        /\ kpc \in [Streams -> {"idle", "enter", "clash", "stage", "publish", "spin",
                                "look", "fail", "copy", "leave"}]
        /\ reduced \subseteq Nat /\ carried \subseteq Nat
        BY DEF Init
  <2> QED BY <2>1 DEF Init, TypeOK
<1>3. Exchanging = {} BY <1>1 DEF Exchanging
<1>4. OneActive BY <1>3 DEF OneActive
<1>5. Handshake BY <1>1 DEF Init, Handshake, Agrees, AtRest
<1>6. Outputs BY <1>1 DEF Outputs, Output
<1>7. Teardown BY DEF Init, Teardown
<1> QED BY <1>2, <1>4, <1>5, <1>6, <1>7 DEF IInv

LEMMA NextInv == IInv /\ [Next]_vars => IInv'
<1> SUFFICES ASSUME IInv, [Next]_vars PROVE IInv'
    OBVIOUS
<1>1. CASE UNCHANGED vars
  <2>1. /\ UNCHANGED <<kernelVars, controlVars, arenaVars, cpuVars>> /\ UNCHANGED hostVars
        BY <1>1 DEF vars
  <2>2. kpc' = kpc /\ cpc' = cpc BY <2>1, SameKernels, SameCpu
  <2>3. /\ ready' = ready /\ stop' = stop /\ has_capture' = has_capture
        /\ transport' = transport /\ graphs' = graphs /\ closing' = closing
        BY <2>1, SameHost
  <2>4. Teardown' BY <2>2, <2>3 DEF IInv, Teardown
  <2>5. /\ ready' \in BOOLEAN /\ stop' \in BOOLEAN /\ has_capture' \in BOOLEAN
        /\ graphs' \in BOOLEAN /\ transport' \in BOOLEAN
        /\ closing' \in {"no", "sync", "join", "destroy", "free", "closed"}
        BY <2>3 DEF IInv, TypeOK
  <2> QED BY <2>1, <2>4, <2>5, HostStep
<1>2. ASSUME NEW s \in Streams, Enqueue(s) \/ Replay(s) \/ Kernel(s) \/ SpinOut(s)
      PROVE  IInv'
      BY <1>2, LaunchStep, EnterStep, ClashStep, LeaveStep, HolderSteps DEF Kernel
<1>3. CASE Capture \/ DestroyGraphs \/ (\E g \in BOOLEAN : CloseCall(g)) \/ CloseSteps \/ CloseFails
      BY <1>3, CallerSteps
<1>4. CASE Progress \/ RunFails
      BY <1>4, ProgressSteps
<1> QED BY <1>1, <1>2, <1>3, <1>4 DEF Next, Caller, Faults

\* Every behaviour keeps the invariant.
THEOREM Invariance == Spec => []IInv
<1> QED BY InitInv, NextInv, PTL DEF Spec

\* Two kernels never share the arena, for any number of streams, errors or not.
THEOREM ExclusiveHolds == Spec => []Exclusive
<1>1. IInv => Exclusive BY DEF IInv, OneActive, Exclusive
<1> QED BY <1>1, Invariance, PTL

\* Until an error is raised, a call sends the operand of its own epoch only.
THEOREM StableUntilErrorHolds == Spec => []StableUntilError
<1>1. ASSUME IInv, cpc = "run", error = 0 PROVE carried = {completed + 1}
  <2>1. ~AtRest BY <1>1 DEF AtRest
  <2>2. PICK s \in Streams : kpc[s] \in Holding
        BY <1>1, <2>1 DEF IInv, Handshake, Exchanging, Holding
  <2>3. Agrees(s) BY <1>1 DEF IInv, Handshake
  <2>4. InFlight BY <1>1, <2>1, <2>2, <2>3 DEF Agrees, Holding
  <2> QED BY <1>1, <2>4 DEF InFlight
<1> QED BY <1>1, Invariance, PTL DEF StableUntilError

\* Once the transport is gone, nothing is left that would use it or its memory.
THEOREM TeardownOrderHolds == Spec => []TeardownOrder
<1>1. IInv => TeardownOrder BY DEF IInv, Teardown, TeardownOrder
<1> QED BY <1>1, Invariance, PTL
-----------------------------------------------------------------------------
(* What the exchange promises its callers.                                 *)

calls == [s \in Streams |-> Call(s)]
answers == [s \in Streams |-> Answer(s)]

\* The steps of the promise, stream by stream.
LEMMA Nothing ==
    ASSUME \A t \in Streams : Call(t)' = Call(t) /\ Answer(t)' = Answer(t),
           error' # 0 <=> error # 0, alive' = alive
    PROVE  UNCHANGED Promise!promiseVars
<1>1. calls' = calls /\ answers' = answers BY DEF calls, answers
<1>2. (error # 0)' = (error # 0) OBVIOUS
<1> QED BY <1>1, <1>2 DEF Promise!promiseVars, calls, answers

LEMMA Dooms ==
    ASSUME alive, alive' = alive, error' # 0,
           \A t \in Streams : /\ Answer(t)' = Answer(t)
                              /\ \/ Call(t)' = Call(t)
                                 \/ Call(t) # "none" /\ Call(t)' \in {"none", "late"}
    PROVE  Promise!Doom
<1> DEFINE lost == {t \in Streams : Call(t) # "none" /\ Call(t)' = "late"}
           gone == {t \in Streams : Call(t) # "none" /\ Call(t)' = "none"}
<1>1. answers' = answers BY DEF answers
<1>2. calls' = [t \in Streams |-> IF t \in gone THEN "none"
                                  ELSE IF t \in lost THEN "late" ELSE calls[t]]
      BY DEF calls
<1>3. lost \in SUBSET {t \in Streams : calls[t] # "none"}
      BY DEF calls
<1>4. gone \in SUBSET {t \in Streams : calls[t] # "none"}
      BY DEF calls
<1> HIDE DEF lost, gone
<1>5. (error # 0)' = TRUE /\ (~alive)' = ~alive OBVIOUS
<1> QED BY <1>1, <1>2, <1>3, <1>4, <1>5 DEF Promise!Doom, calls, answers

LEMMA OneCall ==
    ASSUME NEW s \in Streams,
           \A t \in Streams : t # s => Call(t)' = Call(t)
    PROVE  \A c : Call(s)' = c => calls' = [calls EXCEPT ![s] = c]
BY DEF calls

LEMMA OneAnswer ==
    ASSUME NEW s \in Streams,
           \A t \in Streams : t # s => Answer(t)' = Answer(t)
    PROVE  \A a : Answer(s)' = a => answers' = [answers EXCEPT ![s] = a]
BY DEF answers

\* What a stream sees depends on these.
LEMMA SameView ==
    ASSUME NEW t \in Streams, kpc'[t] = kpc[t], output'[t] = output[t], epoch'[t] = epoch[t],
           error' # 0 <=> error # 0
    PROVE  Call(t)' = Call(t) /\ Answer(t)' = Answer(t)
BY DEF Call, Answer

LEMMA LaunchKeeps ==
    ASSUME IInv, NEW s \in Streams, Enqueue(s) \/ Replay(s)
    PROVE  Promise!Call(s)
<1>1. Launch(s) /\ alive BY DEF Enqueue, Replay
<1>2. error' = error /\ epoch' = epoch /\ alive' = alive
      BY <1>1, SameControl, SameCpu DEF Launch
<1>3. /\ kpc[s] = "idle" /\ kpc'[s] = "enter"
      /\ \A t \in Streams : t # s => kpc'[t] = kpc[t]
      /\ output'[s] = {} /\ \A t \in Streams : t # s => output'[t] = output[t]
      BY <1>1 DEF Launch, IInv, TypeOK
<1>4. \A t \in Streams : t # s => Call(t)' = Call(t) /\ Answer(t)' = Answer(t)
      BY <1>2, <1>3, SameView
<1>5. /\ Call(s) = "none" /\ Call(s)' = (IF error # 0 THEN "late" ELSE "open")
      /\ Answer(s)' = "untouched"
      BY <1>2, <1>3 DEF Call, Answer
<1>6. /\ calls' = [calls EXCEPT ![s] = IF error # 0 THEN "late" ELSE "open"]
      /\ answers' = [answers EXCEPT ![s] = "untouched"] /\ calls[s] = "none"
      BY <1>4, <1>5, OneCall, OneAnswer DEF calls
<1> QED BY <1>1, <1>2, <1>6 DEF Promise!Call, calls, answers

\* A step that no stream sees.
LEMMA Unseen ==
    ASSUME UNCHANGED <<kernelVars, controlVars, alive>>
           \/ UNCHANGED <<kernelVars, active, request, error, alive>>
    PROVE  UNCHANGED Promise!promiseVars
<1>1. kpc' = kpc /\ epoch' = epoch /\ output' = output /\ error' = error /\ alive' = alive
      BY SameKernels, SameControl
<1>2. \A t \in Streams : Call(t)' = Call(t) /\ Answer(t)' = Answer(t)
      BY <1>1, SameView
<1> QED BY <1>1, <1>2, Nothing

LEMMA ExitKeeps ==
    ASSUME alive, Exit
    PROVE  Promise!Die
<1>1. /\ kpc' = kpc /\ epoch' = epoch /\ output' = output /\ error' = error /\ alive' = FALSE
      BY SameKernels, SameControl DEF Exit
<1>2. \A t \in Streams : Call(t)' = Call(t) /\ Answer(t)' = Answer(t)
      BY <1>1, SameView
<1>3. calls' = calls /\ answers' = answers BY <1>2 DEF calls, answers
<1>4. (error # 0)' = (error # 0) BY <1>1
<1> QED BY <1>1, <1>3, <1>4 DEF Promise!Die, calls, answers

LEMMA ProgressKeeps ==
    ASSUME IInv, Progress \/ RunFails
    PROVE  Promise!Die \/ UNCHANGED Promise!promiseVars
<1>1. alive BY DEF Progress, Top, CheckError, LoadRequest, RunReturns, Complete, RunFails
<1>2. CASE Exit BY <1>1, <1>2, ExitKeeps
<1>3. CASE ~Exit
  <2>1. UNCHANGED <<kernelVars, active, request, error, alive>>
        BY <1>3 DEF Progress, Top, CheckError, LoadRequest, RunReturns, Complete, RunFails, controlVars
  <2> QED BY <2>1, Unseen
<1> QED BY <1>2, <1>3

\* A kernel that copies, or leaves, with the sum of its own operand.
LEMMA CopyKeeps ==
    ASSUME IInv, NEW s \in Streams, Copy(s)
    PROVE  Promise!Answer(s)
<1>1. /\ Goto(s, "copy", "leave") /\ output' = [output EXCEPT ![s] = reduced]
      /\ epoch' = epoch /\ error' = error /\ alive' = alive /\ alive
      BY SameControl, SameCpu DEF Copy, Goto
<1>2. /\ kpc[s] = "copy" /\ kpc'[s] = "leave" /\ \A t \in Streams : t # s => kpc'[t] = kpc[t]
      BY <1>1, Moved DEF KernelStages, Holding
<1>3. epoch[s] = counter /\ Agrees(s) /\ counter \in Nat BY <1>2, Holder DEF Holding
<1>4. reduced = {epoch[s]} BY <1>2, <1>3 DEF Agrees, InFlight
<1>5. output'[s] = {epoch[s]} /\ \A t \in Streams : t # s => output'[t] = output[t]
      BY <1>1, <1>4 DEF IInv, TypeOK
<1>6. {epoch[s]} # {} OBVIOUS
<1>7. Call(s) = "open" /\ Call(s)' = "open" BY <1>1, <1>2, <1>5, <1>6 DEF Call
<1>8. Answer(s)' = "sum" BY <1>1, <1>5, <1>6 DEF Answer
<1>9. \A t \in Streams : t # s => Call(t)' = Call(t) /\ Answer(t)' = Answer(t)
      BY <1>1, <1>2, <1>5, SameView
<1>10. calls' = calls /\ calls[s] = "open" BY <1>7, <1>9 DEF calls
<1>11. answers' = [answers EXCEPT ![s] = "sum"] BY <1>8, <1>9, OneAnswer
<1>12. (error # 0)' = (error # 0) /\ (~alive)' = ~alive BY <1>1
<1> QED BY <1>1, <1>10, <1>11, <1>12 DEF Promise!Answer, calls, answers

LEMMA LeaveKeeps ==
    ASSUME IInv, NEW s \in Streams, Leave(s)
    PROVE  Promise!Return(s)
<1>1. /\ Goto(s, "leave", "idle") /\ output' = output
      /\ epoch' = epoch /\ error' = error /\ alive' = alive /\ alive
      BY SameCpu DEF Leave, Goto
<1>2. /\ kpc[s] = "leave" /\ kpc'[s] = "idle" /\ \A t \in Streams : t # s => kpc'[t] = kpc[t]
      BY <1>1, Moved DEF KernelStages, Holding
<1>3. epoch[s] \in Nat /\ Output(s) BY DEF IInv, TypeOK, Outputs
<1>4. {epoch[s]} # {} OBVIOUS
<1>5. Answer(s) = "sum" \/ error # 0
      BY <1>2, <1>3, <1>4 DEF Output, Answer
<1>6. Call(s) # "none" /\ Call(s)' = "none" /\ Answer(s)' = Answer(s)
      BY <1>1, <1>2 DEF Call, Answer
<1>7. \A t \in Streams : t # s => Call(t)' = Call(t) /\ Answer(t)' = Answer(t)
      BY <1>1, <1>2, SameView
<1>8. calls' = [calls EXCEPT ![s] = "none"] BY <1>6, <1>7, OneCall
<1>9. answers' = answers BY <1>6, <1>7 DEF answers
<1>10. calls[s] # "none" /\ (answers[s] = "sum" \/ error # 0) BY <1>5, <1>6 DEF calls, answers
<1>11. (error # 0)' = (error # 0) /\ (~alive)' = ~alive BY <1>1
<1> QED BY <1>1, <1>8, <1>9, <1>10, <1>11 DEF Promise!Return, calls, answers

\* The kernel from one step to the next while nobody can tell.
LEMMA InnerKeeps ==
    ASSUME IInv, NEW s \in Streams,
           Enter(s) \/ Stage(s) \/ Publish(s) \/ SpinError(s) \/ SpinOut(s)
    PROVE  UNCHANGED Promise!promiseVars
<1>1. /\ output' = output /\ error' = error /\ alive' = alive
      BY SameControl, SameCpu DEF Enter, Stage, Publish, SpinError, SpinOut, controlVars, cpuVars
<1>2. \A t \in Streams : t # s => epoch'[t] = epoch[t]
      BY DEF Enter, Stage, Publish, SpinError, SpinOut, IInv, TypeOK
<1>3. PICK here \in {"enter", "stage", "publish", "spin"},
           there \in {"stage", "clash", "publish", "spin", "look", "fail"} :
             Goto(s, here, there) /\ (there = "look" => error = 0)
  <2>1. CASE Enter(s) BY <2>1 DEF Enter
  <2>2. CASE Stage(s) BY <2>2 DEF Stage
  <2>3. CASE Publish(s) BY <2>3 DEF Publish
  <2>4. CASE SpinError(s) BY <2>4 DEF SpinError
  <2>5. CASE SpinOut(s) BY <2>5 DEF SpinOut
  <2> QED BY <2>1, <2>2, <2>3, <2>4, <2>5
<1>4. /\ kpc[s] = here /\ kpc'[s] = there /\ \A t \in Streams : t # s => kpc'[t] = kpc[t]
      BY <1>3, Moved DEF KernelStages, Holding
<1>5. output[s] = {} BY <1>3, <1>4 DEF IInv, Outputs, Output
<1>6. Call(s)' = Call(s) BY <1>1, <1>3, <1>4, <1>5 DEF Call
<1>7. Answer(s)' = Answer(s) BY <1>1, <1>5 DEF Answer
<1>8. \A t \in Streams : t # s => Call(t)' = Call(t) /\ Answer(t)' = Answer(t)
      BY <1>1, <1>2, <1>4, SameView
<1> QED BY <1>1, <1>6, <1>7, <1>8, Nothing

\* The kernel that has looked for an answer: after an error it may not look again.
LEMMA LookKeeps ==
    ASSUME IInv, NEW s \in Streams, SpinCompleted(s)
    PROVE  Promise!Doom \/ UNCHANGED Promise!promiseVars
<1> DEFINE there == IF completed = epoch[s] THEN "copy"
                    ELSE IF completed > epoch[s] THEN "fail" ELSE "spin"
<1>1. /\ Goto(s, "look", there) /\ output' = output /\ epoch' = epoch
      /\ error' = error /\ alive' = alive /\ alive
      BY SameControl, SameCpu DEF SpinCompleted, Goto
<1>2. there \in {"copy", "fail", "spin"} OBVIOUS
<1> HIDE DEF there
<1>3. /\ kpc[s] = "look" /\ kpc'[s] = there /\ \A t \in Streams : t # s => kpc'[t] = kpc[t]
      BY <1>1, <1>2, Moved DEF KernelStages, Holding
<1>4. Answer(s)' = Answer(s) BY <1>1 DEF Answer
<1>5. \A t \in Streams : t # s => Call(t)' = Call(t) /\ Answer(t)' = Answer(t)
      BY <1>1, <1>3, SameView
<1>6. /\ Call(s) = "open" /\ Call(s)' \in {"open", "late"}
      /\ error = 0 => Call(s)' = "open"
      BY <1>1, <1>2, <1>3 DEF Call
<1>7. CASE error = 0
  <2>1. \A t \in Streams : Call(t)' = Call(t) /\ Answer(t)' = Answer(t)
        BY <1>4, <1>5, <1>6, <1>7
  <2> QED BY <1>1, <2>1, Nothing
<1>8. CASE error # 0
  <2>1. \A t \in Streams : /\ Answer(t)' = Answer(t)
                           /\ \/ Call(t)' = Call(t)
                              \/ Call(t) # "none" /\ Call(t)' \in {"none", "late"}
        BY <1>4, <1>5, <1>6
  <2>2. error' # 0 BY <1>1, <1>8
  <2> QED BY <1>1, <2>1, <2>2, Dooms
<1> QED BY <1>7, <1>8

\* The two errors.
LEMMA ErrorKeeps ==
    ASSUME IInv, NEW s \in Streams, Clash(s) \/ GiveUp(s)
    PROVE  Promise!Doom
<1>1. /\ output' = output /\ epoch' = epoch /\ alive' = alive /\ error' # 0
      BY SameCpu DEF Clash, GiveUp
<1>2. alive BY DEF Clash, GiveUp, Goto
<1>3. PICK here \in {"clash", "fail"}, there \in {"idle", "leave"} : Goto(s, here, there)
      BY DEF Clash, GiveUp
<1>4. /\ kpc[s] = here /\ kpc'[s] = there /\ \A t \in Streams : t # s => kpc'[t] = kpc[t]
      BY <1>3, Moved DEF KernelStages, Holding
<1>5. output[s] = {} BY <1>4 DEF IInv, Outputs, Output
<1>6. ASSUME NEW t \in Streams
      PROVE  /\ Answer(t)' = Answer(t)
             /\ \/ Call(t)' = Call(t)
                \/ Call(t) # "none" /\ Call(t)' \in {"none", "late"}
  <2>1. Answer(t)' = Answer(t) BY <1>1 DEF Answer
  <2>2. CASE t = s
    <3>1. Call(s) # "none" /\ Call(s)' \in {"none", "late"}
          BY <1>1, <1>4, <1>5 DEF Call
    <3> QED BY <2>1, <2>2, <3>1
  <2>3. CASE t # s
    <3>1. kpc'[t] = kpc[t] /\ output'[t] = output[t] BY <1>1, <1>4, <2>3
    <3>2. Call(t)' = Call(t) \/ (Call(t) # "none" /\ Call(t)' \in {"none", "late"})
          BY <1>1, <3>1 DEF Call
    <3> QED BY <2>1, <3>2
  <2> QED BY <2>2, <2>3
<1> QED BY <1>1, <1>2, <1>6, Dooms

LEMMA HostKeeps ==
    ASSUME Capture \/ DestroyGraphs \/ (\E g \in BOOLEAN : CloseCall(g))
           \/ CloseSteps \/ CloseFails
    PROVE  UNCHANGED Promise!promiseVars
<1>1. UNCHANGED <<kernelVars, controlVars, arenaVars, cpuVars>>
      BY DEF Capture, DestroyGraphs, CloseCall, CloseSteps, CloseSync, CloseJoin, CloseDestroy,
         CloseFree, CloseFails, hostOnly
<1>2. alive' = alive BY <1>1, SameCpu
<1> QED BY <1>1, <1>2, Unseen

LEMMA InitKeeps == Init => Promise!PromiseInit
<1> SUFFICES ASSUME Init PROVE Promise!PromiseInit
    OBVIOUS
<1>1. \A s \in Streams : Call(s) = "none" /\ Answer(s) = "untouched"
      BY DEF Init, Call, Answer
<1>2. /\ calls = [s \in Streams |-> "none"]
      /\ answers = [s \in Streams |-> "untouched"]
      BY <1>1 DEF calls, answers
<1>3. (error # 0) = FALSE /\ (~alive) = FALSE BY DEF Init
<1> QED BY <1>2, <1>3 DEF Promise!PromiseInit, calls, answers

LEMMA NextKeeps == IInv /\ [Next]_vars => [Promise!PromiseNext]_(Promise!promiseVars)
<1> SUFFICES ASSUME IInv, [Next]_vars
             PROVE  Promise!PromiseNext \/ UNCHANGED Promise!promiseVars
    OBVIOUS
<1>1. CASE UNCHANGED vars
  <2>1. UNCHANGED <<kernelVars, controlVars, arenaVars, cpuVars>> BY <1>1 DEF vars
  <2>2. alive' = alive BY <2>1, SameCpu
  <2> QED BY <2>1, <2>2, Unseen
<1>2. ASSUME NEW s \in Streams, Enqueue(s) \/ Replay(s) \/ Kernel(s) \/ SpinOut(s)
      PROVE  Promise!PromiseNext \/ UNCHANGED Promise!promiseVars
  <2>1. CASE Enqueue(s) \/ Replay(s) BY <2>1, LaunchKeeps DEF Promise!PromiseNext
  <2>2. CASE Enter(s) \/ Stage(s) \/ Publish(s) \/ SpinError(s) \/ SpinOut(s)
        BY <2>2, InnerKeeps
  <2>3. CASE SpinCompleted(s) BY <2>3, LookKeeps DEF Promise!PromiseNext
  <2>4. CASE Clash(s) \/ GiveUp(s) BY <2>4, ErrorKeeps DEF Promise!PromiseNext
  <2>5. CASE Copy(s) BY <2>5, CopyKeeps DEF Promise!PromiseNext
  <2>6. CASE Leave(s) BY <2>6, LeaveKeeps DEF Promise!PromiseNext
  <2> QED BY <1>2, <2>1, <2>2, <2>3, <2>4, <2>5, <2>6 DEF Kernel, Spin
<1>3. CASE Capture \/ DestroyGraphs \/ (\E g \in BOOLEAN : CloseCall(g)) \/ CloseSteps \/ CloseFails
      BY <1>3, HostKeeps
<1>4. CASE Progress \/ RunFails
      BY <1>4, ProgressKeeps DEF Promise!PromiseNext
<1> QED BY <1>1, <1>2, <1>3, <1>4 DEF Next, Caller, Faults

\* The exchange implements the back end that may abandon calls: an answer is the right
\* one, and after an error no new call is answered.
THEOREM ImplementsCollectiveHolds == Spec => ImplementsCollective
<1> QED BY InitKeeps, NextKeeps, Invariance, PTL
        DEF Spec, ImplementsCollective, Promise!PromiseSpec
=============================================================================
