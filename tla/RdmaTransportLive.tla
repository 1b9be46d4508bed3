-------------------------- MODULE RdmaTransportLive --------------------------
(***************************************************************************)
(* What RdmaTransport promises in the end: a group without faults uses up  *)
(* all its rounds, and in a group with faults every call still returns.    *)
(***************************************************************************)
EXTENDS RdmaTransport

VARIABLE faulty   \* whether anything may fail in this behaviour

liveVars == <<vars, faulty>>

LiveInit == Init /\ faulty \in BOOLEAN
LiveNext == /\ \/ HealthyNext
               \/ faulty /\ \E r \in Ranks : Fault(r)
            /\ UNCHANGED faulty

\* Without faults CPUs run and the reliable connections deliver.  With faults
\* only this: a CPU inside a call goes on, and its clock reaches the deadline,
\* which the loop tests every 1024 polls.
LiveSpec ==
    /\ LiveInit /\ [][LiveNext]_liveVars
    /\ \A r \in Ranks : /\ WF_liveVars(Work(r) /\ UNCHANGED faulty /\ (faulty => pc[r] # "idle"))
                        /\ WF_liveVars(faulty /\ PollFails(r) /\ UNCHANGED faulty)
    /\ \A s, d \in Ranks : WF_liveVars(~faulty /\ Land(s, d) /\ UNCHANGED faulty)

\* Every call of cpu_rdma_run returns, even when peers failed or disappeared.
CallReturns == \A r \in Ranks : pc[r] # "idle" ~> pc[r] = "idle"

\* Without faults the group never deadlocks: every rank uses up its rounds.
AllRoundsComplete == <>(faulty \/ \A r \in Ranks : Exhausted(r) /\ pc[r] = "idle")
=============================================================================
