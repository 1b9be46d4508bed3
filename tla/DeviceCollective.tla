-------------------------- MODULE DeviceCollective --------------------------
(***************************************************************************)
(* What the code that uses a GPU all-reduce back end relies on: a stream   *)
(* that calls the collective goes on either with the sum of the operands   *)
(* of this very call or, if the back end may abandon calls, with an output *)
(* that was not touched; but then the process is doomed: it has failed for *)
(* good, and no call made from then on is ever answered.                   *)
(***************************************************************************)
CONSTANTS Streams,
          MayAbandon   \* calls may return unanswered once the process is doomed

VARIABLES call,     \* call[s]: "none", "open" or "late" (it will not be answered)
          answer,   \* answer[s]: "untouched", "sum" or, never, "wrong"
          doomed,   \* an error was seen that nothing repairs
          exited    \* the process is gone

promiseVars == <<call, answer, doomed, exited>>

PromiseInit == /\ call = [s \in Streams |-> "none"]
               /\ answer = [s \in Streams |-> "untouched"]
               /\ doomed = FALSE /\ exited = FALSE

Call(s) == /\ ~exited /\ call[s] = "none"
           /\ call' = [call EXCEPT ![s] = IF doomed THEN "late" ELSE "open"]
           /\ answer' = [answer EXCEPT ![s] = "untouched"]
           /\ UNCHANGED <<doomed, exited>>

Answer(s) == /\ ~exited /\ call[s] = "open"
             /\ answer' = [answer EXCEPT ![s] = "sum"]
             /\ UNCHANGED <<call, doomed, exited>>

Return(s) == /\ ~exited /\ call[s] # "none"
             /\ answer[s] = "sum" \/ (MayAbandon /\ doomed)
             /\ call' = [call EXCEPT ![s] = "none"]
             /\ UNCHANGED <<answer, doomed, exited>>

\* The error: some of the open calls, and perhaps one that returns at once,
\* lose their answer.
Doom == /\ MayAbandon /\ ~exited
        /\ doomed' = TRUE
        /\ \E lost, gone \in SUBSET {s \in Streams : call[s] # "none"} :
              call' = [s \in Streams |-> IF s \in gone THEN "none"
                                         ELSE IF s \in lost THEN "late" ELSE call[s]]
        /\ UNCHANGED <<answer, exited>>

Die == ~exited /\ exited' = TRUE /\ UNCHANGED <<call, answer, doomed>>

PromiseNext == Doom \/ Die \/ \E s \in Streams : Call(s) \/ Answer(s) \/ Return(s)

PromiseSpec == PromiseInit /\ [][PromiseNext]_promiseVars
=============================================================================
