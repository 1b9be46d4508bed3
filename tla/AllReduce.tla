----------------------------- MODULE AllReduce -----------------------------
(***************************************************************************)
(* What one all-reduce promises its caller, without saying how the bytes   *)
(* travel: the ranks go through numbered rounds; a rank is given a result  *)
(* for its round only after every rank has contributed to that round, and  *)
(* the result is made of the contributions to that very round and of no    *)
(* other.  A rank may give up, and then never answers again.               *)
(*                                                                         *)
(* A contribution is abstracted to the number of its round: the data the   *)
(* callers add up only matters in so far as a stale or a torn operand can  *)
(* be told from the right one.                                             *)
(***************************************************************************)
EXTENDS Naturals

CONSTANTS Ranks,      \* the members of the group
          NoResult    \* the caller holds no answer for its current round

VARIABLES contributed,  \* contributed[r]: rounds rank r has contributed to
          phase,        \* "idle", "waiting" (inside a call) or "stopped"
          result        \* result[r][p]: the round of p's operand in r's sum

absVars == <<contributed, phase, result>>

AbsInit == /\ contributed = [r \in Ranks |-> 0]
           /\ phase = [r \in Ranks |-> "idle"]
           /\ result = [r \in Ranks |-> NoResult]

\* The caller of r enters the next round with its own operand.
Contribute(r) == /\ phase[r] = "idle"
                 /\ phase' = [phase EXCEPT ![r] = "waiting"]
                 /\ contributed' = [contributed EXCEPT ![r] = @ + 1]
                 /\ result' = [result EXCEPT ![r] = NoResult]

\* The sum is handed over: everybody is in this round or beyond it.
Deliver(r) == /\ phase[r] = "waiting"
              /\ \A p \in Ranks : contributed[p] >= contributed[r]
              /\ phase' = [phase EXCEPT ![r] = "idle"]
              /\ result' = [result EXCEPT ![r] = [p \in Ranks |-> contributed[r]]]
              /\ UNCHANGED contributed

\* The call fails, and every later one with it.
Stop(r) == /\ phase[r] # "stopped"
           /\ phase' = [phase EXCEPT ![r] = "stopped"]
           /\ result' = [result EXCEPT ![r] = NoResult]
           /\ UNCHANGED contributed

AbsNext == \E r \in Ranks : Contribute(r) \/ Deliver(r) \/ Stop(r)

AbsSpec == AbsInit /\ [][AbsNext]_absVars
=============================================================================
