---------------------------- MODULE Experiments ----------------------------
(***************************************************************************)
(* A plan of experiments (tools/run_*.py) beside the service.  The script  *)
(* and its program on a node are two processes: when the script's ssh      *)
(* gives up, or the script dies, the program goes on, and a command that   *)
(* is still on its way begins later.  A program can leave children that    *)
(* its time limit does not reach.  Requests come at any time.              *)
(***************************************************************************)
EXTENDS Runners

CONSTANTS Runs,         \* runs of a plan
          Nodes,        \* where programs run
          Dirs,         \* directories for the evidence
          MaxRequests,  \* bound: requests to the service
          Plans         \* runners, [subset of Runs -> Runner]: started by hand in any order

ASSUME NodesAssumption == Nodes # {}
ASSUME RequestsAssumption == MaxRequests \in Nat \ {0}
ASSUME PlansAssumption ==
    \A p \in Plans : \A x \in DOMAIN p :
        x \in Runs /\ p[x].dir \in Dirs /\ p[x].scan \in {"none", "self", "later"}

VARIABLES
    plan,       \* the runner of each run
    pc,         \* pc[x]: "idle", "looked", "remote", "scan", "after", "passed", "failed"
    seen,       \* seen[x]: completed requests when x looked
    prior,      \* prior[x]: the earlier run that x was told of, or x
    round,      \* round[x]: the program that x has on the nodes
    remote,     \* remote[x][n]: "none", "sent", "running", "ok", "bad", "over"
    answer,     \* answer[x][n]: what x knows: "none", "ok", "bad", "lost"
    procs,      \* procs[x][n]: marked processes: "bench", "child", "dying"
    files,      \* files[d]: <<run, file>>
    active,     \* a request is in progress: 0 or 1
    total,      \* requests completed
    disturbed,  \* runs whose program ran beside a request
    killed      \* runs whose program on a node was killed

local == <<pc, seen, prior, round>>
onNodes == <<remote, procs, killed>>
service == <<active, total>>
vars == <<plan, local, onNodes, answer, files, service, disturbed>>

Planned == DOMAIN plan
NodesOf(x) == IF plan[x].ranks = "all" THEN Nodes ELSE {CHOOSE n \in Nodes : TRUE}
Benches == {x \in Planned : \E n \in Nodes : "bench" \in procs[x][n]}

Init ==
    /\ plan \in Plans
    /\ pc = [x \in Runs |-> "idle"]
    /\ seen = [x \in Runs |-> 0]
    /\ prior = [x \in Runs |-> x]
    /\ round = [x \in Runs |-> 1]
    /\ remote = [x \in Runs |-> [n \in Nodes |-> "none"]]
    /\ answer = [x \in Runs |-> [n \in Nodes |-> "none"]]
    /\ procs = [x \in Runs |-> [n \in Nodes |-> {}]]
    /\ files = [d \in Dirs |-> {}]
    /\ active \in 0..1 /\ total = 0
    /\ disturbed = {} /\ killed = {}

-----------------------------------------------------------------------------
(* The script.                                                             *)

Goto(x, l) == pc' = [pc EXCEPT ![x] = l]
Save(x, fs) == files' = [files EXCEPT ![plan[x].dir] = @ \cup {<<x, f>> : f \in fs}]

Send(x) ==
    /\ remote' = [remote EXCEPT ![x] = [n \in Nodes |-> IF n \in NodesOf(x) THEN "sent" ELSE "none"]]
    /\ answer' = [answer EXCEPT ![x] = [n \in Nodes |-> "none"]]

\* Reads the metrics; with a request in progress the run ends here.
Look(x) ==
    /\ pc[x] = "idle"
    /\ seen' = [seen EXCEPT ![x] = total]
    /\ Goto(x, IF plan[x].idle /\ active > 0 THEN "failed" ELSE "looked")
    /\ \E y \in {x} \cup {z \in Planned : plan[x].prior /\ plan[z].prior /\ pc[z] \in {"passed", "failed"}} :
           prior' = [prior EXCEPT ![x] = y]
    /\ UNCHANGED <<plan, round, onNodes, answer, files, service, disturbed>>

\* Seeded fault: exist_ok=True.
MakeDir_ExistOk(x) ==
    /\ pc[x] = "looked"
    /\ Goto(x, "remote") /\ Save(x, {"manifest"}) /\ Send(x)
    /\ UNCHANGED <<plan, seen, prior, round, procs, killed, service, disturbed>>

\* mkdir does not take a directory that exists (exist_ok=False).
MakeDir(x) ==
    /\ pc[x] = "looked"
    /\ IF files[plan[x].dir] # {}
       THEN Goto(x, "failed") /\ UNCHANGED <<remote, answer, files>>
       ELSE Goto(x, "remote") /\ Save(x, {"manifest"}) /\ Send(x)
    /\ UNCHANGED <<plan, seen, prior, round, procs, killed, service, disturbed>>

\* The timeout of the ssh of node n.
GiveUp(x, n) ==
    /\ pc[x] = "remote" /\ n \in NodesOf(x) /\ answer[x][n] = "none"
    /\ answer' = [answer EXCEPT ![x][n] = "lost"]
    /\ UNCHANGED <<plan, local, onNodes, files, service, disturbed>>

\* All ssh processes have ended.  To most scripts an ssh that timed out is the
\* end; those on all nodes that write statuses first go on to their verdict.
Collect(x) ==
    LET heard == {answer[x][n] : n \in NodesOf(x)}
        catches == plan[x].early /\ plan[x].ranks = "all"
        last == round[x] = plan[x].rounds
    IN
    /\ pc[x] = "remote" /\ "none" \notin heard
    /\ \/ /\ heard = {"ok"} /\ ~last
          /\ round' = [round EXCEPT ![x] = @ + 1]
          /\ Send(x) /\ Save(x, {"log"})
          /\ UNCHANGED pc
       \/ /\ \/ heard = {"ok"} /\ last
             \/ heard # {"ok"} /\ plan[x].early /\ (catches \/ "lost" \notin heard)
          /\ Goto(x, IF plan[x].scan = "later" THEN "scan" ELSE "after")
          /\ Save(x, IF plan[x].early THEN {"log", "result"} ELSE {"log"})
          /\ UNCHANGED <<round, remote, answer>>
       \/ /\ heard # {"ok"} /\ ~catches
          /\ Goto(x, "failed")
          /\ Save(x, IF heard = {"lost"} THEN {} ELSE {"log"})
          /\ UNCHANGED <<round, remote, answer>>
    /\ UNCHANGED <<plan, seen, prior, procs, killed, service, disturbed>>

\* Looks for processes with its mark on every node; it may not get through to some.
Scan(x) ==
    /\ pc[x] = "scan"
    /\ \E cut \in SUBSET NodesOf(x) :
           answer' = [answer EXCEPT ![x] =
               [n \in Nodes |-> IF n \in cut \/ procs[x][n] # {} THEN "bad" ELSE @[n]]]
    /\ Goto(x, "after")
    /\ UNCHANGED <<plan, seen, prior, round, onNodes, files, service, disturbed>>

\* Seeded fault: looks at the gauges only.
Unchanged_Gauges(x) == active = 0

\* The service has served nothing meanwhile, by its metrics.
Unchanged(x) == active = 0 /\ total = seen[x]

After(x) ==
    LET good == /\ \A n \in NodesOf(x) : answer[x][n] = "ok"
                /\ plan[x].quiet => Unchanged(x)
    IN
    /\ pc[x] = "after"
    /\ Goto(x, IF good THEN "passed" ELSE "failed")
    /\ Save(x, IF good \/ plan[x].early THEN {"result"} ELSE {})
    /\ UNCHANGED <<plan, seen, prior, round, onNodes, answer, service, disturbed>>

-----------------------------------------------------------------------------
(* The program on a node.                                                  *)

Reply(x, n, a) == answer' = [answer EXCEPT ![x][n] = IF @ = "none" THEN a ELSE @]

\* The command arrives, perhaps long after the script has given up.
Begin(x, n) ==
    /\ remote[x][n] = "sent"
    /\ IF prior[x] # x /\ procs[prior[x]][n] # {}
       THEN /\ remote' = [remote EXCEPT ![x][n] = "over"]
            /\ Reply(x, n, "bad")
            /\ UNCHANGED <<procs, disturbed>>
       ELSE /\ remote' = [remote EXCEPT ![x][n] = "running"]
            /\ procs' = [procs EXCEPT ![x][n] = @ \cup {"bench"}]
            /\ disturbed' = IF active > 0 THEN disturbed \cup {x} ELSE disturbed
            /\ UNCHANGED answer
    /\ UNCHANGED <<plan, local, killed, files, service>>

\* A child in a session of its own.
Fork(x, n) ==
    /\ remote[x][n] = "running" /\ "bench" \in procs[x][n]
    /\ procs' = [procs EXCEPT ![x][n] = @ \cup {"child"}]
    /\ UNCHANGED <<plan, local, remote, killed, answer, files, service, disturbed>>

BenchEnds(x, n) ==
    /\ remote[x][n] = "running"
    /\ \E r \in {"ok", "bad"} : remote' = [remote EXCEPT ![x][n] = r]
    /\ procs' = [procs EXCEPT ![x][n] = @ \ {"bench"}]
    /\ UNCHANGED <<plan, local, killed, answer, files, service, disturbed>>

\* Seeded fault: signals the group of the program, as killpg does.
Stopped_Group(ps) == ps \ {"bench"}

\* stop_owned: TERM, then KILL, to whatever bears the mark.
Stopped(ps) == IF ps = {} THEN {} ELSE {"dying"}

\* timeout(1) ends the program and its group; Owned, all that bears the mark.
TimeLimit(x, n) ==
    /\ remote[x][n] = "running"
    /\ remote' = [remote EXCEPT ![x][n] = "bad"]
    /\ procs' = [procs EXCEPT ![x][n] = IF plan[x].limit = "owned" THEN Stopped(@) ELSE @ \ {"bench"}]
    /\ UNCHANGED <<plan, local, killed, answer, files, service, disturbed>>

\* Seeded fault: the exit code of the program is all that counts.
Looks_Owned(x) == plan[x].limit = "owned"

\* Whether the node itself looks for what the program has left.
Looks(x) == plan[x].scan = "self" \/ plan[x].limit = "owned"

Report(x, n) ==
    /\ remote[x][n] \in {"ok", "bad"}
    /\ Reply(x, n, IF remote[x][n] = "ok" /\ (Looks(x) => procs[x][n] = {}) THEN "ok" ELSE "bad")
    /\ remote' = [remote EXCEPT ![x][n] = "over"]
    /\ procs' = [procs EXCEPT ![x][n] = IF plan[x].limit = "owned" THEN Stopped(@) ELSE @]
    /\ UNCHANGED <<plan, local, killed, files, service, disturbed>>

-----------------------------------------------------------------------------
(* What the scripts do not control.                                        *)

Dies(x, n) ==
    /\ "dying" \in procs[x][n]
    /\ procs' = [procs EXCEPT ![x][n] = @ \ {"dying"}]
    /\ UNCHANGED <<plan, local, remote, killed, answer, files, service, disturbed>>

ChildEnds(x, n) ==
    /\ "child" \in procs[x][n]
    /\ procs' = [procs EXCEPT ![x][n] = @ \ {"child"}]
    /\ UNCHANGED <<plan, local, remote, killed, answer, files, service, disturbed>>

\* The script is killed; its programs are not.
Kill(x) ==
    /\ pc[x] \notin {"idle", "passed", "failed"}
    /\ Goto(x, "failed")
    /\ UNCHANGED <<plan, seen, prior, round, onNodes, answer, files, service, disturbed>>

\* The program's parent on the node is killed; what it started is not.
KillRemote(x, n) ==
    /\ remote[x][n] \in {"running", "ok", "bad"} /\ x \notin killed
    /\ remote' = [remote EXCEPT ![x][n] = "over"]
    /\ Reply(x, n, "bad")
    /\ killed' = killed \cup {x}
    /\ UNCHANGED <<plan, local, procs, files, service, disturbed>>

RequestBegins ==
    /\ active = 0 /\ total < MaxRequests
    /\ active' = 1
    /\ disturbed' = disturbed \cup Benches
    /\ UNCHANGED <<plan, local, onNodes, answer, files, total>>

RequestEnds ==
    /\ active = 1
    /\ active' = 0 /\ total' = total + 1
    /\ UNCHANGED <<plan, local, onNodes, answer, files, disturbed>>

-----------------------------------------------------------------------------
Script(x) == Look(x) \/ MakeDir(x) \/ Collect(x) \/ Scan(x) \/ After(x)
Node(x, n) == Begin(x, n) \/ TimeLimit(x, n) \/ Report(x, n) \/ Dies(x, n)

Next ==
    \/ RequestBegins \/ RequestEnds
    \/ \E x \in Planned :
           \/ Script(x) \/ Kill(x)
           \/ \E n \in NodesOf(x) :
                  \/ Node(x, n) \/ GiveUp(x, n) \/ Fork(x, n) \/ BenchEnds(x, n)
                  \/ ChildEnds(x, n) \/ KillRemote(x, n)

\* Time limits, steps of a live program and death by KILL do not wait for
\* ever.  Nothing makes a program end by itself, or a child, or a request.
Fairness ==
    \A x \in Runs :
        /\ WF_vars(x \in Planned /\ pc[x] # "idle" /\ Script(x))
        /\ \A n \in Nodes : /\ WF_vars(x \in Planned /\ GiveUp(x, n))
                           /\ WF_vars(x \in Planned /\ Node(x, n))

Spec == Init /\ [][Next]_vars /\ Fairness
-----------------------------------------------------------------------------
Found == {"bench", "child", "dying"}
Over(x) == pc[x] \in {"passed", "failed"}
TypeOK ==
    /\ plan \in Plans /\ Planned \subseteq Runs
    /\ pc \in [Runs -> {"idle", "looked", "remote", "scan", "after", "passed", "failed"}]
    /\ prior \in [Runs -> Runs]
    /\ remote \in [Runs -> [Nodes -> {"none", "sent", "running", "ok", "bad", "over"}]]
    /\ answer \in [Runs -> [Nodes -> {"none", "ok", "bad", "lost"}]]
    /\ procs \in [Runs -> [Nodes -> SUBSET Found]]
    /\ files \in [Dirs -> SUBSET (Runs \X {"manifest", "log", "result"})]
    /\ active \in 0..1 /\ total \in 0..MaxRequests
    /\ disturbed \subseteq Planned /\ killed \subseteq Planned

\* A measurement that is accepted was not taken beside a request: one that
\* began after the look at the metrics and ended before the second one shows
\* in the total, one that is not over in the gauges.
AcceptedQuiet == \A x \in Planned : pc[x] = "passed" /\ plan[x].quiet => x \notin disturbed

\* Nothing of an accepted experiment is left, wherever it was killed, however
\* late its commands came and whatever it forked: no process that bears its
\* mark on any node, and no command on its way there.
AcceptedClean ==
    \A x \in Planned, n \in Nodes :
        pc[x] = "passed" /\ plan[x].scan # "none" =>
            procs[x][n] = {} /\ remote[x][n] \in {"none", "over"}

\* The evidence in a directory is of one run, though runs may be given the same
\* directory or begin again after a failure; and where the result is what the
\* script writes last, a directory with a result is of an accepted run.
EvidenceOwn ==
    /\ TypeOK
    /\ \A d \in Dirs, e, f \in UNION {files[b] : b \in Dirs} :
           /\ e \in files[d] /\ f \in files[d] => e[1] = f[1]
           /\ e[2] = "result" /\ ~plan[e[1]].early => pc[e[1]] = "passed"

\* In the end every script that was begun is over, whatever became of its
\* programs, and so is every program, also one whose command came too late;
\* and what the programs of the Owned scripts forked is gone with them. Except
\* for programs whose parent on the node was killed.
Settled(x) ==
    /\ Over(x)
    /\ x \in killed \/ \A n \in Nodes :
           "bench" \notin procs[x][n] /\ (plan[x].limit = "owned" => procs[x][n] = {})
Freed == <>[](\A x \in Planned : pc[x] # "idle" => Settled(x))
=============================================================================
