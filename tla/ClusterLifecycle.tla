-------------------------- MODULE ClusterLifecycle --------------------------
(***************************************************************************)
(* Starting and stopping the service on all nodes: coordinators            *)
(* (scripts/native/cluster.py) send actions over SSH to the nodes          *)
(* (scripts/native/node_runtime.py).  A coordinator that gives up on an    *)
(* SSH call kills the client; what the node does with the command is       *)
(* another matter.  A start that fails anywhere is rolled back everywhere. *)
(*                                                                         *)
(* A run is named by the coordinator that started it.  On a node a run has *)
(* a launcher, the podman exec on the host, and inference processes in the *)
(* container; internal_stop waits long enough (1.5 quiet seconds) for an   *)
(* exec that was under way when its launcher was stopped.                  *)
(***************************************************************************)
EXTENDS Naturals, FiniteSets

CONSTANTS Nodes, Coordinators,
          Jobs,     \* what the coordinators are asked to do
          Flaky,    \* bound: those that may lose a connection or be killed
          Nothing

ASSUME JobsAssumption == Jobs \subseteq {"start", "stop", "restart"}
ASSUME NothingAssumption ==
           Nothing \notin {"preflight", "start", "stop", "cleanup"} \X Coordinators

VARIABLES
    late,       \* <<c, n>>: n began the start of c, who had given up on it, after the
                \* cleanup of c there
    orphans,    \* orphans[n]: runs that lost their launcher between the two looks of a
                \* start at n, and have left processes behind that it did not find
    job,        \* job[c]: "start", "stop" or "restart"
    pc,         \* pc[c]: the stage of c, or how it ended
    seen,       \* seen[c]: nodes that answered the current status round
    lacking,    \* lacking[c]: nodes that left c without an answer, or without processes
    session,    \* session[k][c][n]: the command of kind k from c at n; "uncertain" when
                \* nobody waits for it any more and the node has not begun it; "looked"
                \* when it has the lock and found no inference process
    lock,       \* lock[n]: who holds the flock of the node, <<k, c>> or Nothing
    file,       \* file[n]: the run in rankN.json, or Nothing
    launcher,   \* launcher[n]: runs with a live launcher
    procs       \* procs[n]: runs with inference processes

coordVars == <<job, pc, seen, lacking>>
nodeVars == <<lock, file, launcher, procs>>
history == <<late, orphans>>
vars == <<history, coordVars, session, nodeVars>>

Kinds == {"preflight", "start", "stop", "cleanup"}
\* "over": a stop that is done, a refusal, an incomplete rollback, a dead coordinator.
Ended == {"ready", "rolled back", "over"}
Finished == {"ok", "failed"}
Holding == {"looked", "locked"}

\* The first stage; restart validates every node before ensure_idle, and may fail.
First(j) == IF j = "start" THEN "preflight" ELSE "idle"

Init == /\ late = {} /\ orphans = [n \in Nodes |-> {}]
        /\ job \in [Coordinators -> Jobs]
        /\ pc = [c \in Coordinators |-> First(job[c])]
        /\ seen = [c \in Coordinators |-> {}] /\ lacking = [c \in Coordinators |-> {}]
        /\ session = [k \in Kinds |-> [c \in Coordinators |-> [n \in Nodes |->
                           IF k = First(job[c]) THEN "sent" ELSE "none"]]]
        /\ lock = [n \in Nodes |-> Nothing] /\ file = [n \in Nodes |-> Nothing]
        /\ launcher = [n \in Nodes |-> {}] /\ procs = [n \in Nodes |-> {}]
-----------------------------------------------------------------------------
(***************************************************************************)
(* The coordinator.                                                        *)
(***************************************************************************)

\* An earlier command when its coordinator enters a stage: the answer is done with,
\* and one that is over waits for none.
Onward(state, stage) == IF state \in Finished THEN "none"
                        ELSE IF state = "sent" /\ stage = "over" THEN "uncertain"
                        ELSE state

\* The commands of c when it enters a stage: all_nodes sends those of the stage to
\* every node at once.
Commands(c, stage) ==
    [k \in Kinds |-> [session[k] EXCEPT ![c] =
        [n \in Nodes |-> IF k = stage THEN "sent" ELSE Onward(@[n], stage)]]]

\* To another stage.
Enter(c, stage) ==
    /\ pc' = [pc EXCEPT ![c] = stage]
    /\ seen' = [seen EXCEPT ![c] = {}] /\ lacking' = [lacking EXCEPT ![c] = {}]
    /\ session' = Commands(c, stage)
    /\ UNCHANGED <<history, job, nodeVars>>

\* ensure_idle: the gauges say that nothing is running, or the stop is refused.
CheckIdle(c) == pc[c] = "idle" /\ (Enter(c, "stop") \/ Enter(c, "over"))

\* The timeout of subprocess.run, Ctrl-C, or the connection breaks.
GiveUp(c, n) ==
    LET k == pc[c] IN
    /\ c \in Flaky /\ k \in Kinds /\ n \notin lacking[c]
    /\ session[k][c][n] \notin Finished
    /\ lacking' = [lacking EXCEPT ![c] = @ \union {n}]
    /\ session' = [session EXCEPT ![k][c][n] = IF @ = "sent" THEN "uncertain" ELSE @]
    /\ UNCHANGED <<history, job, pc, seen, nodeVars>>

\* Seeded fault: all_nodes raises at the first error.
Answered_First(c) == \/ \E n \in Nodes : n \in lacking[c] \/ session[pc[c]][c][n] = "failed"
                     \/ \A n \in Nodes : session[pc[c]][c][n] = "ok"

\* all_nodes waits for every answer or timeout before it raises.
Answered(c) == \A n \in Nodes : n \in lacking[c] \/ session[pc[c]][c][n] \in Finished
AllOk(c) == lacking[c] = {} /\ \A n \in Nodes : session[pc[c]][c][n] = "ok"

StopAnswered(c) ==
    /\ pc[c] = "stop" /\ Answered(c)
    /\ Enter(c, IF AllOk(c) /\ job[c] = "restart" THEN "preflight" ELSE "over")

\* Every node must be ready before any start.
PreflightAnswered(c) == /\ pc[c] = "preflight" /\ Answered(c)
                        /\ Enter(c, IF AllOk(c) THEN "start" ELSE "over")

StartAnswered(c) == /\ pc[c] = "start" /\ Answered(c)
                    /\ Enter(c, IF AllOk(c) THEN "watch" ELSE "cleanup")

CleanupAnswered(c) == /\ pc[c] = "cleanup" /\ Answered(c)
                      /\ Enter(c, IF AllOk(c) THEN "rolled back" ELSE "over")

\* status on one node: the run's launcher must be alive.
Status(c, n) ==
    /\ pc[c] = "watch" /\ n \notin seen[c]
    /\ IF file[n] = c /\ c \in launcher[n]
       THEN /\ seen' = [seen EXCEPT ![c] = @ \union {n}]
            /\ lacking' = [lacking EXCEPT ![c] = IF c \in procs[n] THEN @ ELSE @ \union {n}]
            /\ UNCHANGED <<history, job, pc, session, nodeVars>>
       ELSE Enter(c, "cleanup")

\* A round is complete: the API answers and every node has processes, or there is another.
Ready(c) == /\ pc[c] = "watch" /\ seen[c] = Nodes
            /\ (lacking[c] = {} /\ Enter(c, "ready")) \/ Enter(c, "watch")

\* A failed status call, the deadline, or Ctrl-C.
Interrupt(c) == pc[c] = "watch" /\ Enter(c, "cleanup")

Killed(c) == c \in Flaky /\ pc[c] \notin Ended /\ Enter(c, "over")
-----------------------------------------------------------------------------
(***************************************************************************)
(* The node.                                                               *)
(***************************************************************************)

\* The coordinator that is gone, or gave up, does not get to know the answer.
Awaited(k, c, n) == pc[c] = k /\ n \notin lacking[c]
Become(k, c, n, state) ==
    session' = [session EXCEPT ![k][c][n] =
                    IF state \in Finished /\ ~Awaited(k, c, n) THEN "none" ELSE state]
Arrives(k, c, n) == session[k][c][n] \in {"sent", "uncertain"}
Unlock(n) == lock' = [lock EXCEPT ![n] = Nothing]

\* The command never gets to the node, or is refused before it takes the lock,
\* or because another one, if only a preflight, has the lock.
Refuse(k, c, n) == /\ Arrives(k, c, n)
                   /\ Become(k, c, n, "failed")
                   /\ UNCHANGED <<history, coordVars, nodeVars>>

\* The cleanup of c at n is over.
CleanedUp(c, n) == \/ pc[c] = "cleanup" /\ session["cleanup"][c][n] = "ok"
                   \/ pc[c] = "rolled back"

\* preflight and start take the lock without waiting and look for processes first.
BeginLook(k, c, n) ==
    /\ Arrives(k, c, n) /\ lock[n] = Nothing /\ procs[n] = {}
    /\ lock' = [lock EXCEPT ![n] = <<k, c>>]
    /\ Become(k, c, n, "looked")
    /\ late' = IF k = "start" /\ CleanedUp(c, n) /\ session["start"][c][n] = "uncertain"
               THEN late \union {<<c, n>>} ELSE late
    /\ UNCHANGED <<orphans, coordVars, file, launcher, procs>>

\* Later they look for a pending launcher.
Pending(n) == file[n] \in launcher[n]

PreflightOk(c, n) == /\ session["preflight"][c][n] = "looked" /\ ~Pending(n)
                     /\ Become("preflight", c, n, "ok")
                     /\ Unlock(n)
                     /\ UNCHANGED <<history, coordVars, file, launcher, procs>>

\* Seeded fault: a start does not look for one.
Launch_Pending(c, n) == /\ session["start"][c][n] = "looked"
                        /\ launcher' = [launcher EXCEPT ![n] = @ \union {c}]
                        /\ file' = [file EXCEPT ![n] = c]
                        /\ Become("start", c, n, "locked")
                        /\ UNCHANGED <<history, coordVars, lock, procs>>

\* start goes on: Popen and the state files.
Launch(c, n) == /\ session["start"][c][n] = "looked" /\ ~Pending(n)
                /\ launcher' = [launcher EXCEPT ![n] = @ \union {c}]
                /\ file' = [file EXCEPT ![n] = c]
                /\ Become("start", c, n, "locked")
                /\ UNCHANGED <<history, coordVars, lock, procs>>

\* There is one, or something else is wrong.
LookFails(k, c, n) == /\ session[k][c][n] = "looked"
                      /\ Become(k, c, n, "failed")
                      /\ Unlock(n)
                      /\ UNCHANGED <<history, coordVars, file, launcher, procs>>

\* stop and cleanup: the launcher goes first, which may fail.
BeginStop(k, c, n) ==
    /\ Arrives(k, c, n) /\ lock[n] = Nothing
    /\ lock' = [lock EXCEPT ![n] = <<k, c>>]
    /\ Become(k, c, n, "locked")
    /\ \/ UNCHANGED launcher
       \/ /\ k = "stop" \/ file[n] = c
          /\ launcher' = [launcher EXCEPT ![n] = @ \ {file[n]}]
    /\ UNCHANGED <<history, coordVars, file, procs>>

\* Seeded fault: cleanup without --run-id.
StopEnds_Unscoped(k, c, n) ==
    /\ session[k][c][n] = "locked" /\ k \in {"stop", "cleanup"}
    /\ procs' = [procs EXCEPT ![n] = {}]
    /\ Become(k, c, n, "ok") /\ Unlock(n)
    /\ UNCHANGED <<history, coordVars, file, launcher>>

\* internal_stop has seen no process of its scope for a while.
StopEnds(k, c, n) ==
    LET scope == IF k = "stop" THEN procs[n] ELSE procs[n] \intersect {c} IN
    /\ session[k][c][n] = "locked" /\ k \in {"stop", "cleanup"}
    /\ procs' = [procs EXCEPT ![n] = @ \ scope]
    /\ Become(k, c, n, IF (k = "stop" \/ file[n] = c) /\ file[n] \in launcher[n]
                       THEN "failed" ELSE "ok")
    /\ Unlock(n)
    /\ UNCHANGED <<history, coordVars, file, launcher>>

\* Some of the processes remain.
StopFails(k, c, n) == /\ session[k][c][n] = "locked" /\ k \in {"stop", "cleanup"}
                      /\ \E left \in SUBSET procs[n] :
                            /\ k = "stop" \/ procs[n] \ left \subseteq {c}
                            /\ procs' = [procs EXCEPT ![n] = left]
                      /\ Become(k, c, n, "failed")
                      /\ Unlock(n)
                      /\ UNCHANGED <<history, coordVars, file, launcher>>

StartEnds(c, n) == /\ session["start"][c][n] = "locked" /\ c \in launcher[n]
                   /\ Become("start", c, n, "ok")
                   /\ Unlock(n)
                   /\ UNCHANGED <<history, coordVars, file, launcher, procs>>

\* start: anything else; what was launched is stopped if possible.
StartFails(c, n) ==
    /\ session["start"][c][n] = "locked"
    /\ launcher' = [launcher EXCEPT ![n] = @ \ {c}] \/ UNCHANGED launcher
    /\ procs' = [procs EXCEPT ![n] = @ \ {c}] \/ UNCHANGED procs
    /\ Become("start", c, n, "failed")
    /\ Unlock(n)
    /\ UNCHANGED <<history, coordVars, file>>

\* podman exec creates the processes in the container.
Spawn(c, n) == /\ c \in launcher[n]
               /\ procs' = [procs EXCEPT ![n] = @ \union {c}]
               /\ UNCHANGED <<history, coordVars, session, lock, file, launcher>>

\* The launcher dies, or the service does and the launcher ends with it.
Dies(c, n) ==
    /\ c \in launcher[n] \union procs[n]
    /\ launcher' = [launcher EXCEPT ![n] = @ \ {c}]
    /\ procs' = [procs EXCEPT ![n] = @ \ {c}] \/ UNCHANGED procs
    /\ LET looking == \E d \in Coordinators : session["start"][d][n] = "looked" IN
       orphans' = [orphans EXCEPT
                      ![n] = (IF looking THEN @ \union {c} ELSE @) \intersect procs'[n]]
    /\ UNCHANGED <<late, coordVars, session, lock, file>>
-----------------------------------------------------------------------------
Coordinator(c) == \/ CheckIdle(c) \/ StopAnswered(c) \/ PreflightAnswered(c)
                  \/ StartAnswered(c) \/ CleanupAnswered(c)
                  \/ Ready(c) \/ Interrupt(c) \/ Killed(c)
                  \/ \E n \in Nodes : GiveUp(c, n) \/ Status(c, n)

Node(c, n) == \/ \E k \in {"preflight", "start"} : BeginLook(k, c, n) \/ LookFails(k, c, n)
              \/ PreflightOk(c, n) \/ Launch(c, n) \/ StartEnds(c, n) \/ StartFails(c, n)
              \/ \E k \in {"stop", "cleanup"} : BeginStop(k, c, n)
              \/ \E k \in {"stop", "cleanup"} : StopEnds(k, c, n) \/ StopFails(k, c, n)
              \/ \E k \in Kinds : Refuse(k, c, n)
              \/ Spawn(c, n) \/ Dies(c, n)

Next == \E c \in Coordinators : Coordinator(c) \/ \E n \in Nodes : Node(c, n)

Spec == Init /\ [][Next]_vars
-----------------------------------------------------------------------------
(***************************************************************************)
(* Properties.                                                             *)
(***************************************************************************)

Run == {<<k, c>> : k \in Kinds, c \in Coordinators}

\* Types; the flock of a node is with the one command that is in its locked part,
\* whatever way lifecycle_lock is left.
TypeOK ==
    /\ late \subseteq Coordinators \X Nodes /\ orphans \in [Nodes -> SUBSET Coordinators]
    /\ job \in [Coordinators -> Jobs]
    /\ pc \in [Coordinators -> Kinds \union Ended \union {"idle", "watch"}]
    /\ seen \in [Coordinators -> SUBSET Nodes] /\ lacking \in [Coordinators -> SUBSET Nodes]
    /\ lock \in [Nodes -> Run \union {Nothing}] /\ file \in [Nodes -> Coordinators \union {Nothing}]
    /\ launcher \in [Nodes -> SUBSET Coordinators] /\ procs \in [Nodes -> SUBSET Coordinators]
    /\ \A k \in Kinds, c \in Coordinators, n \in Nodes :
          /\ session[k][c][n] \in Finished \union Holding \union {"none", "sent", "uncertain"}
          /\ session[k][c][n] \in Holding <=> lock[n] = <<k, c>>

\* Two runs never share a node, launcher or processes, whatever coordinators do at
\* once: start refuses a node with a service or a pending launcher.  It looks for
\* processes first and for the launcher later (node_runtime.py:302-303), and what a
\* launcher creates and leaves behind between the two looks escapes both.
OneService == TypeOK /\ \A n \in Nodes :
    Cardinality((launcher[n] \union procs[n]) \ orphans[n]) <= 1

\* A cleanup, and a start that fails, leave every other run on the node alone, while
\* they take the lock and until they release it ("never an inference process which
\* existed before this attempted start").
CleanupScoped ==
    [][\A n \in Nodes : lock'[n] # lock[n] =>
          \A c \in Coordinators, k \in {"start", "cleanup"} :
              <<k, c>> \in {lock[n], lock'[n]}
              => (launcher[n] \union procs[n]) \ {c} \subseteq launcher'[n] \union procs'[n]]_vars

\* A coordinator that reports a failed start, and no incomplete rollback, has left
\* nothing of its run on any node: "Include uncertain SSH outcomes: cleanup matches
\* the new token only" (cluster.py:138).  So it is on every node but one that begins
\* the start only after its cleanup, the coordinator having given up on it before.
RolledBackInTime == \A c \in Coordinators, n \in Nodes :
    pc[c] = "rolled back" /\ c \in launcher[n] \union procs[n] => <<c, n>> \in late
=============================================================================
