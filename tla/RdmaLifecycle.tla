--------------------------- MODULE RdmaLifecycle ---------------------------
(***************************************************************************)
(* cpu_rdma_create and cpu_rdma_destroy of tools/cpu_rdma_transport.c.     *)
(* Create takes verbs resources one after the other, exchanges endpoints   *)
(* through a TCP listener of rank 0, connects its queue pairs and passes a *)
(* barrier; any failure, or the deadline, leads to destroy, which gives    *)
(* the resources back in an order that never leaves a queue pair without   *)
(* its memory, and which can fail and be called again.                     *)
(*                                                                         *)
(* A process is <<run, rank>>.  All runs use one address and port, so that *)
(* processes of an earlier run may still be about.                         *)
(***************************************************************************)
EXTENDS Naturals, Sequences

CONSTANTS Procs,    \* the processes, a set of pairs
          Ranks,    \* the ranks of a group; 0 is the master
          Nobody

ASSUME RanksAssumption == 0 \in Ranks
ASSUME ProcsAssumption == /\ \A p \in Procs : p = <<p[1], p[2]>> /\ p[2] \in Ranks
                          /\ Nobody \notin Procs

VARIABLES
    pc,         \* pc[p]: the step of create or destroy, or how it returned
    held,       \* held[p]: verbs resources taken and not given back
    listening,  \* the process whose listener has the port, or Nobody
    conn,       \* conn[p]: the master whose backlog or socket has p, or Nobody
    table,      \* table[p]: endpoints, a process or Nobody for each rank
    sent,       \* workers the table was sent to
    connected,  \* processes whose queue pairs were ready to send and receive
    arrived,    \* workers whose barrier value is on its way to the master
    released,   \* workers whose barrier answer is on its way to them
    orderly     \* nothing fails and nothing is destroyed: chosen once, to ask
                \* what the handshake does when nothing goes wrong

tcpVars == <<listening, conn, table, sent, arrived, released, orderly>>
vars == <<pc, held, connected, tcpVars>>

RunOf(p) == p[1]
RankOf(p) == p[2]
IsMaster(p) == RankOf(p) = 0

\* In the order in which setup takes them; "qp" stands for one or more.
Resources == <<"device", "pd", "cq", "mr", "qp">>
Taken(n) == {Resources[k] : k \in 1..n}

Creating == {"setup", "bootstrap", "accept", "spread", "table", "connect", "barrier",
             "release", "check"}

\* Not every process is there.
Init == /\ pc \in [Procs -> {"setup", "gone"}]
        /\ held = [p \in Procs |-> {}]
        /\ listening = Nobody
        /\ conn = [p \in Procs |-> Nobody]
        /\ table = [p \in Procs |-> [r \in Ranks |-> IF r = RankOf(p) THEN p ELSE Nobody]]
        /\ sent = {} /\ connected = {} /\ arrived = {} /\ released = {}
        /\ orderly \in BOOLEAN
-----------------------------------------------------------------------------
Goto(p, here, there) == /\ pc[p] = here
                        /\ pc' = [pc EXCEPT ![p] = there]

\* setup up to the handshake; receives are posted on every queue pair.
Setup(p) == /\ Goto(p, "setup", "bootstrap")
            /\ held' = [held EXCEPT ![p] = Taken(5)]
            /\ UNCHANGED <<tcpVars, connected>>

-----------------------------------------------------------------------------
(***************************************************************************)
(* cpu_rdma_destroy, called by a create that fails, by the owner of a      *)
(* ready context, or again on a context that could not be destroyed.  What *)
(* it does is local to the process, and one step.                          *)
(***************************************************************************)

ClosePort(p) == listening' = IF listening = p THEN Nobody ELSE listening

\* Everything has gone: sockets are closed, the context is freed, and the
\* caller may free the arena.
Vanish(p) == /\ pc' = [pc EXCEPT ![p] = "gone"]
             /\ held' = [held EXCEPT ![p] = {}]
             /\ ClosePort(p)
             /\ UNCHANGED <<conn, table, sent, connected, arrived, released, orderly>>

\* Some of it cannot be given back: the context is retained, after a failed
\* create in *out, and its sockets stay open.
Retain(p, left) == /\ pc' = [pc EXCEPT ![p] = "retained"]
                   /\ held' = [held EXCEPT ![p] = left]
                   /\ UNCHANGED <<tcpVars, connected>>

\* Seeded fault: a context that could not be destroyed is not handed out.
GiveBack_Dropped(p, some) ==
    \/ Vanish(p)
    \/ \E n \in 1..5 : /\ Taken(n) \subseteq some
                       /\ pc' = [pc EXCEPT ![p] = "gone"]
                       /\ held' = [held EXCEPT ![p] = Taken(n)]
                       /\ UNCHANGED <<tcpVars, connected>>

\* Queue pairs, memory region, completion queue, domain, device: the call ends
\* at the first of some that cannot be given back.
GiveBack(p, some) ==
    Vanish(p) \/ \E n \in 1..5 : Taken(n) \subseteq some /\ Retain(p, Taken(n))

Destroy(p) == ~orderly /\ pc[p] \in {"ready", "retained"} /\ GiveBack(p, held[p])

\* The process ends: the kernel gives everything back.
Exit(p) == ~orderly /\ pc[p] # "gone" /\ Vanish(p)

SetupFails(p) == ~orderly /\ pc[p] = "setup" /\ \E n \in 0..5 : GiveBack(p, Taken(n))

\* The deadline, a TCP or verbs error, a peer that has gone, a port in use.
Fail(p) == ~orderly /\ pc[p] \in Creating \ {"setup"} /\ GiveBack(p, held[p])
-----------------------------------------------------------------------------
(***************************************************************************)
(* bootstrap.                                                              *)
(***************************************************************************)

\* Seeded fault: the run of an endpoint is not compared.
Valid_AnyRun(p, q, r) == q # Nobody /\ RankOf(q) = r

\* valid_endpoint: q is an endpoint of rank r in the run of p.
Valid(p, q, r) == q # Nobody /\ RankOf(q) = r /\ RunOf(q) = RunOf(p)

\* Bind and listen, if the port is free.
Listen(p) == /\ IsMaster(p) /\ listening = Nobody
             /\ Goto(p, "bootstrap", "accept")
             /\ listening' = p
             /\ UNCHANGED <<held, conn, table, sent, connected, arrived, released, orderly>>

\* Seeded fault: the connection is tried once.
Connect_Once(p) ==
    /\ ~IsMaster(p)
    /\ Goto(p, "bootstrap", IF listening = Nobody THEN "gone" ELSE "table")
    /\ conn' = [conn EXCEPT ![p] = listening]
    /\ UNCHANGED <<held, listening, table, sent, connected, arrived, released, orderly>>

\* Connect to whoever listens, and send the endpoint.
Connect(p) == /\ ~IsMaster(p) /\ listening # Nobody
              /\ Goto(p, "bootstrap", "table")
              /\ conn' = [conn EXCEPT ![p] = listening]
              /\ UNCHANGED <<held, listening, table, sent, connected, arrived, released, orderly>>

Full(t) == \A r \in Ranks : t[r] # Nobody

\* The next connection of the backlog brings an endpoint.
Acceptable(m, p) == table[m][RankOf(p)] = Nobody /\ Valid(m, p, RankOf(p))

Accept(m, p) == /\ conn[p] = m /\ Acceptable(m, p)
                /\ Goto(m, "accept", "accept")
                /\ table' = [table EXCEPT ![m][RankOf(p)] = p]
                /\ UNCHANGED <<held, listening, conn, sent, connected, arrived, released, orderly>>

\* One that is not valid, or has a rank that is there already, ends the create.
Reject(m, p) == /\ pc[m] = "accept" /\ ~Full(table[m])
                /\ conn[p] = m /\ p # table[m][RankOf(p)] /\ ~Acceptable(m, p)
                /\ GiveBack(m, held[m])

AllAccepted(m) == /\ Full(table[m])
                  /\ Goto(m, "accept", "spread")
                  /\ UNCHANGED <<held, tcpVars, connected>>

Workers(m) == {table[m][r] : r \in Ranks} \ {m}

Spread(m, p) == /\ pc[m] = "spread" /\ p \in Workers(m) \ sent
                /\ sent' = sent \union {p}
                /\ UNCHANGED <<pc, held, listening, conn, table, connected, arrived, released, orderly>>

\* Every rank looks at the whole table once more.
Checked(p, t) == \A r \in Ranks : Valid(p, t[r], r)

\* The master closes its listener.
SpreadDone(m) == /\ Workers(m) \subseteq sent /\ Checked(m, table[m])
                 /\ Goto(m, "spread", "connect")
                 /\ listening' = Nobody
                 /\ UNCHANGED <<held, conn, table, sent, connected, arrived, released, orderly>>

ReceiveTable(p) == /\ p \in sent /\ Checked(p, table[conn[p]])
                   /\ Goto(p, "table", "connect")
                   /\ table' = [table EXCEPT ![p] = table[conn[p]]]
                   /\ UNCHANGED <<held, listening, conn, sent, connected, arrived, released, orderly>>
-----------------------------------------------------------------------------
\* RTR and RTS on each queue pair.
ConnectQueuePairs(p) == /\ Goto(p, "connect", "barrier")
                        /\ connected' = connected \union {p}
                        /\ UNCHANGED <<held, tcpVars>>

\* barrier: the workers send and wait.
Arrive(p) == /\ ~IsMaster(p) /\ Goto(p, "barrier", "release")
             /\ arrived' = arrived \union {p}
             /\ UNCHANGED <<held, listening, conn, table, sent, connected, released, orderly>>

\* Seeded fault: the master answers the first value it receives.
Collect_Any(m) == /\ IsMaster(m) /\ Workers(m) \intersect arrived # {}
                  /\ Goto(m, "barrier", "release")
                  /\ UNCHANGED <<held, tcpVars, connected>>

\* barrier: the master has received the value of every worker, and answers.
Collect(m) == /\ IsMaster(m) /\ Workers(m) \subseteq arrived
              /\ Goto(m, "barrier", "release")
              /\ UNCHANGED <<held, tcpVars, connected>>

Release(m, p) == /\ IsMaster(m) /\ pc[m] = "release" /\ p \in Workers(m) \ released
                 /\ released' = released \union {p}
                 /\ UNCHANGED <<pc, held, listening, conn, table, sent, connected, arrived, orderly>>

Released(p) == /\ IF IsMaster(p) THEN Workers(p) \subseteq released ELSE p \in released
               /\ Goto(p, "release", "check")
               /\ UNCHANGED <<held, tcpVars, connected>>

\* The deadline has not passed: create returns CPU_RDMA_OK.
Ready(p) == /\ Goto(p, "check", "ready")
            /\ UNCHANGED <<held, tcpVars, connected>>
-----------------------------------------------------------------------------
Create(p) == \/ Setup(p) \/ Listen(p) \/ Connect(p) \/ AllAccepted(p) \/ SpreadDone(p)
             \/ ReceiveTable(p) \/ ConnectQueuePairs(p) \/ Arrive(p) \/ Collect(p)
             \/ Released(p) \/ Ready(p)
             \/ \E q \in Procs : Accept(p, q) \/ Reject(p, q) \/ Spread(p, q) \/ Release(p, q)

Next == \E p \in Procs : \/ Create(p) \/ SetupFails(p) \/ Fail(p)
                         \/ Destroy(p) \/ Exit(p)

\* When nothing fails the processes run on and the sockets deliver: a step
\* follows as long as any process has one.
Spec == /\ Init /\ [][Next]_vars
        /\ WF_vars(orderly /\ \E p \in Procs : Create(p))
-----------------------------------------------------------------------------
\* Every variable has its type.
TypeOK ==
    /\ pc \in [Procs -> Creating \union {"ready", "retained", "gone"}]
    /\ held \in [Procs -> SUBSET Taken(5)]
    /\ listening \in Procs \union {Nobody} /\ conn \in [Procs -> Procs \union {Nobody}]
    /\ table \in [Procs -> [Ranks -> Procs \union {Nobody}]]
    /\ sent \subseteq Procs /\ connected \subseteq Procs
    /\ arrived \subseteq Procs /\ released \subseteq Procs /\ orderly \in BOOLEAN

\* Only processes of one run are ever connected, one for each rank, and all of
\* them to the same ones, whoever else reached the port of the master.
OneGroup ==
    /\ TypeOK
    /\ \A p \in connected : /\ \A r \in Ranks : /\ RankOf(table[p][r]) = r
                                                /\ RunOf(table[p][r]) = RunOf(p)
                            /\ \A q \in connected :
                                  RunOf(q) = RunOf(p) => table[q] = table[p]

\* When create returns on one rank, the queue pairs of all ranks can receive:
\* the first write of a fast rank finds its peer connected.
ReadyMeansConnected ==
    \A p \in Procs : pc[p] = "ready" => \A r \in Ranks : table[p][r] \in connected

\* "Never deregister/free while a QP still exists" (cpu_rdma_transport.c:310), and
\* "non-NULL on failure means cleanup was incomplete" (cpu_rdma_transport.h:53):
\* through failed creates, failed destroys and retries the memory outlives the
\* queue pairs, and a process that holds no context any more has left nothing.
NothingLeaked ==
    \A p \in Procs : /\ "qp" \in held[p] => "mr" \in held[p]
                     /\ pc[p] = "gone" => held[p] = {} /\ listening # p

\* The processes that are there are one whole group.
Running == {p \in Procs : pc[p] # "gone"}
Alone == /\ \A p, q \in Running : RunOf(p) = RunOf(q)
         /\ {RankOf(p) : p \in Running} = Ranks

\* Without a failure, and without strangers, the whole group gets ready in
\* whatever order its processes start.
AllReady == orderly /\ Alone ~> \A p \in Running : pc[p] = "ready"
=============================================================================
