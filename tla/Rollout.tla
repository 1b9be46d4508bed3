------------------------------ MODULE Rollout ------------------------------
(***************************************************************************)
(* The tools that switch a file of all nodes between two contents and keep *)
(* what it needs to go back: tools/deploy_*.py, set_*_canonical_config.py, *)
(* gpu_performance_profile.py.  The operator runs one at a time; what an   *)
(* ssh that timed out has sent goes on without it.  Tool t turns content   *)
(* t - 1 into t: tools are layers on one file.                             *)
(***************************************************************************)
EXTENDS Integers, Sequences

CONSTANTS N,        \* nodes 1..N, in the order of the tools
          Stacks,   \* tuples of tools
          MaxRuns,  \* bound: runs of a tool, by the stack
          MaxLate   \* bound: calls that time out, programs and nodes that are cut off

ASSUME NAssumption == N \in Nat \ {0}

Actions == {"stage", "activate", "restore"}

VARIABLES
    tools,    \* the tuple of tools
    content,  \* content[n]: of the file, or Foreign
    pending,  \* pending[t][n]: of the temporary file of tool t, or NoFile
    helper,   \* helper[n]: tools whose helper modules lie beside the file
    staged,   \* staged[t][n]: "none", "torn", "part", "whole", "lost"
    serving,  \* the service runs
    loaded,   \* loaded[n]: the content it has read
    flight,   \* commands on nodes; live: the tool still waits
    op,       \* the run of a tool
    runs, late,
    edited,   \* history: nodes where the operator has edited the file,
    raced,    \*   and where that, or a second command, got into a replacement,
    blind     \*   where the service has started there

world == <<content, pending, helper, staged>>
service == <<serving, loaded, blind>>
history == <<edited, raced>>
bounds == <<runs, late>>
vars == <<tools, world, history, service, flight, op, bounds>>

Nodes == 1..N
Layers == DOMAIN tools
None == [tool |-> 0]
Foreign == -1   \* a content that no tool knows: an edit, half a file
NoFile == -2

-----------------------------------------------------------------------------
(* The tools.                                                              *)

Tool ==
    [actions  |-> {"stage", "activate", "restore"},
     parallel |-> FALSE,    \* all nodes at once
     stops    |-> TRUE,     \* a failure on a node is the end
     guard    |-> TRUE,     \* does not change the file of a running service
     again    |-> FALSE,    \* stage takes what an earlier one has left
     helper   |-> FALSE,    \* installs modules that the new content imports
     checks   |-> FALSE,    \* looks at all nodes before it changes one
     central  |-> FALSE,    \* keeps the originals itself, in a snapshot
     rewrites |-> FALSE,    \* adds to its snapshot in place
     undoes   |-> "never"]  \* puts back what it has changed: on "failure", "always"

deploy_moe_w1 == Tool
deploy_moe_w1_order == Tool
deploy_moe_w2_serial == Tool
deploy_aiter_gdn == [Tool EXCEPT !.helper = TRUE]
deploy_qsa_sparse_tail == [Tool EXCEPT !.again = TRUE, !.checks = TRUE]
deploy_hip_rdma_experiment ==
    [Tool EXCEPT !.parallel = TRUE, !.stops = FALSE, !.guard = FALSE, !.helper = TRUE]
set_w2_canonical_config == [Tool EXCEPT !.guard = FALSE, !.again = TRUE]
set_avx512_canonical_config == set_w2_canonical_config
set_w1_order_canonical_config == set_w2_canonical_config
stage_hip_uma_wide == [Tool EXCEPT !.actions = {"stage"}, !.guard = FALSE]
stage_uccl_plugin == stage_hip_uma_wide
gpu_performance_profile ==
    [Tool EXCEPT !.actions = {"activate", "restore"}, !.guard = FALSE, !.checks = TRUE,
                 !.central = TRUE, !.rewrites = TRUE, !.undoes = "failure"]
bench_gpu_profile ==
    [gpu_performance_profile EXCEPT !.actions = {"activate"}, !.rewrites = FALSE,
                                    !.undoes = "always"]

\* A tool that keeps the originals has nothing to stage on the nodes and looks at
\* all of them first, and only such a tool rolls back.
IsTool(t) ==
    /\ t.actions \subseteq Actions
    /\ t.central => t.checks /\ ~t.helper /\ "stage" \notin t.actions
    /\ t.undoes # "never" \/ t.rewrites => t.central

ASSUME StacksAssumption ==
    \A s \in Stacks : /\ DOMAIN s = 1..Len(s) /\ Len(s) \in Nat
                      /\ \A t \in DOMAIN s : IsTool(s[t])

-----------------------------------------------------------------------------
Init ==
    /\ tools \in Stacks
    /\ content = [n \in Nodes |-> 0]
    /\ pending = [t \in Layers |-> [n \in Nodes |-> NoFile]]
    /\ helper = [n \in Nodes |-> {}]
    /\ staged = [t \in Layers |-> [n \in Nodes |-> "none"]]
    /\ serving = FALSE /\ loaded = [n \in Nodes |-> NoFile] /\ blind = {}
    /\ flight = {} /\ op = None
    /\ runs = 0 /\ late = 0
    /\ edited = {} /\ raced = {}

(* The tool.                                                               *)

Stops == tools[op.tool].stops /\ ~(tools[op.tool].central /\ op.pass = "restore")

Keeps(t, how) == staged' = [staged EXCEPT ![t] = [n \in Nodes |-> how]]

\* The snapshot is written after looking, and once more after each later pass.
Pass(o, p, nodes) ==
    [o EXCEPT !.pass = p, !.todo = nodes, !.failed = {},
              !.save = IF tools[o.tool].central /\ (p = "check" \/ tools[o.tool].rewrites)
                       THEN "due" ELSE "done"]

Run(t, a, p) == [tool |-> t, action |-> a, pass |-> p, todo |-> {}, wait |-> {}, tried |-> {},
                 failed |-> {}, save |-> "done", ok |-> TRUE, crossed |-> FALSE]
First(t, a) ==
    IF tools[t].checks /\ a # "stage" /\ ~(tools[t].central /\ a = "restore") THEN "check" ELSE a

\* Seeded fault: a snapshot that is there is written over.
Begin_Over(t, a) ==
    LET tool == tools[t] IN
    /\ op = None /\ runs < MaxRuns[tools] /\ a \in tool.actions
    /\ tool.central /\ (a = "restore" \/ ~tool.rewrites) =>
           staged[t][1] = IF a = "restore" THEN "whole" ELSE "none"
    /\ op' = Pass(Run(t, a, First(t, a)), First(t, a), Nodes)
    /\ IF tool.central /\ ~tool.rewrites /\ a = "activate"
       THEN Keeps(t, "torn") ELSE UNCHANGED staged
    /\ runs' = runs + 1
    /\ UNCHANGED <<tools, content, pending, helper, history, service, flight, late>>

\* A snapshot is never started over; a tool that does not add to it makes its
\* directory before anything else.
Begin(t, a) ==
    LET tool == tools[t] IN
    /\ op = None /\ runs < MaxRuns[tools] /\ a \in tool.actions
    /\ tool.central => staged[t][1] = IF a = "restore" THEN "whole" ELSE "none"
    /\ op' = Pass(Run(t, a, First(t, a)), First(t, a), Nodes)
    /\ IF tool.central /\ ~tool.rewrites /\ a = "activate"
       THEN Keeps(t, "torn") ELSE UNCHANGED staged
    /\ runs' = runs + 1
    /\ UNCHANGED <<tools, content, pending, helper, history, service, flight, late>>

Command(n) == [run |-> runs, tool |-> op.tool, pass |-> op.pass, node |-> n,
               step |-> "look", live |-> TRUE]

\* The call of node n.  A node counts as tried before its call.
Send(n) ==
    /\ op # None /\ n \in op.todo /\ (op.ok \/ ~Stops)
    /\ tools[op.tool].parallel \/ (op.wait = {} /\ \A m \in op.todo : n <= m)
    /\ op' = [op EXCEPT !.todo = @ \ {n}, !.wait = @ \cup {n}, !.tried = @ \cup {n}]
    /\ flight' = flight \cup {Command(n)}
    /\ UNCHANGED <<tools, world, history, service, bounds>>

\* The run after the answer of a node.
Answered(n, good) ==
    [op EXCEPT !.wait = @ \ {n}, !.ok = @ /\ good,
               !.failed = IF good THEN @ ELSE @ \cup {n}]

\* The call times out; the command may have got lost, or come later.
TimeOut(c) ==
    /\ c.live /\ late < MaxLate[tools] /\ late' = late + 1
    /\ op' = Answered(c.node, FALSE)
    /\ \E left \in {{}, {[c EXCEPT !.live = FALSE]}} : flight' = (flight \ {c}) \cup left
    /\ UNCHANGED <<tools, world, history, service, runs>>

Called == op # None /\ op.wait = {} /\ (op.todo = {} \/ (~op.ok /\ Stops))
Unsaved == Called /\ op.save # "done" /\ (op.ok \/ op.pass = "restore")
PassOver == Called /\ ~Unsaved

\* The snapshot is cut to nothing, and filled.
Save ==
    /\ Unsaved
    /\ \/ /\ op.save = "due"
          /\ op' = [op EXCEPT !.save = "open"]
          /\ Keeps(op.tool, IF op.pass = "check" THEN "torn" ELSE "lost")
          /\ UNCHANGED late
       \/ /\ op.save = "open"
          /\ op' = [op EXCEPT !.save = "done"]
          /\ Keeps(op.tool, "whole")
          /\ UNCHANGED late
       \/ /\ op.save = "open" /\ late < MaxLate[tools] /\ late' = late + 1
          /\ op' = [op EXCEPT !.save = "done", !.ok = FALSE]
          /\ UNCHANGED staged
    /\ UNCHANGED <<tools, content, pending, helper, history, service, flight, runs>>

\* From looking to changing.
Checked ==
    /\ PassOver /\ op.pass = "check" /\ op.ok
    /\ op' = [Pass(op, op.action, Nodes) EXCEPT !.tried = {}]
    /\ UNCHANGED <<tools, world, history, service, flight, bounds>>

Undoes ==
    /\ op.action = "activate" /\ op.pass = "activate"
    /\ tools[op.tool].undoes = "always" \/ (tools[op.tool].undoes = "failure" /\ ~op.ok)

\* Seeded fault: a node counts as tried once it has answered well.
RollBack_Answered ==
    /\ PassOver /\ Undoes
    /\ op' = Pass(op, "restore", op.tried \ op.failed)
    /\ UNCHANGED <<tools, world, history, service, flight, bounds>>

RollBack ==
    /\ PassOver /\ Undoes
    /\ op' = Pass(op, "restore", op.tried)
    /\ UNCHANGED <<tools, world, history, service, flight, bounds>>

RunOver == PassOver /\ ~Undoes /\ ~(op.pass = "check" /\ op.ok)

\* The tool reports, by its exit and by what it prints.
End ==
    /\ RunOver
    /\ op' = None
    /\ UNCHANGED <<tools, world, history, service, flight, bounds>>

\* The tool is killed.
Die ==
    /\ op # None /\ late < MaxLate[tools] /\ late' = late + 1
    /\ op' = None
    /\ flight' = {[c EXCEPT !.live = FALSE] : c \in flight}
    /\ UNCHANGED <<tools, world, history, service, runs>>

-----------------------------------------------------------------------------
(* The command on a node.                                                  *)

Crossed == op' = IF op = None THEN op ELSE [op EXCEPT !.crossed = TRUE]

\* The run that goes on has sent the command, and a roll back has still to come
\* to its node.
Undoable(c) == op # None /\ c.run = runs /\ (op.pass = c.pass \/ c.node \in op.todo)

\* A command goes on, and ends; "changes": it has written something.
Noticed(c, changes) ==
    IF c.live \/ Undoable(c) \/ ~changes THEN UNCHANGED op ELSE Crossed

GoOn(c, next, changes) ==
    /\ flight' = (flight \ {c}) \cup {[c EXCEPT !.step = next]}
    /\ Noticed(c, changes)

Finish(c, good, changes) ==
    /\ flight' = flight \ {c}
    /\ IF c.live THEN op' = Answered(c.node, good) ELSE Noticed(c, changes)

\* Seeded fault: relies on the pass that has looked at all nodes.
Ready_OnceChecked(c) ==
    /\ tools[c.tool].guard /\ ~tools[c.tool].checks => ~serving
    /\ tools[c.tool].central \/ staged[c.tool][c.node] = "whole"
    /\ content[c.node] \in {c.tool - 1, c.tool}

\* Before it changes the file: no service, all that is staged, no edit.  A tool
\* with a snapshot sends the original along.
Ready(c) ==
    /\ tools[c.tool].guard => ~serving
    /\ tools[c.tool].central \/ staged[c.tool][c.node] = "whole"
    /\ content[c.node] \in {c.tool - 1, c.tool}

\* A performance mode is only read, and must be the normal one.
Looks(c) ==
    IF tools[c.tool].central THEN content[c.node] = c.tool - 1 ELSE Ready(c)

Stageable(c) ==
    /\ "activate" \in tools[c.tool].actions => content[c.node] = c.tool - 1
    /\ staged[c.tool][c.node] \in IF tools[c.tool].again THEN {"none", "part", "whole"} ELSE {"none"}

Refuse(c) ==
    /\ c.step = "look"
    /\ ~CASE c.pass = "stage" -> Stageable(c) [] c.pass = "check" -> Looks(c) [] OTHER -> Ready(c)
    /\ Finish(c, FALSE, FALSE)
    /\ UNCHANGED <<tools, world, history, service, bounds>>

Check(c) ==
    /\ c.pass = "check" /\ Looks(c)
    /\ Finish(c, TRUE, FALSE)
    /\ UNCHANGED <<tools, world, history, service, bounds>>

\* The directory is made and filled; the manifest comes last.
Stage(c) ==
    /\ c.pass = "stage"
    /\ \/ /\ c.step = "look" /\ Stageable(c) /\ staged[c.tool][c.node] # "whole"
          /\ staged' = [staged EXCEPT ![c.tool][c.node] = IF tools[c.tool].again THEN "torn" ELSE "part"]
          /\ GoOn(c, "fill", TRUE)
       \/ /\ c.step = "fill" \/ (Stageable(c) /\ staged[c.tool][c.node] = "whole")
          /\ staged' = [staged EXCEPT ![c.tool][c.node] = "whole"]
          /\ Finish(c, TRUE, TRUE)
    /\ UNCHANGED <<tools, content, pending, helper, history, service, bounds>>

Changes(c) == c.pass \in {"activate", "restore"}
Target(c) == IF c.pass = "activate" THEN c.tool ELSE c.tool - 1
HasHelper(c) == c.pass = "activate" /\ tools[c.tool].helper

\* The checks.
Look(c) ==
    /\ Changes(c) /\ c.step = "look" /\ Ready(c)
    /\ GoOn(c, IF HasHelper(c) THEN "helper"
               ELSE IF tools[c.tool].central THEN "replace" ELSE "write", FALSE)
    /\ UNCHANGED <<tools, world, history, service, bounds>>

\* The helpers come before the file, and stay.
Help(c) ==
    /\ c.step = "helper"
    /\ helper' = [helper EXCEPT ![c.node] = @ \cup {c.tool}]
    /\ GoOn(c, "write", TRUE)
    /\ UNCHANGED <<tools, content, pending, staged, history, service, bounds>>

\* The temporary file has one name for all commands of the tool.
Write(c) ==
    /\ c.step = "write"
    /\ pending' = [pending EXCEPT ![c.tool][c.node] = Target(c)]
    /\ GoOn(c, "replace", TRUE)
    /\ UNCHANGED <<tools, content, helper, staged, history, service, bounds>>

Shared(c) ==
    \E d \in flight \ {c} :
        d.tool = c.tool /\ d.node = c.node /\ d.step \in {"write", "replace"}

\* The file is replaced by the temporary one, which may be another command's, or
\* half of it while that one writes, or taken away by it.
Replace(c) ==
    LET new == IF tools[c.tool].central THEN Target(c) ELSE pending[c.tool][c.node] IN
    /\ c.step = "replace"
    /\ \/ /\ new = NoFile /\ Finish(c, FALSE, FALSE)
          /\ UNCHANGED <<content, pending, raced>>
       \/ /\ new # NoFile /\ Finish(c, TRUE, TRUE)
          /\ pending' = [pending EXCEPT ![c.tool][c.node] = NoFile]
          /\ \/ content' = [content EXCEPT ![c.node] = new] /\ UNCHANGED raced
             \/ /\ Shared(c) /\ ~tools[c.tool].central
                /\ content' = [content EXCEPT ![c.node] = Foreign]
                /\ raced' = raced \cup {c.node}
    /\ UNCHANGED <<tools, helper, staged, edited, service, bounds>>

\* The command is killed between two writes, or in one; a mode that cannot be
\* written is put back.
Cut(c) ==
    /\ c.step # "look" /\ late < MaxLate[tools] /\ late' = late + 1
    /\ \/ UNCHANGED <<content, staged>>
       \/ /\ c.pass = "stage" /\ tools[c.tool].again /\ tools[c.tool].checks
          /\ staged' = [staged EXCEPT ![c.tool][c.node] = "part"]
          /\ UNCHANGED content
       \/ /\ tools[c.tool].central
          /\ content' = [content EXCEPT ![c.node] = c.tool - 1]
          /\ UNCHANGED staged
    /\ Finish(c, FALSE, TRUE)
    /\ UNCHANGED <<tools, pending, helper, history, service, runs>>

-----------------------------------------------------------------------------
(* The operator, at any time.                                              *)

Inside(n) == \E c \in flight : c.node = n /\ c.step # "look"

Edit(n) ==
    /\ edited = {}
    /\ edited' = {n} /\ content' = [content EXCEPT ![n] = Foreign]
    /\ raced' = IF Inside(n) THEN raced \cup {n} ELSE raced
    /\ Crossed
    /\ UNCHANGED <<tools, pending, helper, staged, service, flight, bounds>>

Serve ==
    /\ ~serving
    /\ serving' = TRUE /\ loaded' = content /\ blind' = {n \in Nodes : Inside(n)}
    /\ UNCHANGED <<tools, world, history, flight, op, bounds>>

StopService ==
    /\ serving
    /\ serving' = FALSE /\ loaded' = [n \in Nodes |-> NoFile] /\ blind' = {}
    /\ UNCHANGED <<tools, world, history, flight, op, bounds>>

Next ==
    \/ \E t \in Layers, a \in Actions : Begin(t, a)
    \/ \E n \in Nodes : Send(n) \/ Edit(n)
    \/ Save \/ Checked \/ RollBack \/ End \/ Die
    \/ \E c \in flight :
           \/ TimeOut(c) \/ Refuse(c) \/ Check(c) \/ Stage(c)
           \/ Look(c) \/ Help(c) \/ Write(c) \/ Replace(c) \/ Cut(c)
    \/ Serve \/ StopService

Spec == Init /\ [][Next]_vars

-----------------------------------------------------------------------------
TypeOK ==
    /\ content \in [Nodes -> Layers \cup {0, Foreign}]
    /\ pending \in [Layers -> [Nodes -> Layers \cup {0, NoFile}]]
    /\ helper \in [Nodes -> SUBSET Layers]
    /\ staged \in [Layers -> [Nodes -> {"none", "torn", "part", "whole", "lost"}]]
    /\ edited \subseteq Nodes /\ raced \subseteq Nodes /\ blind \subseteq Nodes
    /\ serving \in BOOLEAN
    /\ \A c \in flight : c.tool \in Layers /\ c.node \in Nodes

\* Whatever is killed, late or repeated: from every content there is a way
\* back, layer by layer, through originals that are staged whole (a snapshot
\* that its tool adds to may have been cut at that, "lost"); a content that
\* imports helper modules does not lie there without them; a content that no
\* tool knows is the operator's, and stays. Not where an edit came between a
\* command's look and its replacement, or a command replaced the file by what
\* another one of its tool was writing.
NodeSound ==
    /\ TypeOK
    /\ \A n \in Nodes, t \in Layers :
           content[n] >= t =>
               /\ staged[t][n] \in {"whole"} \cup IF tools[t].rewrites THEN {"lost"} ELSE {}
               /\ tools[t].helper => t \in helper[n]
    /\ \A n \in Nodes \ raced : content[n] = Foreign <=> n \in edited

\* A running service has the source it has read still under it (a worker that
\* is started again reads it once more), also when an activation that was given
\* up reaches the node only after the start. Not for tools without the guard,
\* nor on a node where the start fell between a command's look and its
\* replacement.
ServedSource ==
    serving /\ (\A t \in Layers : tools[t].guard) =>
        \A n \in Nodes \ blind : content[n] \in {loaded[n], Foreign}

\* What a tool is to report is true of all nodes: a success, the content it was
\* to give or the staging; a roll back without errors, that none has changed,
\* also the one whose call was cut off and whose command comes late. Unless
\* there was an edit, half a file, a command of an earlier run, or one that came
\* to a node only after the roll back had called it.
ReportTrue ==
    op # None /\ RunOver /\ ~op.crossed =>
        LET t == op.tool
            all(k) == \A n \in Nodes \ raced : content[n] = k
        IN
        /\ op.ok /\ op.action = "stage" => \A n \in Nodes : staged[t][n] = "whole"
        /\ op.ok /\ op.pass = "activate" => all(t)
        /\ op.ok /\ op.action = "restore" => all(t - 1)
        /\ op.action = "activate" /\ op.pass = "restore" /\ op.failed = {} => all(t - 1)
=============================================================================
