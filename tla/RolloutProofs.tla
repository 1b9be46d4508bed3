--------------------------- MODULE RolloutProofs ---------------------------
(***************************************************************************)
(* Proofs about Rollout, for any number of nodes, any stack of tools, and  *)
(* any number of runs and of faults.                                       *)
(*                                                                         *)
(* The argument: a content lies on originals that are staged whole (Kept). *)
(* What a command has decided on at its look has still to be true at its   *)
(* replacement: nobody else fills a directory that one has begun           *)
(* (StagingOK), nothing takes away what a change stands on (ChangingOK,    *)
(* PendingOK), and a snapshot is never started over under it (SnapshotOK). *)
(* A run knows what its nodes hold as long as nobody else has written to   *)
(* them (RunOK), because at most one command on a node is its own (LiveOK, *)
(* LiveUnique), and because of one that it has given up it knows that this *)
(* node has failed, or that the roll back has still to come there (GoneOK).*)
(***************************************************************************)
EXTENDS Rollout, TLAPS

Passes == Actions \cup {"check"}
Steps == {"look", "fill", "helper", "write", "replace"}
States == {"none", "torn", "part", "whole", "lost"}

CommandType == [run : Nat, tool : Layers, pass : Passes, node : Nodes, step : Steps, live : BOOLEAN]

OpType == [tool : Layers, action : Actions, pass : Passes,
           todo : SUBSET Nodes, wait : SUBSET Nodes, tried : SUBSET Nodes, failed : SUBSET Nodes,
           save : {"due", "open", "done"}, ok : BOOLEAN, crossed : BOOLEAN]

FlightOK ==
    /\ flight \subseteq CommandType
    /\ runs \in Nat
    /\ \A c \in flight :
           /\ c.run <= runs
           /\ c.pass = "stage" => "stage" \in tools[c.tool].actions
           /\ c.step = "fill" => c.pass = "stage"
           /\ c.step \in {"helper", "write", "replace"} => Changes(c)
           /\ c.step = "helper" => HasHelper(c)
           /\ c.step = "write" => ~tools[c.tool].central

\* The passes of a run, and the nodes it has still to call and to hear from.
Passing(o) ==
    /\ o \in OpType
    /\ o.action \in tools[o.tool].actions
    /\ o.pass = "stage" <=> o.action = "stage"
    /\ o.pass = "activate" => o.action = "activate"
    /\ o.pass = "restore" => o.action = "restore" \/ tools[o.tool].undoes # "never"
    /\ o.save # "done" => /\ tools[o.tool].central
                          /\ o.pass = "check" \/ tools[o.tool].rewrites
    /\ o.todo \cap o.wait = {}
    /\ o.failed \cap (o.todo \cup o.wait) = {}
    /\ o.wait \cup o.failed \subseteq o.tried
    /\ o.failed # {} => ~o.ok
OpOK == op # None => Passing(op)

Own(c) == op # None /\ c.run = runs /\ c.tool = op.tool /\ c.pass = op.pass /\ c.node \in op.wait
LiveOK == \A c \in flight : c.live => Own(c)
LiveUnique == \A c, d \in flight : c.live /\ d.live /\ c.node = d.node => c = d

\* A command of this run: of this pass or of one before it; given up, its node
\* has failed.
GoneOK ==
    \A c \in flight : op # None /\ c.run = runs =>
        /\ c.pass # op.pass => \/ c.pass = "check"
                               \/ c.pass = "activate" /\ op.pass = "restore"
        /\ c.pass = op.pass => c.node \in op.tried
        /\ c.pass = op.pass /\ ~c.live => c.node \in op.failed

Control == FlightOK /\ OpOK /\ LiveOK /\ LiveUnique /\ GoneOK

\* Layer t can be undone on node n, and what it imports is there.
Back(t) == {"whole"} \cup IF tools[t].rewrites THEN {"lost"} ELSE {}
Sound(t, n) == staged[t][n] \in Back(t) /\ (tools[t].helper => t \in helper[n])

Kept == \A n \in Nodes, t \in Layers : content[n] >= t => Sound(t, n)
PendingOK == \A n \in Nodes, t, u \in Layers : pending[t][n] >= u => Sound(u, n)
EditedOK == \A n \in Nodes \ raced : content[n] = Foreign <=> n \in edited

Staging(c) == c.step = "fill"
StagingOK ==
    /\ \A c \in flight : Staging(c) =>
           staged[c.tool][c.node] = IF tools[c.tool].again THEN "torn" ELSE "part"
    /\ \A c, d \in flight :
           Staging(c) /\ Staging(d) /\ c.tool = d.tool /\ c.node = d.node => c = d

\* A command that has looked and has not replaced the file yet.
Changing(c) == c.step \in {"helper", "write", "replace"}
ChangingOK ==
    \A c \in flight : Changing(c) =>
        /\ c.node \in edited => c.node \in raced
        /\ \A t \in Layers : t <= c.tool - 1 => Sound(t, c.node)
        /\ staged[c.tool][c.node] \in Back(c.tool)
        /\ c.pass = "activate" /\ c.step # "helper" => Sound(c.tool, c.node)

ServingOK ==
    serving /\ (\A t \in Layers : tools[t].guard) =>
        /\ \A c \in flight : Changing(c) => c.node \in blind
        /\ \A n \in Nodes \ blind : content[n] \in {loaded[n], Foreign}

\* The snapshot is there before the first command that changes a mode is sent.
SnapshotOK ==
    /\ \A t \in Layers, n \in Nodes : tools[t].central => staged[t][n] = staged[t][1]
    /\ op # None /\ tools[op.tool].central =>
           IF op.pass = "check"
           THEN /\ op.save # "done" => staged[op.tool][1] \in {"none", "torn"}
                /\ op.save = "done" /\ op.ok => staged[op.tool][1] = "whole"
           ELSE staged[op.tool][1] \in Back(op.tool)
    /\ \A c \in flight :
           Changes(c) /\ tools[c.tool].central => staged[c.tool][1] \in Back(c.tool)

Data == Kept /\ PendingOK /\ EditedOK /\ StagingOK /\ ChangingOK /\ ServingOK

\* What a run knows of a node: of one that has answered, what it was told; of
\* one that it has not yet changed, what the check has found.
Heard(o, n) == n \notin o.todo \cup o.wait \cup o.failed
Knows(o, n) ==
    /\ Heard(o, n) /\ o.pass = "stage" => staged[o.tool][n] = "whole"
    /\ n \notin raced =>
        /\ Heard(o, n) /\ o.pass = "activate" => content[n] = o.tool
        /\ Heard(o, n) /\ o.pass = "restore" => content[n] = o.tool - 1
        /\ Heard(o, n) /\ o.pass = "check" /\ tools[o.tool].central => content[n] = o.tool - 1
        /\ n \notin o.tried /\ o.pass = "activate" /\ tools[o.tool].central =>
               content[n] = o.tool - 1
\* The temporary file of a live command is its own.
MineOK ==
    \A c \in flight : c.live /\ c.step = "replace" /\ ~tools[c.tool].central =>
        pending[c.tool][c.node] = Target(c)
RunOK == op # None /\ ~op.crossed => MineOK /\ \A n \in Nodes : Knows(op, n)

IInv == /\ tools \in Stacks
        /\ TypeOK
        /\ Control
        /\ SnapshotOK
        /\ Data
        /\ RunOK

-----------------------------------------------------------------------------
(* Layers are numbered from 1.                                             *)

LEMMA LayersNat ==
    ASSUME tools \in Stacks
    PROVE  /\ Layers \subseteq Nat \ {0}
           /\ \A t \in Layers : t - 1 \in Layers \cup {0}
           /\ \A t \in Layers : IsTool(tools[t])
<1>1. Layers = 1..Len(tools) /\ Len(tools) \in Nat
      BY StacksAssumption DEF Layers
<1>2. \A t \in Layers : IsTool(tools[t])
      BY StacksAssumption DEF Layers
<1> QED BY <1>1, <1>2

LEMMA LayerPositive ==
    ASSUME tools \in Stacks, NEW k \in Layers
    PROVE  k \in Int /\ k >= 1
<1>1. k \in Nat \ {0} BY LayersNat
<1> QED BY <1>1

LEMMA LayersBelow ==
    ASSUME tools \in Stacks, NEW k \in Layers, NEW t \in Layers, t <= k
    PROVE  t <= k - 1 \/ t = k
<1>1. k \in Int /\ t \in Int BY LayersNat
<1> QED BY <1>1

LEMMA FirstNode == 1 \in Nodes
BY NAssumption DEF Nodes

(* The run after an answer, and after a command of somebody else's.        *)

Alike(o, p) ==
    /\ o.tool = p.tool /\ o.action = p.action /\ o.pass = p.pass
    /\ o.todo = p.todo /\ o.wait = p.wait /\ o.tried = p.tried /\ o.failed = p.failed
    /\ o.save = p.save /\ o.ok = p.ok

LEMMA Answering ==
    ASSUME Passing(op), NEW n \in op.wait, NEW good \in BOOLEAN
    PROVE  LET o == Answered(n, good)
           IN /\ Passing(o) /\ o # None
              /\ o.tool = op.tool /\ o.action = op.action /\ o.pass = op.pass
              /\ o.todo = op.todo /\ o.wait = op.wait \ {n} /\ o.tried = op.tried
              /\ o.failed = IF good THEN op.failed ELSE op.failed \cup {n}
              /\ o.save = op.save /\ o.crossed = op.crossed
              /\ o.ok <=> op.ok /\ good
<1> DEFINE o == Answered(n, good)
<1>0. n \in Nodes /\ n \in op.tried /\ n \notin op.todo BY DEF Passing, OpType
<1>1. o \in OpType BY <1>0 DEF Answered, Passing, OpType
<1>2. /\ o.tool = op.tool /\ o.action = op.action /\ o.pass = op.pass
      /\ o.todo = op.todo /\ o.wait = op.wait \ {n} /\ o.tried = op.tried
      /\ o.failed = IF good THEN op.failed ELSE op.failed \cup {n}
      /\ o.save = op.save /\ o.crossed = op.crossed
      BY DEF Answered, Passing, OpType
<1>3. o.ok <=> op.ok /\ good
      BY DEF Answered, Passing, OpType
<1>4. o # None BY <1>1 DEF OpType, None
<1> HIDE DEF o
<1>5. Passing(o) BY <1>0, <1>1, <1>2, <1>3 DEF Passing
<1> QED BY <1>2, <1>3, <1>4, <1>5 DEF o

LEMMA Crossing ==
    ASSUME OpOK, Crossed
    PROVE  /\ op = None => op' = None
           /\ op # None => Passing(op') /\ op' # None /\ Alike(op', op) /\ op'.crossed
<1>1. ASSUME op # None
      PROVE  Passing(op') /\ op' # None /\ Alike(op', op) /\ op'.crossed
  <2>1. op' = [op EXCEPT !.crossed = TRUE] /\ Passing(op) BY <1>1 DEF Crossed, OpOK
  <2>2. op' \in OpType /\ Alike(op', op) /\ op'.crossed
        BY <2>1 DEF Passing, OpType, Alike
  <2>3. op' # None BY <2>2 DEF OpType, None
  <2>4. Passing(op') BY <2>1, <2>2 DEF Passing, Alike
  <2> QED BY <2>2, <2>3, <2>4
<1> QED BY <1>1 DEF Crossed

LEMMA Noticing ==
    ASSUME OpOK, NEW c, NEW changes \in BOOLEAN, Noticed(c, changes)
    PROVE  /\ op = None => op' = None
           /\ op # None => /\ Passing(op') /\ op' # None /\ Alike(op', op)
                           /\ c.live \/ Undoable(c) \/ ~changes => op' = op
                           /\ ~(c.live \/ Undoable(c) \/ ~changes) => op'.crossed
<1>1. CASE c.live \/ Undoable(c) \/ ~changes
      BY <1>1 DEF Noticed, OpOK, Alike
<1>2. CASE ~(c.live \/ Undoable(c) \/ ~changes)
  <2>1. Crossed BY <1>2 DEF Noticed
  <2> QED BY <1>2, <2>1, Crossing
<1> QED BY <1>1, <1>2

-----------------------------------------------------------------------------
(* Commands and the run they belong to.                                    *)

LEMMA CommandFacts ==
    ASSUME Control, NEW c \in flight
    PROVE  /\ c \in CommandType /\ c.run \in Nat
           /\ c.tool \in Layers /\ c.pass \in Passes /\ c.node \in Nodes
           /\ c.step \in Steps /\ c.live \in BOOLEAN
           /\ c.live => Own(c) /\ Passing(op)
BY DEF Control, FlightOK, OpOK, LiveOK, CommandType, Own

\* A run that knows of its commands what it has known, and nothing new is sent.
LEMMA SameControl ==
    ASSUME Control, UNCHANGED <<tools, runs>>, flight' \subseteq flight,
           op = None => op' = None,
           op # None => op' # None /\ Passing(op') /\ Alike(op', op)
    PROVE  Control'
<1> USE DEF Control
<1>1. FlightOK' BY DEF FlightOK, CommandType, Layers, Changes, HasHelper
<1>2. CASE op = None BY <1>1, <1>2 DEF OpOK, LiveOK, LiveUnique, GoneOK, Own
<1>3. CASE op # None
  <2>1. OpOK' BY <1>3 DEF OpOK, Passing, OpType, Layers
  <2>2. LiveOK' BY <1>3 DEF LiveOK, Own, Alike
  <2>3. LiveUnique' BY DEF LiveUnique
  <2>4. GoneOK' BY <1>3 DEF GoneOK, Alike
  <2> QED BY <1>1, <2>1, <2>2, <2>3, <2>4
<1> QED BY <1>2, <1>3

LEMMA FinishControl ==
    ASSUME Control, NEW c \in flight, NEW good \in BOOLEAN, NEW changes \in BOOLEAN,
           Finish(c, good, changes), UNCHANGED <<tools, runs>>
    PROVE  Control'
<1> USE DEF Control
<1>0. /\ c.node \in Nodes /\ c.live \in BOOLEAN
      /\ c.live => Own(c) /\ Passing(op)
      /\ flight' = flight \ {c}
      BY CommandFacts DEF Finish
<1>1. FlightOK' BY <1>0 DEF FlightOK, CommandType, Layers, Changes, HasHelper
<1>2. CASE c.live
  <2> DEFINE o == Answered(c.node, good)
  <2>1. op' = o BY <1>2 DEF Finish
  <2>2. /\ Passing(o) /\ o # None
        /\ o.tool = op.tool /\ o.pass = op.pass /\ o.wait = op.wait \ {c.node}
        /\ o.tried = op.tried /\ op.failed \subseteq o.failed
        BY <1>0, <1>2, Answering DEF Own
  <2>3. op # None BY <1>0, <1>2 DEF Own
  <2> HIDE DEF o
  <2>4. OpOK' BY <2>1, <2>2 DEF OpOK, Passing, OpType, Layers
  <2>5. LiveUnique' BY <1>0 DEF LiveUnique
  <2>6. LiveOK' BY <1>0, <1>2, <2>1, <2>2, <2>3 DEF LiveOK, LiveUnique, Own
  <2>7. GoneOK' BY <1>0, <2>1, <2>2, <2>3 DEF GoneOK
  <2> QED BY <1>1, <2>4, <2>5, <2>6, <2>7
<1>3. CASE ~c.live
  <2>1. Noticed(c, changes) BY <1>3 DEF Finish
  <2> QED BY <1>0, <2>1, Noticing, SameControl
<1> QED BY <1>0, <1>2, <1>3

\* The command goes on, as its own successor.
LEMMA GoOnControl ==
    ASSUME Control, NEW c \in flight, NEW next \in Steps, NEW changes \in BOOLEAN,
           GoOn(c, next, changes), UNCHANGED <<tools, runs>>,
           next = "fill" => c.pass = "stage",
           next \in {"helper", "write", "replace"} => Changes(c),
           next = "helper" => HasHelper(c),
           next = "write" => ~tools[c.tool].central
    PROVE  /\ Control'
           /\ LET d == [c EXCEPT !.step = next]
              IN /\ flight' = (flight \ {c}) \cup {d}
                 /\ d.run = c.run /\ d.tool = c.tool /\ d.pass = c.pass
                 /\ d.node = c.node /\ d.live = c.live /\ d.step = next
<1> USE DEF Control
<1> DEFINE d == [c EXCEPT !.step = next]
<1>0. /\ c \in CommandType /\ c.live \in BOOLEAN
      /\ c.live => Own(c) /\ Passing(op)
      /\ flight' = (flight \ {c}) \cup {d}
      BY CommandFacts DEF GoOn
<1>1. /\ d \in CommandType /\ d.run = c.run /\ d.tool = c.tool /\ d.pass = c.pass
      /\ d.node = c.node /\ d.live = c.live /\ d.step = next
      BY <1>0 DEF CommandType
<1> HIDE DEF d
<1>2. FlightOK' BY <1>0, <1>1 DEF FlightOK, CommandType, Layers, Changes, HasHelper
<1>3. LiveUnique' BY <1>0, <1>1 DEF LiveUnique
<1>a. /\ op = None => op' = None
      /\ op # None => op' # None /\ Passing(op') /\ Alike(op', op)
      BY Noticing DEF GoOn
<1>4. CASE op = None
  <2>1. OpOK' /\ LiveOK' /\ GoneOK'
        BY <1>0, <1>1, <1>4, <1>a DEF OpOK, LiveOK, GoneOK, Own
  <2> QED BY <1>0, <1>1, <1>2, <1>3, <2>1 DEF d
<1>5. CASE op # None
  <2>1. OpOK' BY <1>5, <1>a DEF OpOK, Passing, OpType, Layers
  <2>2. LiveOK' BY <1>0, <1>1, <1>5, <1>a DEF LiveOK, Own, Alike
  <2>3. GoneOK' BY <1>0, <1>1, <1>5, <1>a DEF GoneOK, Alike
  <2> QED BY <1>0, <1>1, <1>2, <1>3, <2>1, <2>2, <2>3 DEF d
<1> QED BY <1>4, <1>5

\* A command that has been given up does not write, unseen, to a node whose
\* command is waited for, nor to one that the run knows of.
LEMMA Unseen ==
    ASSUME Control, op # None, NEW c \in flight, ~c.live, Undoable(c)
    PROVE  c.node \notin op.wait /\ (c.pass # "check" => ~Heard(op, c.node))
<1>1. Passing(op) BY DEF Control, OpOK
<1>2. CASE c.pass = op.pass
      BY <1>1, <1>2 DEF Control, GoneOK, Undoable, Passing, Heard
<1>3. CASE c.node \in op.todo BY <1>1, <1>3 DEF Passing, Heard
<1> QED BY <1>2, <1>3 DEF Undoable

-----------------------------------------------------------------------------
(* What a run knows.                                                       *)

\* The facts about a node that RunOK is about are not taken away.
StagedStays(n) == \A t \in Layers : staged[t][n] = "whole" => staged'[t][n] = "whole"
Stays(n) == /\ content'[n] = content[n] /\ StagedStays(n)
            /\ \A t \in Layers : pending'[t][n] = pending[t][n]

\* A run whose nodes stay keeps what it knows.
LEMMA SameRun ==
    ASSUME Control, RunOK, UNCHANGED <<tools, runs>>, raced \subseteq raced',
           flight' \subseteq flight,
           op' = None \/ (op # None /\ (op'.crossed \/ op' = op)),
           op # None /\ op' = op => \A n \in Nodes : Stays(n)
    PROVE  RunOK'
<1>1. CASE op # None /\ op' = op /\ ~op.crossed
  <2>1. Passing(op) /\ op.tool \in Layers BY <1>1 DEF Control, OpOK, Passing, OpType
  <2>2. ASSUME NEW n \in Nodes PROVE Knows(op, n)'
        BY <1>1, <2>1, <2>2 DEF RunOK, Knows, Heard, Stays, StagedStays
  <2>3. MineOK'
        BY <1>1, CommandFacts DEF RunOK, MineOK, Stays, Target
  <2> QED BY <2>2, <2>3 DEF RunOK, Nodes
<1> QED BY <1>1 DEF RunOK

\* What a command that has been given up does to its node, a run that has not
\* noticed does not know better.
LEMMA UnseenKnows ==
    ASSUME Control, op # None, NEW c \in flight, ~c.live, Undoable(c), c.pass # "check",
           Knows(op, c.node), UNCHANGED <<tools, op>>
    PROVE  Knows(op, c.node)'
<1>1. Passing(op) BY DEF Control, OpOK
<1>2. ~Heard(op, c.node) BY Unseen
<1>3. op.pass = "activate" => c.node \in op.tried
      BY <1>1 DEF Control, GoneOK, Undoable
<1> QED BY <1>2, <1>3 DEF Knows, Heard

LEMMA FinishRun ==
    ASSUME Control, RunOK, NEW c \in flight, NEW good \in BOOLEAN, NEW changes \in BOOLEAN,
           Finish(c, good, changes), UNCHANGED <<tools, runs>>, raced \subseteq raced',
           changes => c.pass # "check",
           \A n \in Nodes : n # c.node => Stays(n),
           ~changes => Stays(c.node),
           c.live /\ good /\ c.pass = "stage" => staged'[c.tool][c.node] = "whole",
           c.live /\ good /\ ~op.crossed /\ c.node \notin raced' =>
               /\ c.pass = "activate" => content'[c.node] = c.tool
               /\ c.pass = "restore" => content'[c.node] = c.tool - 1
               /\ c.pass = "check" /\ tools[c.tool].central => content'[c.node] = c.tool - 1
    PROVE  RunOK'
<1>0. /\ c.node \in Nodes /\ c.live \in BOOLEAN /\ c.pass \in Passes
      /\ c.live => Own(c) /\ Passing(op)
      /\ flight' = flight \ {c}
      BY CommandFacts DEF Finish
<1>1. CASE c.live
  <2>1. op' = Answered(c.node, good) BY <1>1 DEF Finish
  <2>2. /\ op'.tool = op.tool /\ op'.action = op.action /\ op'.pass = op.pass
        /\ op'.todo = op.todo /\ op'.wait = op.wait \ {c.node} /\ op'.tried = op.tried
        /\ op'.failed = IF good THEN op.failed ELSE op.failed \cup {c.node}
        /\ op'.crossed = op.crossed
        BY <1>0, <1>1, <2>1, Answering DEF Own
  <2>3. /\ op # None /\ c.tool = op.tool /\ c.pass = op.pass
        /\ c.node \in op.wait /\ c.node \in op.tried /\ op.tool \in Layers
        BY <1>0, <1>1 DEF Own, Passing, OpType
  <2>4. ASSUME ~op.crossed, NEW n \in Nodes, n # c.node PROVE Knows(op, n)'
    <3>1. Knows(op, n) /\ Stays(n) BY <2>3, <2>4 DEF RunOK
    <3> QED BY <2>2, <2>3, <2>4, <3>1 DEF Knows, Heard, Stays, StagedStays
  <2>5. ASSUME ~op.crossed PROVE Knows(op, c.node)'
    <3>1. Heard(op', c.node) => good BY <2>2 DEF Heard
    <3>2. c.node \in op'.tried BY <2>2, <2>3
    <3> QED BY <1>1, <2>2, <2>3, <2>5, <3>1, <3>2 DEF Knows, Heard
  <2>6. ASSUME ~op.crossed PROVE MineOK'
    <3>1. ASSUME NEW b \in flight', b.live, b.step = "replace", ~tools[b.tool].central
          PROVE  pending'[b.tool][b.node] = Target(b)
      <4>1. b \in flight /\ b # c /\ b.node # c.node /\ b.node \in Nodes /\ b.tool \in Layers
            BY <1>0, <1>1, <3>1, CommandFacts DEF Control, LiveUnique
      <4>2. pending[b.tool][b.node] = Target(b)
            BY <2>3, <2>6, <3>1, <4>1 DEF RunOK, MineOK
      <4> QED BY <4>1, <4>2 DEF Stays
    <3> QED BY <3>1 DEF MineOK, Target
  <2> QED BY <2>2, <2>4, <2>5, <2>6 DEF RunOK, Nodes
<1>2. CASE ~c.live
  <2>0. Noticed(c, changes) BY <1>2 DEF Finish
  <2>1. CASE op = None BY <2>0, <2>1, Noticing DEF RunOK, Control
  <2>2. CASE op # None /\ changes /\ ~Undoable(c)
    <3>1. op'.crossed BY <1>2, <2>0, <2>2, Noticing DEF Control
    <3> QED BY <3>1 DEF RunOK
  <2>3. CASE op # None /\ ~changes
    <3>1. op' = op BY <2>0, <2>3, Noticing DEF Control
    <3>2. \A n \in Nodes : Stays(n) BY <2>3
    <3> QED BY <1>0, <2>3, <3>1, <3>2, SameRun
  <2>4. CASE op # None /\ changes /\ Undoable(c)
    <3>1. op' = op BY <2>0, <2>4, Noticing DEF Control
    <3>2. op.tool \in Layers BY <2>4 DEF Control, OpOK, Passing, OpType
    <3>3. ASSUME ~op.crossed, NEW n \in Nodes PROVE Knows(op, n)'
      <4>0. Knows(op, n) BY <2>4, <3>3 DEF RunOK
      <4>1. CASE n = c.node BY <1>2, <2>4, <3>1, <4>0, <4>1, UnseenKnows
      <4>2. CASE n # c.node
            BY <3>1, <3>2, <4>0, <4>2 DEF Knows, Heard, Stays, StagedStays
      <4> QED BY <4>1, <4>2
    <3>4. ASSUME ~op.crossed PROVE MineOK'
      <4>1. ASSUME NEW b \in flight', b.live, b.step = "replace", ~tools[b.tool].central
            PROVE  pending'[b.tool][b.node] = Target(b)
        <5>1. b \in flight /\ b.node \in Nodes /\ b.tool \in Layers /\ b.node \in op.wait
              BY <1>0, <4>1, CommandFacts DEF Own
        <5>2. b.node # c.node BY <1>2, <2>4, <5>1, Unseen
        <5>3. pending[b.tool][b.node] = Target(b)
              BY <2>4, <3>4, <4>1, <5>1 DEF RunOK, MineOK
        <5> QED BY <5>1, <5>2, <5>3 DEF Stays
      <4> QED BY <4>1 DEF MineOK, Target
    <3> QED BY <3>1, <3>3, <3>4 DEF RunOK, Nodes
  <2> QED BY <2>1, <2>2, <2>3, <2>4
<1> QED BY <1>0, <1>1, <1>2

LEMMA GoOnRun ==
    ASSUME Control, RunOK, NEW c \in flight, NEW next \in Steps, NEW changes \in BOOLEAN,
           GoOn(c, next, changes), UNCHANGED <<tools, runs, content, raced>>,
           changes => c.pass # "check",
           \A n \in Nodes : StagedStays(n),
           \A t \in Layers, n \in Nodes :
               pending'[t][n] # pending[t][n] => changes /\ t = c.tool /\ n = c.node,
           next = "replace" /\ ~tools[c.tool].central => pending'[c.tool][c.node] = Target(c)
    PROVE  RunOK'
<1> DEFINE d == [c EXCEPT !.step = next]
<1>0. /\ c \in CommandType /\ c.node \in Nodes /\ c.live \in BOOLEAN
      /\ c.live => Own(c) /\ Passing(op)
      /\ flight' = (flight \ {c}) \cup {d}
      BY CommandFacts DEF GoOn
<1>a. /\ d.run = c.run /\ d.tool = c.tool /\ d.pass = c.pass
      /\ d.node = c.node /\ d.live = c.live /\ d.step = next
      BY <1>0 DEF CommandType
<1> HIDE DEF d
<1>b. Noticed(c, changes) BY DEF GoOn
<1>1. CASE op = None BY <1>1, <1>b, Noticing DEF RunOK, Control
<1>2. CASE op # None /\ ~c.live /\ changes /\ ~Undoable(c)
  <2>1. op'.crossed BY <1>2, <1>b, Noticing DEF Control
  <2> QED BY <2>1 DEF RunOK
<1>3. CASE op # None /\ (c.live \/ ~changes \/ Undoable(c))
  <2>1. op' = op BY <1>3, <1>b, Noticing DEF Control
  <2>2. op.tool \in Layers BY <1>3 DEF Control, OpOK, Passing, OpType
  <2>3. ASSUME ~op.crossed, NEW n \in Nodes PROVE Knows(op, n)'
    <3>1. Knows(op, n) BY <1>3, <2>3 DEF RunOK
    <3> QED BY <2>1, <2>2, <3>1 DEF Knows, Heard, StagedStays
  <2>4. ASSUME ~op.crossed PROVE MineOK'
    <3>1. ASSUME NEW b \in flight', b.live, b.step = "replace", ~tools[b.tool].central
          PROVE  pending'[b.tool][b.node] = Target(b)
      <4>1. CASE b = d BY <1>a, <3>1, <4>1 DEF Target
      <4>2. CASE b # d
        <5>1. b \in flight /\ b # c /\ b.node \in Nodes /\ b.tool \in Layers /\ b.node \in op.wait
              BY <1>0, <3>1, <4>2, CommandFacts DEF Own
        <5>2. pending[b.tool][b.node] = Target(b)
              BY <1>3, <2>4, <3>1, <5>1 DEF RunOK, MineOK
        <5>3. changes => b.node # c.node
          <6>1. CASE c.live BY <3>1, <5>1, <6>1 DEF Control, LiveUnique
          <6>2. CASE ~c.live /\ Undoable(c) BY <1>3, <5>1, <6>2, Unseen
          <6> QED BY <1>0, <1>3, <6>1, <6>2
        <5> QED BY <5>1, <5>2, <5>3
      <4> QED BY <4>1, <4>2
    <3> QED BY <3>1 DEF MineOK, Target
  <2> QED BY <2>1, <2>3, <2>4 DEF RunOK, Nodes
<1> QED BY <1>0, <1>1, <1>2, <1>3

-----------------------------------------------------------------------------
(* What the nodes hold.                                                    *)

Like(c, d) == /\ c.run = d.run /\ c.tool = d.tool /\ c.pass = d.pass
              /\ c.node = d.node /\ c.step = d.step

\* Nothing that makes a layer sound is taken away.
BackStays == \A t \in Layers, n \in Nodes : staged[t][n] \in Back(t) => staged'[t][n] \in Back(t)
HelperStays == \A n \in Nodes : helper[n] \subseteq helper'[n]

LEMMA SoundStays ==
    ASSUME NEW t \in Layers, NEW n \in Nodes, Sound(t, n), UNCHANGED tools,
           BackStays, HelperStays
    PROVE  Sound(t, n)'
BY DEF Sound, Back, BackStays, HelperStays

\* The files stay, and no command gets past its look.
LEMMA SameData ==
    ASSUME Data, Control, UNCHANGED <<tools, content, pending, history, service>>,
           BackStays, HelperStays, StagingOK',
           \A c \in flight' : Changing(c) => \E b \in flight : Like(c, b)
    PROVE  Data'
<1>0. UNCHANGED <<edited, raced, serving, loaded, blind>> BY DEF history, service
<1>1. ASSUME NEW t \in Layers, NEW n \in Nodes, Sound(t, n) PROVE Sound(t, n)'
      BY <1>1, SoundStays
<1>2. Kept' BY <1>1 DEF Data, Kept, Layers, Nodes
<1>3. PendingOK' BY <1>1 DEF Data, PendingOK, Layers, Nodes
<1>4. EditedOK' BY <1>0 DEF Data, EditedOK, Nodes
<1>5. ChangingOK'
  <2>1. ASSUME NEW c \in flight', Changing(c)
        PROVE  /\ c.node \in edited' => c.node \in raced'
               /\ \A t \in Layers : t <= c.tool - 1 => Sound(t, c.node)'
               /\ staged'[c.tool][c.node] \in Back(c.tool)'
               /\ c.pass = "activate" /\ c.step # "helper" => Sound(c.tool, c.node)'
    <3>1. PICK b \in flight : Like(c, b) BY <2>1
    <3>2. Changing(b) /\ b.tool \in Layers /\ b.node \in Nodes
          BY <2>1, <3>1, CommandFacts DEF Like, Changing
    <3> QED BY <1>0, <1>1, <3>1, <3>2 DEF Like, Data, ChangingOK, BackStays, Back
  <2> QED BY <2>1 DEF ChangingOK, Changing, Layers
<1>6. ServingOK'
  <2>1. ASSUME NEW c \in flight', Changing(c)
        PROVE  \E b \in flight : Changing(b) /\ b.node = c.node
        BY <2>1 DEF Like, Changing
  <2> QED BY <1>0, <2>1 DEF Data, ServingOK, Changing, Layers, Nodes
<1> QED BY <1>2, <1>3, <1>4, <1>5, <1>6 DEF Data

\* The staging stays, and no command begins to fill a directory.
LEMMA SameStaging ==
    ASSUME StagingOK, UNCHANGED <<tools, staged>>,
           \A c \in flight' : Staging(c) => c \in flight
    PROVE  StagingOK'
BY DEF StagingOK, Staging

LEMMA SameSound ==
    ASSUME UNCHANGED <<tools, staged, helper>>
    PROVE  BackStays /\ HelperStays
BY DEF BackStays, HelperStays

\* The snapshots stay, and no command that changes a mode is sent.
LEMMA SameSnapshot ==
    ASSUME SnapshotOK, Control, UNCHANGED tools,
           \A t \in Layers, n \in Nodes : tools[t].central => staged'[t][n] = staged[t][n],
           \/ op' = None
           \/ /\ op # None /\ op'.tool = op.tool /\ op'.pass = op.pass
              /\ op'.save = op.save /\ (op'.ok => op.ok),
           \A c \in flight' : Changes(c) => \E b \in flight : Like(c, b)
    PROVE  SnapshotOK'
<1>0. \A t \in Layers : tools[t].central => staged'[t][1] = staged[t][1] BY FirstNode
<1>1. \A t \in Layers, n \in Nodes : tools'[t].central => staged'[t][n] = staged'[t][1]
      BY <1>0 DEF SnapshotOK
<1>2. ASSUME op' # None, tools[op'.tool].central
      PROVE  IF op'.pass = "check"
             THEN /\ op'.save # "done" => staged'[op'.tool][1] \in {"none", "torn"}
                  /\ op'.save = "done" /\ op'.ok => staged'[op'.tool][1] = "whole"
             ELSE staged'[op'.tool][1] \in Back(op'.tool)
  <2>1. op.tool \in Layers BY <1>2 DEF Control, OpOK, Passing, OpType
  <2> QED BY <1>0, <1>2, <2>1 DEF SnapshotOK
<1>3. ASSUME NEW c \in flight', Changes(c), tools[c.tool].central
      PROVE  staged'[c.tool][1] \in Back(c.tool)
  <2>1. PICK b \in flight : Like(c, b) BY <1>3
  <2>2. b.tool \in Layers /\ b.tool = c.tool /\ Changes(b)
        BY <1>3, <2>1, CommandFacts DEF Like, Changes
  <2> QED BY <1>0, <1>3, <2>2 DEF SnapshotOK
<1> QED BY <1>1, <1>2, <1>3 DEF SnapshotOK, Layers, Nodes, Changes, Back

-----------------------------------------------------------------------------
(* One lemma for each action: of the run.                                  *)

LEMMA SamePart ==
    ASSUME TypeOK, UNCHANGED <<tools, world, history, service>>, FlightOK'
    PROVE  TypeOK'
BY DEF TypeOK, world, history, service, Layers, Nodes, FlightOK, CommandType

\* The tool writes its snapshot over.
LEMMA KeepsFacts ==
    ASSUME IInv, NEW t \in Layers, NEW how \in States, tools[t].central, Keeps(t, how),
           UNCHANGED tools,
           how \in Back(t) \/ staged[t][1] \notin Back(t)
    PROVE  /\ staged' \in [Layers -> [Nodes -> States]]
           /\ \A n \in Nodes : staged'[t][n] = how
           /\ \A u \in Layers, n \in Nodes : u # t => staged'[u][n] = staged[u][n]
           /\ BackStays
           /\ (\A c \in flight' : Staging(c) => c \in flight) => StagingOK'
           /\ \A u \in Layers, n \in Nodes : tools[u].central => staged'[u][n] = staged'[u][1]
<1> USE DEF IInv
<1>1. /\ staged' \in [Layers -> [Nodes -> States]]
      /\ \A n \in Nodes : staged'[t][n] = how
      /\ \A u \in Layers, n \in Nodes : u # t => staged'[u][n] = staged[u][n]
      BY DEF Keeps, TypeOK, States
<1>2. BackStays
  <2>1. ASSUME NEW n \in Nodes, staged[t][n] \in Back(t) PROVE how \in Back(t)
        BY <2>1 DEF SnapshotOK
  <2> QED BY <1>1, <2>1 DEF BackStays
<1>3. ASSUME \A c \in flight' : Staging(c) => c \in flight PROVE StagingOK'
  <2>1. ASSUME NEW c \in flight, Staging(c)
        PROVE  staged'[c.tool][c.node] = staged[c.tool][c.node]
    <3>1. /\ c.tool \in Layers /\ c.node \in Nodes /\ "stage" \in tools[c.tool].actions
          BY <2>1, CommandFacts DEF Control, FlightOK, Staging
    <3>2. ~tools[c.tool].central BY <3>1, LayersNat DEF IsTool
    <3> QED BY <1>1, <3>1, <3>2
  <2> QED BY <1>3, <2>1 DEF Data, StagingOK, Staging
<1>4. \A u \in Layers, n \in Nodes : tools[u].central => staged'[u][n] = staged'[u][1]
      BY <1>1, FirstNode DEF SnapshotOK
<1> QED BY <1>1, <1>2, <1>3, <1>4

LEMMA PassFacts ==
    ASSUME Passing(op), op.wait = {}, NEW p \in Passes, NEW nodes \in SUBSET Nodes
    PROVE  LET o == Pass(op, p, nodes)
           IN /\ o \in OpType
              /\ o.tool = op.tool /\ o.action = op.action /\ o.pass = p
              /\ o.todo = nodes /\ o.wait = {} /\ o.tried = op.tried /\ o.failed = {}
              /\ o.save = IF tools[op.tool].central /\ (p = "check" \/ tools[op.tool].rewrites)
                          THEN "due" ELSE "done"
              /\ o.ok = op.ok /\ o.crossed = op.crossed
BY DEF Pass, Passing, OpType

LEMMA BeginStep ==
    ASSUME IInv, NEW t \in Layers, NEW a \in Actions, Begin(t, a)
    PROVE  IInv'
<1> USE DEF IInv
<1>1. /\ op = None /\ runs' = runs + 1 /\ runs \in Nat
      /\ UNCHANGED <<tools, flight, content, pending, helper, history, service>>
      /\ a \in tools[t].actions /\ IsTool(tools[t])
      /\ tools[t].central => staged[t][1] = IF a = "restore" THEN "whole" ELSE "none"
      /\ IF tools[t].central /\ ~tools[t].rewrites /\ a = "activate"
         THEN Keeps(t, "torn") ELSE UNCHANGED staged
      BY LayersNat DEF Begin, Control, FlightOK
<1>2. /\ op' \in OpType
      /\ op'.tool = t /\ op'.action = a /\ op'.todo = Nodes /\ op'.pass = First(t, a)
      /\ op'.wait = {} /\ op'.tried = {} /\ op'.failed = {} /\ op'.ok /\ ~op'.crossed
      /\ op'.save = IF tools[t].central /\ (First(t, a) = "check" \/ tools[t].rewrites)
                    THEN "due" ELSE "done"
      BY <1>1 DEF Begin, Pass, Run, First, OpType, Passes, Actions
<1>3. /\ First(t, a) \in {a, "check"} /\ (First(t, a) = "check" => a # "stage")
      /\ (tools[t].central => First(t, a) = IF a = "restore" THEN "restore" ELSE "check")
      BY <1>1 DEF First, IsTool, Actions
<1>4. op' # None BY <1>2 DEF OpType, None
<1>5. \A c \in flight : ~c.live /\ c.run # runs'
      BY <1>1 DEF Control, LiveOK, Own, FlightOK, CommandType
<1>6. Control'
  <2>1. FlightOK' BY <1>1 DEF Control, FlightOK, CommandType, Layers, Changes, HasHelper
  <2>2. OpOK' BY <1>1, <1>2, <1>3 DEF OpOK, Passing, OpType, Layers, Actions
  <2>3. LiveOK' /\ LiveUnique' /\ GoneOK' BY <1>1, <1>5 DEF LiveOK, LiveUnique, GoneOK
  <2> QED BY <2>1, <2>2, <2>3 DEF Control
<1>7. a = "restore" \/ ~tools[t].central \/ staged[t][1] \notin Back(t)
      BY <1>1 DEF Back
<1>8. CASE tools[t].central /\ ~tools[t].rewrites /\ a = "activate"
  <2>1. /\ staged' \in [Layers -> [Nodes -> States]]
        /\ \A n \in Nodes : staged'[t][n] = "torn"
        /\ \A u \in Layers, n \in Nodes : u # t => staged'[u][n] = staged[u][n]
        /\ BackStays /\ StagingOK'
        /\ \A u \in Layers, n \in Nodes : tools[u].central => staged'[u][n] = staged'[u][1]
        BY <1>1, <1>7, <1>8, KeepsFacts DEF States
  <2>2. TypeOK' BY <1>1, <1>6, <2>1 DEF TypeOK, Layers, Nodes, States, history, service
  <2>3. Data' BY <1>1, <2>1, SameData DEF HelperStays, Like
  <2>4. SnapshotOK'
    <3>1. staged'[t][1] = "torn" BY <2>1, FirstNode
    <3>2. ASSUME NEW c \in flight, Changes(c), tools[c.tool].central
          PROVE  staged'[c.tool][1] \in Back(c.tool)
      <4>1. c.tool \in Layers /\ staged[c.tool][1] \in Back(c.tool)
            BY <3>2, CommandFacts DEF SnapshotOK
      <4> QED BY <2>1, <4>1, FirstNode DEF BackStays
    <3> QED BY <1>1, <1>2, <1>3, <1>8, <2>1, <3>1, <3>2 DEF SnapshotOK, Layers, Nodes, Changes, Back
  <2>5. RunOK' BY <1>1, <1>2, <1>3, <1>5, <1>8 DEF RunOK, Knows, Heard, MineOK, Nodes
  <2> QED BY <1>1, <1>6, <2>2, <2>3, <2>4, <2>5
<1>9. CASE ~(tools[t].central /\ ~tools[t].rewrites /\ a = "activate")
  <2>1. UNCHANGED staged BY <1>1, <1>9
  <2>2. TypeOK' BY <1>1, <1>6, <2>1, SamePart DEF world, Control
  <2>3. Data'
    <3>1. BackStays /\ HelperStays BY <1>1, <2>1, SameSound
    <3>2. StagingOK' BY <1>1, <2>1, SameStaging DEF Data
    <3> QED BY <1>1, <3>1, <3>2, SameData DEF Like
  <2>4. SnapshotOK'
        BY <1>1, <1>2, <1>3, <2>1 DEF SnapshotOK, Layers, Nodes, Changes, Back
  <2>5. RunOK' BY <1>1, <1>2, <1>3, <1>5 DEF RunOK, Knows, Heard, MineOK, Nodes
  <2> QED BY <1>1, <1>6, <2>2, <2>3, <2>4, <2>5
<1> QED BY <1>8, <1>9

LEMMA SendStep ==
    ASSUME IInv, NEW n \in Nodes, Send(n)
    PROVE  IInv'
<1> USE DEF IInv
<1> DEFINE d == Command(n)
<1>1. /\ op # None /\ n \in op.todo /\ Passing(op) /\ n \notin op.wait /\ runs \in Nat
      /\ UNCHANGED <<tools, world, history, service, runs>>
      /\ UNCHANGED <<content, pending, helper, staged, edited, raced, serving, loaded, blind>>
      /\ flight' = flight \cup {d}
      /\ op' = [op EXCEPT !.todo = @ \ {n}, !.wait = @ \cup {n}, !.tried = @ \cup {n}]
      BY DEF Send, Control, OpOK, FlightOK, Passing, world, history, service, bounds
<1>2. /\ op' \in OpType
      /\ op'.tool = op.tool /\ op'.action = op.action /\ op'.pass = op.pass
      /\ op'.todo = op.todo \ {n} /\ op'.wait = op.wait \cup {n} /\ op'.tried = op.tried \cup {n}
      /\ op'.failed = op.failed /\ op'.save = op.save
      /\ op'.ok = op.ok /\ op'.crossed = op.crossed
      BY <1>1 DEF Passing, OpType
<1>3. op' # None BY <1>2 DEF OpType, None
<1>4. /\ d \in CommandType /\ d.run = runs /\ d.step = "look" /\ d.live /\ d.node = n
      /\ d.tool = op.tool /\ d.pass = op.pass
      BY <1>1 DEF Command, CommandType, Passing, OpType, Steps
<1> HIDE DEF d
<1>5. Control'
  <2>1. FlightOK' BY <1>1, <1>4 DEF Control, FlightOK, CommandType, Layers, Passing, Changes, HasHelper
  <2>2. OpOK'
    <3>1. n \notin op.failed BY <1>1 DEF Passing
    <3> QED BY <1>1, <1>2, <3>1 DEF OpOK, Passing, OpType, Layers
  <2>3. LiveOK' BY <1>1, <1>2, <1>3, <1>4 DEF Control, LiveOK, Own
  <2>4. LiveUnique' BY <1>1, <1>4 DEF Control, LiveUnique, LiveOK, Own
  <2>5. GoneOK' BY <1>1, <1>2, <1>4 DEF Control, GoneOK
  <2> QED BY <2>1, <2>2, <2>3, <2>4, <2>5 DEF Control
<1>6. TypeOK' BY <1>1, <1>5, SamePart DEF Control
<1>7. Data'
  <2>1. BackStays /\ HelperStays BY <1>1, SameSound
  <2>2. StagingOK' BY <1>1, <1>4, SameStaging DEF Data, Staging
  <2> QED BY <1>1, <1>4, <2>1, <2>2, SameData DEF Changing, Like
<1>8. SnapshotOK'
      BY <1>1, <1>2, <1>4 DEF SnapshotOK, Layers, Nodes, Changes, Back
<1>9. RunOK'
  <2>1. ASSUME ~op.crossed, NEW m \in Nodes PROVE Knows(op, m)'
    <3>1. Knows(op, m) BY <1>1, <2>1 DEF RunOK
    <3> QED BY <1>1, <1>2, <3>1 DEF Knows, Heard
  <2>2. ASSUME ~op.crossed PROVE MineOK'
        BY <1>1, <1>4, <2>2 DEF RunOK, MineOK, Target
  <2> QED BY <1>2, <2>1, <2>2 DEF RunOK, Nodes
<1> QED BY <1>1, <1>5, <1>6, <1>7, <1>8, <1>9

LEMMA TimeOutStep ==
    ASSUME IInv, NEW c \in flight, TimeOut(c)
    PROVE  IInv'
<1> USE DEF IInv
<1> DEFINE d == [c EXCEPT !.live = FALSE]
<1>1. /\ c \in CommandType /\ c.node \in Nodes /\ c.live
      /\ Own(c) /\ Passing(op) /\ op # None
      /\ UNCHANGED <<tools, world, history, service, runs>>
      /\ UNCHANGED <<content, pending, helper, staged, edited, raced, serving, loaded, blind>>
      /\ flight' \subseteq (flight \ {c}) \cup {d}
      /\ op' = Answered(c.node, FALSE)
      BY CommandFacts DEF TimeOut, Own, world, history, service
<1>2. /\ d \in CommandType /\ ~d.live /\ Like(d, c)
      BY <1>1 DEF CommandType, Like
<1>3. /\ Passing(op') /\ op' # None
      /\ op'.tool = op.tool /\ op'.action = op.action /\ op'.pass = op.pass
      /\ op'.todo = op.todo /\ op'.wait = op.wait \ {c.node} /\ op'.tried = op.tried
      /\ op'.failed = op.failed \cup {c.node}
      /\ op'.save = op.save /\ op'.crossed = op.crossed /\ ~op'.ok
      BY <1>1, Answering DEF Own
<1> HIDE DEF d
<1>4. \A b \in flight' : (b \in flight /\ b # c) \/ b = d BY <1>1
<1>5. Control'
  <2>1. FlightOK'
        BY <1>1, <1>2 DEF Control, FlightOK, CommandType, Layers, Changes, HasHelper, Like
  <2>2. OpOK' BY <1>1, <1>3 DEF OpOK, Passing, OpType, Layers
  <2>3. LiveOK' BY <1>1, <1>2, <1>3 DEF Control, LiveOK, LiveUnique, Own
  <2>4. LiveUnique' BY <1>1, <1>2 DEF Control, LiveUnique
  <2>5. GoneOK'
    <3>1. d.run = runs /\ d.pass = op.pass /\ d.node \in op'.failed /\ d.node \in op'.tried
          BY <1>1, <1>2, <1>3 DEF Like, Own, Passing
    <3>2. op.failed \subseteq op'.failed BY <1>3
    <3> QED BY <1>1, <1>3, <1>4, <3>1, <3>2 DEF Control, GoneOK
  <2> QED BY <2>1, <2>2, <2>3, <2>4, <2>5 DEF Control
<1>6. TypeOK' BY <1>1, <1>5, SamePart DEF Control
<1>7. Data'
  <2>1. BackStays /\ HelperStays BY <1>1, SameSound
  <2>2. StagingOK' BY <1>1, <1>2, <1>4 DEF Data, StagingOK, Staging, Like
  <2> QED BY <1>1, <1>2, <1>4, <2>1, <2>2, SameData DEF Changing, Like
<1>8. SnapshotOK'
  <2>1. \A b \in flight' : \E e \in flight : Like(b, e) BY <1>2, <1>4 DEF Like
  <2> QED BY <1>1, <1>3, <2>1, SameSnapshot
<1>9. RunOK'
  <2>1. ASSUME ~op.crossed, NEW m \in Nodes PROVE Knows(op, m)'
    <3>1. Knows(op, m) BY <1>1, <2>1 DEF RunOK
    <3> QED BY <1>1, <1>3, <3>1 DEF Knows, Heard
  <2>2. ASSUME ~op.crossed PROVE MineOK'
        BY <1>1, <1>2, <1>4, <2>2 DEF RunOK, MineOK, Target
  <2> QED BY <1>3, <2>1, <2>2 DEF RunOK, Nodes
<1> QED BY <1>1, <1>5, <1>6, <1>7, <1>8, <1>9

\* The tool writes its snapshot.
LEMMA SaveStep ==
    ASSUME IInv, Save
    PROVE  IInv'
<1> USE DEF IInv
<1>1. /\ op # None /\ op.wait = {} /\ op.save # "done" /\ Passing(op) /\ op.tool \in Layers
      /\ tools[op.tool].central /\ (op.pass = "check" \/ tools[op.tool].rewrites)
      /\ UNCHANGED <<tools, content, pending, helper, history, service, flight, runs>>
      BY DEF Save, Unsaved, Called, Control, OpOK, Passing, OpType
<1>2. PICK how \in States, save \in {"open", "done"}, ok \in BOOLEAN :
          /\ op' = [op EXCEPT !.save = save, !.ok = ok]
          /\ \/ Keeps(op.tool, how) /\ ok = op.ok
             \/ UNCHANGED staged /\ ~ok /\ save = "done"
          /\ save = "open" => how = (IF op.pass = "check" THEN "torn" ELSE "lost") /\ ok = op.ok
                              /\ Keeps(op.tool, how)
          /\ save = "done" => how = "whole"
  <2>1. op.ok \in BOOLEAN BY <1>1 DEF Passing, OpType
  <2>2. \A o : o = [op EXCEPT !.save = "open"] => o = [op EXCEPT !.save = "open", !.ok = op.ok]
        BY <1>1 DEF Passing, OpType
  <2>3. \A o : o = [op EXCEPT !.save = "done"] => o = [op EXCEPT !.save = "done", !.ok = op.ok]
        BY <1>1 DEF Passing, OpType
  <2>4. CASE op' = [op EXCEPT !.save = "open"] /\ Keeps(op.tool, IF op.pass = "check" THEN "torn" ELSE "lost")
        BY <2>1, <2>2, <2>4 DEF States
  <2>5. CASE op' = [op EXCEPT !.save = "done"] /\ Keeps(op.tool, "whole")
        BY <2>1, <2>3, <2>5 DEF States
  <2>6. CASE op' = [op EXCEPT !.save = "done", !.ok = FALSE] /\ UNCHANGED staged
        BY <2>6 DEF States
  <2> QED BY <2>4, <2>5, <2>6 DEF Save
<1>3. /\ op' \in OpType
      /\ op'.tool = op.tool /\ op'.action = op.action /\ op'.pass = op.pass
      /\ op'.todo = op.todo /\ op'.wait = op.wait /\ op'.tried = op.tried
      /\ op'.failed = op.failed /\ op'.save = save
      /\ op'.ok = ok /\ op'.crossed = op.crossed
      BY <1>1, <1>2 DEF Passing, OpType
<1>4. op' # None BY <1>3 DEF OpType, None
<1>5. \A c \in flight : ~c.live BY <1>1 DEF Control, LiveOK, Own
<1>6. Control'
  <2>1. FlightOK' BY <1>1 DEF Control, FlightOK, CommandType, Layers, Changes, HasHelper
  <2>2. OpOK' BY <1>1, <1>2, <1>3 DEF OpOK, Passing, OpType, Layers
  <2>3. LiveOK' /\ LiveUnique' BY <1>1, <1>5 DEF LiveOK, LiveUnique
  <2>4. GoneOK' BY <1>1, <1>3 DEF Control, GoneOK
  <2> QED BY <2>1, <2>2, <2>3, <2>4 DEF Control
<1>7. how \in Back(op.tool) \/ staged[op.tool][1] \notin Back(op.tool)
      BY <1>1, <1>2 DEF SnapshotOK, Back
<1>8. CASE Keeps(op.tool, how)
  <2>1. /\ staged' \in [Layers -> [Nodes -> States]]
        /\ \A n \in Nodes : staged'[op.tool][n] = how
        /\ \A u \in Layers, n \in Nodes : u # op.tool => staged'[u][n] = staged[u][n]
        /\ BackStays /\ StagingOK'
        /\ \A u \in Layers, n \in Nodes : tools[u].central => staged'[u][n] = staged'[u][1]
        BY <1>1, <1>7, <1>8, KeepsFacts
  <2>2. TypeOK' BY <1>1, <1>6, <2>1 DEF TypeOK, Layers, Nodes, States, history, service
  <2>3. Data' BY <1>1, <2>1, SameData DEF HelperStays, Like
  <2>4. staged'[op.tool][1] = how BY <2>1, FirstNode
  <2>5. SnapshotOK'
    <3>1. ASSUME NEW c \in flight, Changes(c), tools[c.tool].central
          PROVE  staged'[c.tool][1] \in Back(c.tool)
      <4>1. c.tool \in Layers /\ staged[c.tool][1] \in Back(c.tool)
            BY <3>1, CommandFacts DEF SnapshotOK
      <4> QED BY <2>1, <4>1, FirstNode DEF BackStays
    <3>2. op.pass # "check" => how \in Back(op.tool) BY <1>1, <1>2 DEF Back
    <3>3. op.pass = "check" => (save # "done" => how = "torn") /\ (save = "done" => how = "whole")
          BY <1>2
    <3> QED BY <1>1, <1>3, <2>1, <2>4, <3>1, <3>2, <3>3 DEF SnapshotOK, Layers, Nodes, Changes, Back
  <2>6. RunOK'
    <3>1. op.pass # "stage" BY <1>1, LayersNat DEF Passing, IsTool
    <3>2. ASSUME ~op.crossed, NEW m \in Nodes PROVE Knows(op, m)'
      <4>1. Knows(op, m) BY <1>1, <3>2 DEF RunOK
      <4> QED BY <1>1, <1>3, <3>1, <4>1 DEF Knows, Heard, history
    <3>3. MineOK' BY <1>1, <1>5 DEF MineOK
    <3> QED BY <1>3, <3>2, <3>3 DEF RunOK, Nodes
  <2> QED BY <1>1, <1>6, <2>2, <2>3, <2>5, <2>6
<1>9. CASE UNCHANGED staged /\ ~ok /\ save = "done"
  <2>1. TypeOK' BY <1>1, <1>6, <1>9, SamePart DEF Control, world
  <2>2. Data'
    <3>1. BackStays /\ HelperStays BY <1>1, <1>9, SameSound
    <3>2. StagingOK' BY <1>1, <1>9, SameStaging DEF Data
    <3> QED BY <1>1, <3>1, <3>2, SameData DEF Like
  <2>3. SnapshotOK'
        BY <1>1, <1>3, <1>9 DEF SnapshotOK, Layers, Nodes, Changes, Back
  <2>4. RunOK'
    <3>1. ASSUME ~op.crossed, NEW m \in Nodes PROVE Knows(op, m)'
      <4>1. Knows(op, m) BY <1>1, <3>1 DEF RunOK
      <4> QED BY <1>1, <1>3, <1>9, <4>1 DEF Knows, Heard, history
    <3>2. MineOK' BY <1>1, <1>5 DEF MineOK
    <3> QED BY <1>3, <3>1, <3>2 DEF RunOK, Nodes
  <2> QED BY <1>1, <1>6, <2>1, <2>2, <2>3, <2>4
<1> QED BY <1>2, <1>8, <1>9

\* The run goes over to its next pass.
LEMMA CheckedStep ==
    ASSUME IInv, Checked
    PROVE  IInv'
<1> USE DEF IInv
<1>1. /\ op # None /\ op.wait = {} /\ op.todo = {} /\ op.pass = "check" /\ op.ok
      /\ op.failed = {} /\ Passing(op) /\ op.tool \in Layers
      /\ op.action \in {"activate", "restore"} /\ runs \in Nat
      /\ ~tools[op.tool].central \/ op.save = "done"
      /\ UNCHANGED <<tools, world, history, service, flight, runs>>
      /\ UNCHANGED <<content, pending, helper, staged, edited, raced, serving, loaded, blind>>
      /\ op' = [Pass(op, op.action, Nodes) EXCEPT !.tried = {}]
      BY DEF Checked, PassOver, Called, Unsaved, Control, OpOK, Passing, OpType, FlightOK,
             Actions, world, history, service, bounds
<1>2. /\ op' \in OpType
      /\ op'.tool = op.tool /\ op'.action = op.action /\ op'.pass = op.action
      /\ op'.todo = Nodes /\ op'.wait = {} /\ op'.tried = {} /\ op'.failed = {}
      /\ op'.save = (IF tools[op.tool].central /\ tools[op.tool].rewrites THEN "due" ELSE "done")
      /\ op'.ok = op.ok /\ op'.crossed = op.crossed
  <2> DEFINE o == Pass(op, op.action, Nodes)
  <2>1. op.action \in Passes /\ op.action # "check" /\ Nodes \in SUBSET Nodes
        BY <1>1 DEF Passes, Actions
  <2>2. /\ o \in OpType
        /\ o.tool = op.tool /\ o.action = op.action /\ o.pass = op.action
        /\ o.todo = Nodes /\ o.wait = {} /\ o.failed = {}
        /\ o.save = (IF tools[op.tool].central /\ tools[op.tool].rewrites THEN "due" ELSE "done")
        /\ o.ok = op.ok /\ o.crossed = op.crossed
    <3>1. Passing(op) /\ op.wait = {} BY <1>1
    <3> QED BY <2>1, <3>1 DEF Pass, Passing, OpType
  <2>3. op' = [o EXCEPT !.tried = {}] BY <1>1
  <2> HIDE DEF o
  <2> QED BY <2>2, <2>3 DEF OpType
<1>3. op' # None BY <1>2 DEF OpType, None
<1>4. \A c \in flight : ~c.live BY <1>1 DEF Control, LiveOK, Own
<1>5. Control'
  <2>1. FlightOK' BY <1>1 DEF Control, FlightOK, CommandType, Layers, Changes, HasHelper
  <2>2. OpOK' BY <1>1, <1>2 DEF OpOK, Passing, OpType, Layers
  <2>3. LiveOK' /\ LiveUnique' BY <1>1, <1>4 DEF LiveOK, LiveUnique
  <2>4. ASSUME NEW c \in flight, c.run = runs PROVE c.pass = "check"
        BY <1>1, <2>4 DEF Control, GoneOK
  <2>5. GoneOK' BY <1>1, <1>2, <2>4 DEF GoneOK
  <2> QED BY <2>1, <2>2, <2>3, <2>5 DEF Control
<1>6. TypeOK' BY <1>1, <1>5, SamePart DEF Control
<1>7. Data'
  <2>1. BackStays /\ HelperStays BY <1>1, SameSound
  <2>2. StagingOK' BY <1>1, SameStaging DEF Data
  <2> QED BY <1>1, <2>1, <2>2, SameData DEF Like
<1>8. SnapshotOK'
      BY <1>1, <1>2 DEF SnapshotOK, Layers, Nodes, Changes, Back
<1>9. RunOK'
  <2>1. ASSUME ~op.crossed, NEW m \in Nodes PROVE Knows(op, m)'
    <3>1. Knows(op, m) /\ Heard(op, m) BY <1>1, <2>1 DEF RunOK, Heard
    <3> QED BY <1>1, <1>2, <3>1 DEF Knows, Heard
  <2>2. MineOK' BY <1>1, <1>4 DEF MineOK
  <2> QED BY <1>2, <2>1, <2>2 DEF RunOK, Nodes
<1> QED BY <1>1, <1>5, <1>6, <1>7, <1>8, <1>9

LEMMA RollBackStep ==
    ASSUME IInv, RollBack
    PROVE  IInv'
<1> USE DEF IInv
<1>1. /\ op # None /\ op.wait = {} /\ op.pass = "activate" /\ op.action = "activate"
      /\ Passing(op) /\ op.tool \in Layers /\ op.tried \in SUBSET Nodes /\ runs \in Nat
      /\ tools[op.tool].undoes # "never"
      /\ UNCHANGED <<tools, world, history, service, flight, runs>>
      /\ UNCHANGED <<content, pending, helper, staged, edited, raced, serving, loaded, blind>>
      /\ op' = Pass(op, "restore", op.tried)
      BY DEF RollBack, PassOver, Called, Undoes, Control, OpOK, Passing, OpType, FlightOK,
             world, history, service, bounds
<1>2. tools[op.tool].central BY <1>1, LayersNat DEF IsTool
<1>3. /\ op' \in OpType
      /\ op'.tool = op.tool /\ op'.action = op.action /\ op'.pass = "restore"
      /\ op'.todo = op.tried /\ op'.wait = {} /\ op'.tried = op.tried /\ op'.failed = {}
      /\ op'.save = (IF tools[op.tool].rewrites THEN "due" ELSE "done")
      /\ op'.ok = op.ok /\ op'.crossed = op.crossed
  <2>1. "restore" \in Passes BY DEF Passes, Actions
  <2> QED BY <1>1, <1>2, <2>1, PassFacts
<1>4. op' # None BY <1>3 DEF OpType, None
<1>5. \A c \in flight : ~c.live BY <1>1 DEF Control, LiveOK, Own
<1>6. Control'
  <2>1. FlightOK' BY <1>1 DEF Control, FlightOK, CommandType, Layers, Changes, HasHelper
  <2>2. OpOK' BY <1>1, <1>2, <1>3 DEF OpOK, Passing, OpType, Layers
  <2>3. LiveOK' /\ LiveUnique' BY <1>1, <1>5 DEF LiveOK, LiveUnique
  <2>4. ASSUME NEW c \in flight, c.run = runs PROVE c.pass \in {"check", "activate"}
        BY <1>1, <2>4 DEF Control, GoneOK
  <2>5. GoneOK' BY <1>1, <1>3, <2>4 DEF GoneOK
  <2> QED BY <2>1, <2>2, <2>3, <2>5 DEF Control
<1>7. TypeOK' BY <1>1, <1>6, SamePart DEF Control
<1>8. Data'
  <2>1. BackStays /\ HelperStays BY <1>1, SameSound
  <2>2. StagingOK' BY <1>1, SameStaging DEF Data
  <2> QED BY <1>1, <2>1, <2>2, SameData DEF Like
<1>9. SnapshotOK'
      BY <1>1, <1>3 DEF SnapshotOK, Layers, Nodes, Changes, Back
<1>10. RunOK'
  <2>1. ASSUME ~op.crossed, NEW m \in Nodes PROVE Knows(op, m)'
    <3>1. Knows(op, m) BY <1>1, <2>1 DEF RunOK
    <3> QED BY <1>1, <1>2, <1>3, <3>1 DEF Knows, Heard
  <2>2. MineOK' BY <1>1, <1>5 DEF MineOK
  <2> QED BY <1>3, <2>1, <2>2 DEF RunOK, Nodes
<1> QED BY <1>1, <1>6, <1>7, <1>8, <1>9, <1>10

LEMMA EndStep ==
    ASSUME IInv, End
    PROVE  IInv'
<1> USE DEF IInv
<1>1. /\ op # None /\ op.wait = {} /\ op' = None
      /\ UNCHANGED <<tools, world, history, service, flight, runs>>
      /\ UNCHANGED <<content, pending, helper, staged, edited, raced, serving, loaded, blind>>
      BY DEF End, RunOver, PassOver, Called, world, history, service, bounds
<1>2. \A c \in flight : ~c.live BY <1>1 DEF Control, LiveOK, Own
<1>3. Control'
  <2>1. FlightOK' BY <1>1 DEF Control, FlightOK, CommandType, Layers, Changes, HasHelper
  <2>2. OpOK' /\ LiveOK' /\ LiveUnique' /\ GoneOK'
        BY <1>1, <1>2 DEF OpOK, LiveOK, LiveUnique, GoneOK
  <2> QED BY <2>1, <2>2 DEF Control
<1>4. TypeOK' BY <1>1, <1>3, SamePart DEF Control
<1>5. Data'
  <2>1. BackStays /\ HelperStays BY <1>1, SameSound
  <2>2. StagingOK' BY <1>1, SameStaging DEF Data
  <2> QED BY <1>1, <2>1, <2>2, SameData DEF Like
<1>6. SnapshotOK' BY <1>1, SameSnapshot DEF Like
<1>7. RunOK' BY <1>1 DEF RunOK
<1> QED BY <1>1, <1>3, <1>4, <1>5, <1>6, <1>7

LEMMA DieStep ==
    ASSUME IInv, Die
    PROVE  IInv'
<1> USE DEF IInv
<1> DEFINE After(c) == [c EXCEPT !.live = FALSE]
<1>1. /\ op' = None /\ flight' = {After(c) : c \in flight}
      /\ UNCHANGED <<tools, world, history, service, runs>>
      /\ UNCHANGED <<content, pending, helper, staged, edited, raced, serving, loaded, blind>>
      BY DEF Die, world, history, service
<1>2. ASSUME NEW c \in flight
      PROVE  After(c) \in CommandType /\ ~After(c).live /\ Like(After(c), c)
      BY CommandFacts DEF CommandType, Like
<1>3. ASSUME NEW d \in flight'
      PROVE  \E c \in flight : d = After(c) /\ d \in CommandType /\ ~d.live /\ Like(d, c)
      BY <1>1, <1>2
<1> HIDE DEF After
<1>4. Control'
  <2>1. FlightOK'
    <3>1. flight' \subseteq CommandType BY <1>3
    <3>2. ASSUME NEW d \in flight'
          PROVE  /\ d.run <= runs
                 /\ d.pass = "stage" => "stage" \in tools[d.tool].actions
                 /\ d.step = "fill" => d.pass = "stage"
                 /\ d.step \in {"helper", "write", "replace"} => Changes(d)
                 /\ d.step = "helper" => HasHelper(d)
                 /\ d.step = "write" => ~tools[d.tool].central
      <4>1. PICK c \in flight : Like(d, c) BY <1>3
      <4> QED BY <4>1 DEF Control, FlightOK, Like, Changes, HasHelper
    <3> QED BY <1>1, <3>1, <3>2 DEF Control, FlightOK, CommandType, Layers, Changes, HasHelper
  <2>2. OpOK' /\ LiveOK' /\ LiveUnique' /\ GoneOK'
        BY <1>1, <1>3 DEF OpOK, LiveOK, LiveUnique, GoneOK
  <2> QED BY <2>1, <2>2 DEF Control
<1>5. TypeOK' BY <1>1, <1>4, SamePart DEF Control
<1>6. Data'
  <2>1. BackStays /\ HelperStays BY <1>1, SameSound
  <2>2. StagingOK'
    <3>1. ASSUME NEW d \in flight', Staging(d)
          PROVE  staged'[d.tool][d.node] = IF tools'[d.tool].again THEN "torn" ELSE "part"
      <4>1. PICK c \in flight : Like(d, c) BY <1>3
      <4> QED BY <1>1, <3>1, <4>1 DEF Data, StagingOK, Staging, Like
    <3>2. ASSUME NEW d \in flight', NEW e \in flight', Staging(d), Staging(e),
                 d.tool = e.tool, d.node = e.node
          PROVE  d = e
      <4>1. PICK c \in flight : d = After(c) /\ Like(d, c) BY <1>3
      <4>2. PICK b \in flight : e = After(b) /\ Like(e, b) BY <1>3
      <4>3. b = c BY <3>2, <4>1, <4>2 DEF Data, StagingOK, Staging, Like
      <4> QED BY <4>1, <4>2, <4>3
    <3> QED BY <3>1, <3>2 DEF StagingOK, Staging
  <2> QED BY <1>1, <1>3, <2>1, <2>2, SameData
<1>7. SnapshotOK' BY <1>1, <1>3, SameSnapshot
<1>8. RunOK' BY <1>1 DEF RunOK
<1> QED BY <1>1, <1>4, <1>5, <1>6, <1>7, <1>8

-----------------------------------------------------------------------------
(* One lemma for each action: of a command.                                *)

\* What all commands have in common.
LEMMA CommandTail ==
    ASSUME IInv, NEW c \in flight, UNCHANGED <<tools, runs>>, Control', Data', RunOK',
           \A t \in Layers, n \in Nodes : tools[t].central => staged'[t][n] = staged[t][n],
           \/ \E good, changes \in BOOLEAN : Finish(c, good, changes)
           \/ \E next, changes : changes \in BOOLEAN /\ GoOn(c, next, changes),
           content' \in [Nodes -> Layers \cup {0, Foreign}],
           pending' \in [Layers -> [Nodes -> Layers \cup {0, NoFile}]],
           helper' \in [Nodes -> SUBSET Layers],
           staged' \in [Layers -> [Nodes -> States]],
           raced' \subseteq Nodes, UNCHANGED <<edited, service>>
    PROVE  IInv'
<1> USE DEF IInv
<1>1. UNCHANGED <<serving, loaded, blind>> BY DEF service
<1>2. TypeOK' BY <1>1 DEF TypeOK, Layers, Nodes, States, Control, FlightOK, CommandType
<1>3. SnapshotOK'
  <2>1. \A b \in flight' : \E e \in flight : b.pass = e.pass /\ b.tool = e.tool
        BY CommandFacts DEF Finish, GoOn, CommandType
  <2>2. \/ op' = None
        \/ /\ op # None /\ op'.tool = op.tool /\ op'.pass = op.pass
           /\ op'.save = op.save /\ (op'.ok => op.ok)
    <3>1. CASE \E changes \in BOOLEAN : Noticed(c, changes)
          BY <3>1, Noticing DEF Control, Alike
    <3>2. CASE c.live /\ \E good \in BOOLEAN : op' = Answered(c.node, good)
      <4>1. op # None /\ Passing(op) /\ c.node \in op.wait BY <3>2, CommandFacts DEF Own
      <4>2. PICK good \in BOOLEAN : op' = Answered(c.node, good) BY <3>2
      <4> QED BY <4>1, <4>2, Answering
    <3> QED BY <3>1, <3>2 DEF Finish, GoOn
  <2>3. ASSUME NEW b \in flight', Changes(b), tools[b.tool].central
        PROVE  staged'[b.tool][1] \in Back(b.tool)
    <3>1. PICK e \in flight : b.pass = e.pass /\ b.tool = e.tool BY <2>1
    <3>2. e.tool \in Layers /\ Changes(e) BY <2>3, <3>1, CommandFacts DEF Changes
    <3> QED BY <2>3, <3>1, <3>2, FirstNode DEF SnapshotOK
  <2>4. ASSUME op' # None, tools[op'.tool].central
        PROVE  staged'[op'.tool][1] = staged[op'.tool][1]
    <3>1. op.tool \in Layers BY <2>2, <2>4 DEF Control, OpOK, Passing, OpType
    <3> QED BY <2>2, <2>4, <3>1, FirstNode
  <2>5. \A t \in Layers, n \in Nodes : tools[t].central => staged'[t][n] = staged'[t][1]
        BY FirstNode DEF SnapshotOK
  <2> QED BY <2>2, <2>3, <2>4, <2>5 DEF SnapshotOK, Layers, Nodes, Changes, Back
<1> QED BY <1>2, <1>3

\* A command that changes nothing, and is over.
LEMMA IdleStep ==
    ASSUME IInv, NEW c \in flight, NEW good \in BOOLEAN, NEW changes \in BOOLEAN,
           Finish(c, good, changes),
           UNCHANGED <<tools, runs, content, pending, helper, staged, history, service>>,
           good => c.pass = "check" /\ Looks(c),
           changes => c.pass # "check"
    PROVE  IInv'
<1> USE DEF IInv
<1>0. UNCHANGED <<edited, raced>> BY DEF history
<1>1. flight' = flight \ {c} BY DEF Finish
<1>2. Control' BY FinishControl
<1>3. Data'
  <2>1. BackStays /\ HelperStays BY SameSound
  <2>2. StagingOK' BY <1>1, SameStaging DEF Data
  <2> QED BY <1>1, <2>1, <2>2, SameData DEF Like
<1>4. RunOK'
  <2>1. \A n \in Nodes : Stays(n) BY DEF Stays, StagedStays
  <2>2. c.node \in Nodes BY CommandFacts
  <2>3. good /\ tools[c.tool].central => content'[c.node] = c.tool - 1 BY DEF Looks
  <2> QED BY <1>0, <2>1, <2>2, <2>3, FinishRun
<1> QED BY <1>0, <1>2, <1>3, <1>4, CommandTail DEF TypeOK, States

LEMMA RefuseStep ==
    ASSUME IInv, NEW c \in flight, Refuse(c)
    PROVE  IInv'
<1>1. /\ Finish(c, FALSE, FALSE)
      /\ UNCHANGED <<tools, runs, content, pending, helper, staged, history, service>>
      BY DEF Refuse, world, bounds
<1> QED BY <1>1, IdleStep

LEMMA CheckStep ==
    ASSUME IInv, NEW c \in flight, Check(c)
    PROVE  IInv'
<1>1. /\ Finish(c, TRUE, FALSE) /\ c.pass = "check" /\ Looks(c)
      /\ UNCHANGED <<tools, runs, content, pending, helper, staged, history, service>>
      BY DEF Check, world, bounds
<1> QED BY <1>1, IdleStep

\* Of a directory that has become x nothing whole has been lost.
LEMMA StagedData ==
    ASSUME IInv, NEW c \in flight, NEW x \in {"torn", "part", "whole"}, c.pass = "stage",
           staged' = [staged EXCEPT ![c.tool][c.node] = x],
           x # "whole" => staged[c.tool][c.node] # "whole",
           UNCHANGED <<tools, content, pending, helper, history, service>>,
           \A b \in flight' : Changing(b) => \E e \in flight : Like(b, e),
           StagingOK'
    PROVE  /\ staged' \in [Layers -> [Nodes -> States]]
           /\ \A t \in Layers, n \in Nodes : tools[t].central => staged'[t][n] = staged[t][n]
           /\ \A n \in Nodes : StagedStays(n)
           /\ Data'
<1> USE DEF IInv
<1>1. /\ c.tool \in Layers /\ c.node \in Nodes /\ ~tools[c.tool].central /\ ~tools[c.tool].rewrites
  <2>1. c.tool \in Layers /\ c.node \in Nodes /\ "stage" \in tools[c.tool].actions
        BY CommandFacts DEF Control, FlightOK
  <2> QED BY <2>1, LayersNat DEF IsTool
<1>2. /\ staged' \in [Layers -> [Nodes -> States]]
      /\ \A t \in Layers, n \in Nodes :
             staged'[t][n] = IF t = c.tool /\ n = c.node THEN x ELSE staged[t][n]
      BY <1>1 DEF TypeOK, States
<1>3. \A t \in Layers, n \in Nodes : staged[t][n] = "whole" => staged'[t][n] = "whole"
      BY <1>1, <1>2
<1>4. BackStays BY <1>1, <1>2, <1>3 DEF BackStays, Back
<1>5. Data' BY <1>4, SameData DEF HelperStays
<1> QED BY <1>1, <1>2, <1>3, <1>5 DEF StagedStays

LEMMA StageStep ==
    ASSUME IInv, NEW c \in flight, Stage(c)
    PROVE  IInv'
<1> USE DEF IInv
<1>1. /\ c \in CommandType /\ c.tool \in Layers /\ c.node \in Nodes /\ c.pass = "stage"
      /\ UNCHANGED <<tools, runs, content, pending, helper, history, edited, raced, service>>
      BY CommandFacts DEF Stage, bounds, history
<1>2. \A t \in Layers, n \in Nodes, x \in {"torn", "part", "whole"} :
          staged' = [staged EXCEPT ![c.tool][c.node] = x] =>
              staged'[t][n] = IF t = c.tool /\ n = c.node THEN x ELSE staged[t][n]
      BY <1>1 DEF TypeOK
<1>3. ASSUME NEW b \in flight, Staging(b)
      PROVE  /\ b.tool \in Layers /\ b.node \in Nodes
             /\ staged[b.tool][b.node] = IF tools[b.tool].again THEN "torn" ELSE "part"
      BY <1>3, CommandFacts DEF Data, StagingOK
<1>4. CASE /\ c.step = "look" /\ Stageable(c) /\ staged[c.tool][c.node] # "whole"
           /\ staged' = [staged EXCEPT ![c.tool][c.node] = IF tools[c.tool].again THEN "torn" ELSE "part"]
           /\ GoOn(c, "fill", TRUE)
  <2> DEFINE d == [c EXCEPT !.step = "fill"]
             x == IF tools[c.tool].again THEN "torn" ELSE "part"
  <2>1. /\ Control' /\ flight' = (flight \ {c}) \cup {d}
        /\ d.pass = "stage" /\ d.tool = c.tool /\ d.node = c.node /\ d.step = "fill"
        BY <1>1, <1>4, GoOnControl DEF Steps
  <2>2. /\ staged' = [staged EXCEPT ![c.tool][c.node] = x]
        /\ x \in {"torn", "part", "whole"} /\ x # "whole"
        BY <1>4
  <2>3. ASSUME NEW b \in flight, Staging(b), b.tool = c.tool, b.node = c.node PROVE FALSE
        BY <1>3, <1>4, <2>3 DEF Stageable
  <2> HIDE DEF d, x
  <2>a. staged'[c.tool][c.node] = x BY <1>1, <1>2, <2>2
  <2> USE DEF x
  <2>4. StagingOK'
    <3>1. ASSUME NEW b \in flight', Staging(b)
          PROVE  staged'[b.tool][b.node] = IF tools'[b.tool].again THEN "torn" ELSE "part"
      <4>1. CASE b = d BY <1>1, <2>1, <2>a, <4>1
      <4>2. CASE b # d
        <5>1. b \in flight BY <2>1, <4>2
        <5>2. ~(b.tool = c.tool /\ b.node = c.node) BY <2>3, <3>1, <5>1
        <5>3. staged'[b.tool][b.node] = staged[b.tool][b.node]
              BY <1>2, <1>3, <2>2, <3>1, <5>1, <5>2
        <5> QED BY <1>1, <1>3, <3>1, <5>1, <5>3
      <4> QED BY <4>1, <4>2
    <3>2. ASSUME NEW b \in flight', NEW e \in flight', Staging(b), Staging(e),
                 b.tool = e.tool, b.node = e.node
          PROVE  b = e
          BY <2>1, <2>3, <3>2 DEF Data, StagingOK
    <3> QED BY <3>1, <3>2 DEF StagingOK, Staging
  <2>5. \A b \in flight' : Changing(b) => \E e \in flight : Like(b, e)
        BY <2>1 DEF Changing, Like
  <2>6. /\ staged' \in [Layers -> [Nodes -> States]]
        /\ \A t \in Layers, n \in Nodes : tools[t].central => staged'[t][n] = staged[t][n]
        /\ \A n \in Nodes : StagedStays(n)
        /\ Data'
        BY <1>1, <1>4, <2>2, <2>4, <2>5, StagedData
  <2>7. RunOK' BY <1>1, <1>4, <2>6, GoOnRun DEF Steps
  <2> QED BY <1>1, <1>4, <2>1, <2>6, <2>7, CommandTail DEF TypeOK
<1>5. CASE /\ c.step = "fill" \/ (Stageable(c) /\ staged[c.tool][c.node] = "whole")
           /\ staged' = [staged EXCEPT ![c.tool][c.node] = "whole"]
           /\ Finish(c, TRUE, TRUE)
  <2>1. flight' = flight \ {c} BY <1>5 DEF Finish
  <2>2. ASSUME NEW b \in flight', Staging(b), b.tool = c.tool, b.node = c.node PROVE FALSE
    <3>1. CASE c.step = "fill" BY <1>1, <2>1, <2>2, <3>1 DEF Data, StagingOK, Staging
    <3>2. CASE staged[c.tool][c.node] = "whole" BY <1>3, <2>1, <2>2, <3>2
    <3> QED BY <1>5, <3>1, <3>2
  <2>3. StagingOK'
    <3>1. ASSUME NEW b \in flight', Staging(b)
          PROVE  staged'[b.tool][b.node] = IF tools'[b.tool].again THEN "torn" ELSE "part"
          BY <1>1, <1>2, <1>3, <1>5, <2>1, <2>2, <3>1
    <3>2. ASSUME NEW b \in flight', NEW e \in flight', Staging(b), Staging(e),
                 b.tool = e.tool, b.node = e.node
          PROVE  b = e
          BY <2>1, <3>2 DEF Data, StagingOK
    <3> QED BY <3>1, <3>2 DEF StagingOK, Staging
  <2>4. /\ staged' \in [Layers -> [Nodes -> States]]
        /\ \A t \in Layers, n \in Nodes : tools[t].central => staged'[t][n] = staged[t][n]
        /\ \A n \in Nodes : StagedStays(n)
        /\ Data'
        BY <1>1, <1>5, <2>1, <2>3, StagedData DEF Like
  <2>5. Control' BY <1>1, <1>5, FinishControl
  <2>6. staged'[c.tool][c.node] = "whole" BY <1>1, <1>2, <1>5
  <2>7. \A n \in Nodes : Stays(n) BY <1>1, <2>4 DEF Stays
  <2>8. RunOK' BY <1>1, <1>5, <2>6, <2>7, FinishRun
  <2> QED BY <1>1, <1>5, <2>4, <2>5, <2>8, CommandTail DEF TypeOK
<1> QED BY <1>4, <1>5 DEF Stage


\* What a command finds when it looks.
LEMMA ReadyFacts ==
    ASSUME IInv, NEW c \in flight, Changes(c), Ready(c)
    PROVE  /\ c.node \in edited => c.node \in raced
           /\ \A t \in Layers : t <= c.tool - 1 => Sound(t, c.node)
           /\ staged[c.tool][c.node] \in Back(c.tool)
           /\ ~HasHelper(c) /\ c.pass = "activate" => Sound(c.tool, c.node)
           /\ ~(serving /\ \A t \in Layers : tools[t].guard)
<1> USE DEF IInv
<1>1. c.tool \in Layers /\ c.node \in Nodes BY CommandFacts
<1>2. c.tool \in Int /\ c.tool >= 1 BY <1>1, LayerPositive
<1>3. /\ content[c.node] \in {c.tool - 1, c.tool}
      /\ tools[c.tool].guard => ~serving
      /\ tools[c.tool].central \/ staged[c.tool][c.node] = "whole"
      BY DEF Ready
<1>4. content[c.node] # Foreign BY <1>2, <1>3 DEF Foreign
<1>5. c.node \in edited => c.node \in raced BY <1>1, <1>4 DEF Data, EditedOK
<1>6. ASSUME NEW t \in Layers, t <= c.tool - 1 PROVE Sound(t, c.node)
  <2>1. t \in Int BY LayerPositive
  <2>2. content[c.node] >= t BY <1>2, <1>3, <1>6, <2>1
  <2> QED BY <1>1, <2>2 DEF Data, Kept
<1>7. staged[c.tool][c.node] \in Back(c.tool)
  <2>1. CASE tools[c.tool].central
        BY <1>1, <2>1 DEF SnapshotOK
  <2> QED BY <1>3, <2>1 DEF Back
<1>8. ~HasHelper(c) /\ c.pass = "activate" => Sound(c.tool, c.node)
      BY <1>7 DEF HasHelper, Sound
<1>9. ~(serving /\ \A t \in Layers : tools[t].guard) BY <1>1, <1>3
<1> QED BY <1>5, <1>6, <1>7, <1>8, <1>9

\* A command is on its way from its look to its replacement.
LEMMA ChangingData ==
    ASSUME IInv, NEW c \in flight, NEW d, flight' = (flight \ {c}) \cup {d},
           d.tool = c.tool, d.pass = c.pass, d.node = c.node, Changing(d),
           UNCHANGED <<tools, content, staged, history, service>>,
           HelperStays, PendingOK',
           c.node \in edited => c.node \in raced,
           \A t \in Layers : t <= c.tool - 1 => Sound(t, c.node),
           staged[c.tool][c.node] \in Back(c.tool),
           c.pass = "activate" /\ d.step # "helper" => Sound(c.tool, c.node)',
           serving /\ (\A t \in Layers : tools[t].guard) => c.node \in blind
    PROVE  Data'
<1> USE DEF IInv
<1>0. /\ UNCHANGED <<edited, raced, serving, loaded, blind>>
      /\ c.tool \in Layers /\ c.node \in Nodes
      BY CommandFacts DEF history, service
<1>1. ASSUME NEW t \in Layers, NEW n \in Nodes, Sound(t, n) PROVE Sound(t, n)'
      BY <1>1, SoundStays DEF BackStays
<1>2. Kept' BY <1>1 DEF Data, Kept, Layers, Nodes
<1>3. EditedOK' BY <1>0 DEF Data, EditedOK, Nodes
<1>4. StagingOK'
  <2>1. \A b \in flight' : Staging(b) => b \in flight BY DEF Staging, Changing
  <2> QED BY <2>1, SameStaging DEF Data
<1>5. ChangingOK'
  <2>1. ASSUME NEW b \in flight', Changing(b)
        PROVE  /\ b.node \in edited' => b.node \in raced'
               /\ \A t \in Layers : t <= b.tool - 1 => Sound(t, b.node)'
               /\ staged'[b.tool][b.node] \in Back(b.tool)'
               /\ b.pass = "activate" /\ b.step # "helper" => Sound(b.tool, b.node)'
    <3>1. CASE b = d BY <1>0, <1>1, <3>1 DEF Back
    <3>2. CASE b # d
      <4>1. b \in flight /\ b.tool \in Layers /\ b.node \in Nodes BY <3>2, CommandFacts
      <4> QED BY <1>0, <1>1, <2>1, <4>1 DEF Data, ChangingOK, Back
    <3> QED BY <3>1, <3>2
  <2> QED BY <2>1 DEF ChangingOK, Changing, Layers
<1>6. ServingOK'
      BY <1>0 DEF Data, ServingOK, Changing, Layers, Nodes
<1> QED BY <1>2, <1>3, <1>4, <1>5, <1>6 DEF Data

LEMMA LookStep ==
    ASSUME IInv, NEW c \in flight, Look(c)
    PROVE  IInv'
<1> USE DEF IInv
<1> DEFINE next == IF HasHelper(c) THEN "helper"
                   ELSE IF tools[c.tool].central THEN "replace" ELSE "write"
           d == [c EXCEPT !.step = next]
<1>1. /\ Changes(c) /\ Ready(c) /\ GoOn(c, next, FALSE)
      /\ UNCHANGED <<tools, runs, content, pending, helper, staged, edited, raced, history, service>>
      BY DEF Look, world, history, bounds
<1>2. /\ next \in Steps /\ next \in {"helper", "write", "replace"}
      /\ next = "helper" <=> HasHelper(c)
      /\ next = "write" => ~tools[c.tool].central
      /\ next = "replace" => tools[c.tool].central
      BY DEF Steps
<1> HIDE DEF next
<1>3. /\ Control' /\ flight' = (flight \ {c}) \cup {d}
      /\ d.tool = c.tool /\ d.pass = c.pass /\ d.node = c.node /\ d.step = next
      BY <1>1, <1>2, GoOnControl
<1> HIDE DEF d
<1>4. PendingOK' BY <1>1 DEF Data, PendingOK, Sound, Back, Layers, Nodes
<1>5. Data'
  <2>1. Changing(d) BY <1>2, <1>3 DEF Changing
  <2>2. ~HasHelper(c) /\ c.pass = "activate" => Sound(c.tool, c.node)'
        BY <1>1, ReadyFacts DEF Sound, Back
  <2> QED BY <1>1, <1>2, <1>3, <1>4, <2>1, <2>2, ReadyFacts, ChangingData DEF HelperStays
<1>6. RunOK' BY <1>1, <1>2, GoOnRun DEF StagedStays
<1> QED BY <1>1, <1>3, <1>5, <1>6, CommandTail DEF TypeOK, States

LEMMA HelpStep ==
    ASSUME IInv, NEW c \in flight, Help(c)
    PROVE  IInv'
<1> USE DEF IInv
<1> DEFINE d == [c EXCEPT !.step = "write"]
<1>1. /\ c.step = "helper" /\ GoOn(c, "write", TRUE)
      /\ c.tool \in Layers /\ c.node \in Nodes /\ HasHelper(c) /\ Changes(c)
      /\ helper' = [helper EXCEPT ![c.node] = @ \cup {c.tool}]
      /\ UNCHANGED <<tools, runs, content, pending, staged, edited, raced, history, service>>
      BY CommandFacts DEF Help, history, bounds, Control, FlightOK
<1>2. c.pass = "activate" /\ ~tools[c.tool].central
      BY <1>1, LayersNat DEF HasHelper, IsTool
<1>3. /\ helper' \in [Nodes -> SUBSET Layers] /\ HelperStays
      /\ c.tool \in helper'[c.node]
      BY <1>1 DEF TypeOK, HelperStays
<1>4. /\ Control' /\ flight' = (flight \ {c}) \cup {d}
      /\ d.tool = c.tool /\ d.pass = c.pass /\ d.node = c.node /\ d.step = "write"
      BY <1>1, <1>2, GoOnControl DEF Steps
<1> HIDE DEF d
<1>5. /\ c.node \in edited => c.node \in raced
      /\ \A t \in Layers : t <= c.tool - 1 => Sound(t, c.node)
      /\ staged[c.tool][c.node] \in Back(c.tool)
      /\ serving /\ (\A t \in Layers : tools[t].guard) => c.node \in blind
      BY <1>1 DEF Data, ChangingOK, ServingOK, Changing
<1>6. PendingOK'
  <2>1. ASSUME NEW t \in Layers, NEW n \in Nodes, Sound(t, n) PROVE Sound(t, n)'
        BY <1>1, <1>3, <2>1, SoundStays DEF BackStays
  <2> QED BY <1>1, <2>1 DEF Data, PendingOK, Layers, Nodes
<1>7. Data'
  <2>1. Changing(d) BY <1>4 DEF Changing
  <2>2. Sound(c.tool, c.node)' BY <1>1, <1>3, <1>5 DEF Sound, Back
  <2> QED BY <1>1, <1>3, <1>4, <1>5, <1>6, <2>1, <2>2, ChangingData
<1>8. RunOK' BY <1>1, <1>2, GoOnRun DEF StagedStays, Steps
<1> QED BY <1>1, <1>3, <1>4, <1>7, <1>8, CommandTail DEF TypeOK, States

\* What a command on its way is to write can be undone.
LEMMA TargetFacts ==
    ASSUME IInv, NEW c \in flight, c.step \in {"write", "replace"}
    PROVE  /\ Target(c) \in Layers \cup {0}
           /\ \A t \in Layers : Target(c) >= t => Sound(t, c.node)
<1> USE DEF IInv
<1>1. c.tool \in Layers /\ c.tool - 1 \in Layers \cup {0} BY CommandFacts, LayersNat
<1>2. /\ \A t \in Layers : t <= c.tool - 1 => Sound(t, c.node)
      /\ c.pass = "activate" => Sound(c.tool, c.node)
      BY DEF Data, ChangingOK, Changing
<1>3. ASSUME NEW t \in Layers, Target(c) >= t PROVE Sound(t, c.node)
  <2>1. t \in Int /\ c.tool \in Int BY <1>1, LayerPositive
  <2>2. t <= c.tool - 1 \/ (c.pass = "activate" /\ t = c.tool)
        BY <1>3, <2>1 DEF Target
  <2> QED BY <1>2, <2>2
<1> QED BY <1>1, <1>3 DEF Target

LEMMA WriteStep ==
    ASSUME IInv, NEW c \in flight, Write(c)
    PROVE  IInv'
<1> USE DEF IInv
<1> DEFINE d == [c EXCEPT !.step = "replace"]
<1>1. /\ c.step = "write" /\ GoOn(c, "replace", TRUE)
      /\ c.tool \in Layers /\ c.node \in Nodes /\ Changes(c)
      /\ pending' = [pending EXCEPT ![c.tool][c.node] = Target(c)]
      /\ UNCHANGED <<tools, runs, content, helper, staged, edited, raced, history, service>>
      BY CommandFacts DEF Write, history, bounds, Control, FlightOK
<1>2. /\ pending' \in [Layers -> [Nodes -> Layers \cup {0, NoFile}]]
      /\ \A t \in Layers, n \in Nodes :
             pending'[t][n] = IF t = c.tool /\ n = c.node THEN Target(c) ELSE pending[t][n]
      BY <1>1, TargetFacts DEF TypeOK
<1>3. /\ Control' /\ flight' = (flight \ {c}) \cup {d}
      /\ d.tool = c.tool /\ d.pass = c.pass /\ d.node = c.node /\ d.step = "replace"
      BY <1>1, GoOnControl DEF Steps
<1> HIDE DEF d
<1>4. /\ c.node \in edited => c.node \in raced
      /\ \A t \in Layers : t <= c.tool - 1 => Sound(t, c.node)
      /\ staged[c.tool][c.node] \in Back(c.tool)
      /\ c.pass = "activate" => Sound(c.tool, c.node)
      /\ serving /\ (\A t \in Layers : tools[t].guard) => c.node \in blind
      BY <1>1 DEF Data, ChangingOK, ServingOK, Changing
<1>5. \A t \in Layers, n \in Nodes : Sound(t, n)' <=> Sound(t, n)
      BY <1>1 DEF Sound, Back
<1>6. PendingOK'
  <2>1. ASSUME NEW n \in Nodes, NEW t \in Layers, NEW u \in Layers, pending'[t][n] >= u
        PROVE  Sound(u, n)'
    <3>1. CASE t = c.tool /\ n = c.node BY <1>1, <1>2, <1>5, <2>1, <3>1, TargetFacts
    <3>2. CASE ~(t = c.tool /\ n = c.node) BY <1>2, <1>5, <2>1, <3>2 DEF Data, PendingOK
    <3> QED BY <3>1, <3>2
  <2> QED BY <1>1, <2>1 DEF PendingOK, Layers, Nodes
<1>7. Data'
  <2>1. Changing(d) BY <1>3 DEF Changing
  <2> QED BY <1>1, <1>3, <1>4, <1>5, <1>6, <2>1, ChangingData DEF HelperStays
<1>8. RunOK'
  <2>1. \A t \in Layers, n \in Nodes :
            pending'[t][n] # pending[t][n] => t = c.tool /\ n = c.node
        BY <1>2
  <2>2. pending'[c.tool][c.node] = Target(c) BY <1>1, <1>2
  <2>3. c.pass # "check" BY <1>1 DEF Changes
  <2> QED BY <1>1, <2>1, <2>2, <2>3, GoOnRun DEF StagedStays, Steps
<1> QED BY <1>1, <1>2, <1>3, <1>7, <1>8, CommandTail DEF TypeOK, States

\* A command that is over has given its file the content k.
LEMMA ContentData ==
    ASSUME IInv, NEW c \in flight, NEW k \in Layers \cup {0, Foreign}, Changing(c),
           flight' = flight \ {c},
           content' = [content EXCEPT ![c.node] = k],
           \A t \in Layers : k >= t => Sound(t, c.node),
           \A t \in Layers, n \in Nodes : pending'[t][n] \in {pending[t][n], NoFile},
           k = Foreign => c.node \in raced',
           raced \subseteq raced',
           UNCHANGED <<tools, helper, staged, edited, service>>
    PROVE  content' \in [Nodes -> Layers \cup {0, Foreign}] /\ Data'
<1> USE DEF IInv
<1>1. /\ UNCHANGED <<serving, loaded, blind>>
      /\ c.tool \in Layers /\ c.node \in Nodes
      BY CommandFacts DEF service
<1>2. /\ content' \in [Nodes -> Layers \cup {0, Foreign}]
      /\ \A n \in Nodes : content'[n] = IF n = c.node THEN k ELSE content[n]
      BY <1>1 DEF TypeOK
<1>3. \A t \in Layers, n \in Nodes : Sound(t, n)' <=> Sound(t, n) BY DEF Sound, Back
<1>4. Kept' BY <1>1, <1>2, <1>3 DEF Data, Kept, Layers, Nodes
<1>5. PendingOK'
  <2>1. ASSUME NEW n \in Nodes, NEW t \in Layers, NEW u \in Layers, pending'[t][n] >= u
        PROVE  Sound(u, n)'
    <3>1. u \in Int /\ u >= 1 BY LayerPositive
    <3>2. pending'[t][n] # NoFile BY <2>1, <3>1 DEF NoFile
    <3> QED BY <1>3, <2>1, <3>2 DEF Data, PendingOK
  <2> QED BY <2>1 DEF PendingOK, Layers, Nodes
<1>6. c.node \in edited => c.node \in raced BY DEF Data, ChangingOK
<1>7. EditedOK' BY <1>1, <1>2, <1>6 DEF Data, EditedOK, Nodes
<1>8. StagingOK' BY SameStaging DEF Data
<1>9. ChangingOK'
  <2>1. ASSUME NEW b \in flight', Changing(b)
        PROVE  /\ b.node \in edited' => b.node \in raced'
               /\ \A t \in Layers : t <= b.tool - 1 => Sound(t, b.node)'
               /\ staged'[b.tool][b.node] \in Back(b.tool)'
               /\ b.pass = "activate" /\ b.step # "helper" => Sound(b.tool, b.node)'
    <3>1. b \in flight /\ b.tool \in Layers /\ b.node \in Nodes BY CommandFacts
    <3> QED BY <1>3, <2>1, <3>1 DEF Data, ChangingOK, Back
  <2> QED BY <2>1 DEF ChangingOK, Changing, Layers
<1>10. ServingOK' BY <1>1, <1>2 DEF Data, ServingOK, Changing, Layers, Nodes
<1> QED BY <1>2, <1>4, <1>5, <1>7, <1>8, <1>9, <1>10 DEF Data

LEMMA ReplaceStep ==
    ASSUME IInv, NEW c \in flight, Replace(c)
    PROVE  IInv'
<1> USE DEF IInv
<1> DEFINE new == IF tools[c.tool].central THEN Target(c) ELSE pending[c.tool][c.node]
<1>1. /\ c.step = "replace" /\ c.tool \in Layers /\ c.node \in Nodes
      /\ Changes(c) /\ c.pass # "check" /\ c.pass # "stage" /\ Changing(c)
      /\ UNCHANGED <<tools, runs, helper, staged, edited, service>>
      BY CommandFacts DEF Replace, bounds, Control, FlightOK, Changes, Changing
<1>2. new \in Layers \cup {0, NoFile} /\ \A t \in Layers : new >= t => Sound(t, c.node)
  <2>1. CASE tools[c.tool].central BY <1>1, <2>1, TargetFacts
  <2>2. CASE ~tools[c.tool].central BY <1>1, <2>2 DEF Data, PendingOK, TypeOK
  <2> QED BY <2>1, <2>2
<1>3. CASE new = NoFile /\ Finish(c, FALSE, FALSE) /\ UNCHANGED <<content, pending, raced>>
  <2>1. UNCHANGED history BY <1>1, <1>3 DEF history
  <2> QED BY <1>1, <1>3, <2>1, IdleStep
<1>4. CASE /\ new # NoFile /\ Finish(c, TRUE, TRUE)
           /\ pending' = [pending EXCEPT ![c.tool][c.node] = NoFile]
           /\ \/ content' = [content EXCEPT ![c.node] = new] /\ UNCHANGED raced
              \/ /\ content' = [content EXCEPT ![c.node] = Foreign]
                 /\ raced' = raced \cup {c.node}
  <2>1. flight' = flight \ {c} BY <1>4 DEF Finish
  <2>2. /\ pending' \in [Layers -> [Nodes -> Layers \cup {0, NoFile}]]
        /\ \A t \in Layers, n \in Nodes :
               pending'[t][n] = IF t = c.tool /\ n = c.node THEN NoFile ELSE pending[t][n]
        BY <1>1, <1>4 DEF TypeOK
  <2>3. PICK k \in Layers \cup {0, Foreign} :
            /\ content' = [content EXCEPT ![c.node] = k]
            /\ k = Foreign => c.node \in raced'
            /\ k = new \/ k = Foreign
    <3>1. new \in Layers \cup {0} BY <1>2, <1>4
    <3>2. \A k \in Layers \cup {0} : k # Foreign BY LayersNat DEF Foreign
    <3> HIDE DEF new
    <3> QED BY <1>4, <3>1, <3>2
  <2>4. raced \subseteq raced' /\ raced' \subseteq Nodes BY <1>1, <1>4 DEF TypeOK
  <2>5. ASSUME NEW t \in Layers, k >= t PROVE Sound(t, c.node)
    <3>1. t \in Int /\ t >= 1 BY LayerPositive
    <3>2. k # Foreign BY <2>5, <3>1 DEF Foreign
    <3> QED BY <1>2, <2>3, <2>5, <3>2
  <2>6. content' \in [Nodes -> Layers \cup {0, Foreign}] /\ Data'
        BY <1>1, <2>1, <2>2, <2>3, <2>4, <2>5, ContentData
  <2>7. Control' BY <1>1, <1>4, FinishControl
  <2>8. RunOK'
    <3>1. \A n \in Nodes : n # c.node => Stays(n)
          BY <1>1, <2>2, <2>3 DEF Stays, StagedStays, TypeOK
    <3>2. ASSUME c.live, ~op.crossed, c.node \notin raced'
          PROVE  /\ c.pass = "activate" => content'[c.node] = c.tool
                 /\ c.pass = "restore" => content'[c.node] = c.tool - 1
      <4>1. op # None BY <3>2, CommandFacts DEF Own
      <4>2. new = Target(c) BY <1>1, <3>2, <4>1 DEF RunOK, MineOK
      <4>3. content'[c.node] = Target(c) BY <1>1, <2>3, <3>2, <4>2 DEF TypeOK
      <4> QED BY <4>3 DEF Target
    <3> QED BY <1>1, <1>4, <2>4, <3>1, <3>2, FinishRun
  <2> QED BY <1>1, <1>4, <2>2, <2>4, <2>6, <2>7, <2>8, CommandTail DEF TypeOK, States
<1> QED BY <1>3, <1>4 DEF Replace

LEMMA CutStep ==
    ASSUME IInv, NEW c \in flight, Cut(c)
    PROVE  IInv'
<1> USE DEF IInv
<1>1. /\ c.tool \in Layers /\ c.node \in Nodes
      /\ c.pass # "check" /\ (c.pass # "stage" => Changing(c)) /\ (c.pass = "stage" => Staging(c))
      /\ Finish(c, FALSE, TRUE) /\ flight' = flight \ {c}
      /\ UNCHANGED <<tools, runs, pending, helper, edited, raced, history, service>>
  <2>1. c.step \in Steps /\ c.step # "look" BY CommandFacts DEF Cut
  <2>2. /\ c.step = "fill" => c.pass = "stage"
        /\ c.step \in {"helper", "write", "replace"} => Changes(c)
        BY DEF Control, FlightOK
  <2> QED BY <2>1, <2>2, CommandFacts DEF Cut, Finish, history, Steps, Changes, Changing, Staging
<1>2. CASE UNCHANGED <<content, staged>> BY <1>1, <1>2, IdleStep
<1>3. CASE /\ c.pass = "stage" /\ tools[c.tool].again
           /\ staged' = [staged EXCEPT ![c.tool][c.node] = "part"]
           /\ UNCHANGED content
  <2>1. staged[c.tool][c.node] # "whole" BY <1>1, <1>3 DEF Data, StagingOK
  <2>2. StagingOK'
    <3>1. ASSUME NEW b \in flight', Staging(b)
          PROVE  staged'[b.tool][b.node] = IF tools'[b.tool].again THEN "torn" ELSE "part"
      <4>1. ~(b.tool = c.tool /\ b.node = c.node)
            BY <1>1, <1>3, <3>1 DEF Data, StagingOK
      <4>2. b \in flight /\ b.tool \in Layers /\ b.node \in Nodes
            BY <1>1, <3>1, CommandFacts
      <4>3. staged'[b.tool][b.node] = staged[b.tool][b.node]
            BY <1>1, <1>3, <4>1, <4>2 DEF TypeOK
      <4> QED BY <1>1, <3>1, <4>2, <4>3 DEF Data, StagingOK
    <3> QED BY <1>1, <3>1 DEF Data, StagingOK, Staging
  <2>3. /\ staged' \in [Layers -> [Nodes -> States]]
        /\ \A t \in Layers, n \in Nodes : tools[t].central => staged'[t][n] = staged[t][n]
        /\ \A n \in Nodes : StagedStays(n)
        /\ Data'
        BY <1>1, <1>3, <2>1, <2>2, StagedData DEF Like
  <2>4. Control' BY <1>1, FinishControl
  <2>5. \A n \in Nodes : Stays(n) BY <1>1, <1>3, <2>3 DEF Stays
  <2>6. RunOK' BY <1>1, <2>5, FinishRun
  <2> QED BY <1>1, <1>3, <2>3, <2>4, <2>6, CommandTail DEF TypeOK
<1>4. CASE /\ tools[c.tool].central
           /\ content' = [content EXCEPT ![c.node] = c.tool - 1]
           /\ UNCHANGED staged
  <2>1. Changing(c)
    <3>1. c.pass = "stage" => "stage" \in tools[c.tool].actions BY DEF Control, FlightOK
    <3>2. c.pass # "stage" BY <1>1, <1>4, <3>1, LayersNat DEF IsTool
    <3> QED BY <1>1, <3>2
  <2>2. c.tool - 1 \in Layers \cup {0} /\ c.tool - 1 # Foreign
    <3>1. c.tool \in Int /\ c.tool >= 1 BY <1>1, LayerPositive
    <3>2. c.tool - 1 # Foreign BY <3>1 DEF Foreign
    <3> QED BY <1>1, <3>2, LayersNat
  <2>3. ASSUME NEW t \in Layers, c.tool - 1 >= t PROVE Sound(t, c.node)
    <3>1. t \in Int /\ c.tool \in Int BY <1>1, LayerPositive
    <3>2. t <= c.tool - 1 BY <2>3, <3>1
    <3> QED BY <2>1, <3>2 DEF Data, ChangingOK
  <2>4. content' \in [Nodes -> Layers \cup {0, Foreign}] /\ Data'
        BY <1>1, <1>4, <2>1, <2>2, <2>3, ContentData
  <2>5. Control' BY <1>1, FinishControl
  <2>6. \A n \in Nodes : n # c.node => Stays(n)
        BY <1>1, <1>4 DEF Stays, StagedStays, TypeOK
  <2>7. RunOK' BY <1>1, <2>6, FinishRun
  <2> QED BY <1>1, <1>4, <2>4, <2>5, <2>7, CommandTail DEF TypeOK, States
<1> QED BY <1>1, <1>2, <1>3, <1>4 DEF Cut

-----------------------------------------------------------------------------
(* The operator.                                                           *)

LEMMA EditStep ==
    ASSUME IInv, NEW n \in Nodes, Edit(n)
    PROVE  IInv'
<1> USE DEF IInv
<1>1. /\ edited = {} /\ edited' = {n} /\ Crossed
      /\ content' = [content EXCEPT ![n] = Foreign]
      /\ raced' = IF Inside(n) THEN raced \cup {n} ELSE raced
      /\ UNCHANGED <<tools, pending, helper, staged, service, serving, loaded, blind, flight, runs>>
      BY DEF Edit, service, bounds
<1>2. /\ content' \in [Nodes -> Layers \cup {0, Foreign}]
      /\ \A m \in Nodes : content'[m] = IF m = n THEN Foreign ELSE content[m]
      /\ raced' \subseteq Nodes /\ raced \subseteq raced'
      BY <1>1 DEF TypeOK
<1>3. /\ op = None => op' = None
      /\ op # None => Passing(op') /\ op' # None /\ Alike(op', op) /\ op'.crossed
      BY <1>1, Crossing DEF Control
<1>4. Control' BY <1>1, <1>3, SameControl
<1>5. TypeOK' BY <1>1, <1>2 DEF TypeOK, Layers, Nodes
<1>6. RunOK' BY <1>3 DEF RunOK
<1>7. SnapshotOK' BY <1>1, <1>3, SameSnapshot DEF Alike, Like
<1>8. Data'
  <2>0. \A t \in Layers, m \in Nodes : Sound(t, m)' <=> Sound(t, m)
        BY <1>1 DEF Sound, Back
  <2>1. Kept'
    <3>1. ASSUME NEW t \in Layers, NEW m \in Nodes, content'[m] >= t PROVE Sound(t, m)'
      <4>1. t \in Int /\ t >= 1 BY LayerPositive
      <4>2. content'[m] # Foreign BY <3>1, <4>1 DEF Foreign
      <4>3. content'[m] = content[m] BY <1>2, <4>2
      <4> QED BY <2>0, <3>1, <4>3 DEF Data, Kept
    <3> QED BY <1>1, <3>1 DEF Kept, Layers, Nodes
  <2>2. PendingOK' BY <1>1, <2>0 DEF Data, PendingOK, Layers, Nodes
  <2>3. EditedOK' BY <1>1, <1>2 DEF Data, EditedOK, Nodes
  <2>4. StagingOK' BY <1>1, SameStaging DEF Data
  <2>5. ChangingOK'
    <3>1. ASSUME NEW b \in flight, Changing(b)
          PROVE  /\ b.node \in edited' => b.node \in raced'
                 /\ \A t \in Layers : t <= b.tool - 1 => Sound(t, b.node)'
                 /\ staged'[b.tool][b.node] \in Back(b.tool)'
                 /\ b.pass = "activate" /\ b.step # "helper" => Sound(b.tool, b.node)'
      <4>1. b.tool \in Layers /\ b.node \in Nodes BY CommandFacts
      <4>2. b.node \in edited' => Inside(n) BY <1>1, <3>1 DEF Inside, Changing
      <4> QED BY <1>1, <2>0, <3>1, <4>1, <4>2 DEF Data, ChangingOK, Back
    <3> QED BY <1>1, <3>1 DEF ChangingOK, Changing, Layers
  <2>6. ServingOK' BY <1>1, <1>2 DEF Data, ServingOK, Changing, Layers, Nodes
  <2> QED BY <2>1, <2>2, <2>3, <2>4, <2>5, <2>6 DEF Data
<1> QED BY <1>1, <1>4, <1>5, <1>6, <1>7, <1>8

\* A state that differs only in the service.
LEMMA SameRest ==
    ASSUME IInv, UNCHANGED <<tools, world, history, flight, op, runs>>,
           blind' \subseteq Nodes, serving' \in BOOLEAN, ServingOK'
    PROVE  IInv'
<1> USE DEF IInv
<1>1. UNCHANGED <<content, pending, helper, staged, edited, raced>> BY DEF world, history
<1>2. Control'
  <2>1. op # None => Passing(op) /\ Alike(op, op) BY DEF Control, OpOK, Alike
  <2>2. op # None => Passing(op') /\ Alike(op', op)
    <3> HIDE DEF IInv
    <3> QED BY <2>1
  <2> QED BY <2>2, SameControl
<1>3. TypeOK' BY <1>1 DEF TypeOK, Layers, Nodes
<1>4. SnapshotOK' BY <1>1, SameSnapshot DEF Like
<1>5. RunOK'
  <2>1. \A n \in Nodes : Stays(n) BY <1>1 DEF Stays, StagedStays
  <2> QED BY <1>1, <2>1, SameRun DEF RunOK
<1>6. Data'
  <2>1. \A t \in Layers, n \in Nodes : Sound(t, n)' <=> Sound(t, n)
        BY <1>1 DEF Sound, Back
  <2>2. Kept' /\ PendingOK' BY <1>1, <2>1 DEF Data, Kept, PendingOK, Layers, Nodes
  <2>3. EditedOK' BY <1>1 DEF Data, EditedOK, Nodes
  <2>4. StagingOK' BY <1>1, SameStaging DEF Data
  <2>5. ChangingOK'
    <3>1. ASSUME NEW b \in flight, Changing(b)
          PROVE  /\ b.node \in edited' => b.node \in raced'
                 /\ \A t \in Layers : t <= b.tool - 1 => Sound(t, b.node)'
                 /\ staged'[b.tool][b.node] \in Back(b.tool)'
                 /\ b.pass = "activate" /\ b.step # "helper" => Sound(b.tool, b.node)'
      <4>1. b.tool \in Layers /\ b.node \in Nodes BY CommandFacts
      <4> QED BY <1>1, <2>1, <3>1, <4>1 DEF Data, ChangingOK, Back
    <3> QED BY <3>1 DEF ChangingOK, Changing, Layers
  <2> QED BY <2>2, <2>3, <2>4, <2>5 DEF Data
<1> QED BY <1>2, <1>3, <1>4, <1>5, <1>6

\* The service is started or stopped.
LEMMA ServiceStep ==
    ASSUME IInv, Serve \/ StopService
    PROVE  IInv'
<1> USE DEF IInv
<1>1. UNCHANGED <<tools, world, content, history, flight, op, runs>>
      BY DEF Serve, StopService, world, bounds
<1>2. CASE Serve
  <2>1. \A c \in flight : Changing(c) => c.node \in blind'
        BY <1>2, CommandFacts DEF Serve, Inside, Changing
  <2>2. \A n \in Nodes : content'[n] = loaded'[n] BY <1>1, <1>2 DEF Serve
  <2>3. ServingOK' BY <1>1, <2>1, <2>2 DEF ServingOK, Changing, Layers, Nodes
  <2> QED BY <1>1, <1>2, <2>3, SameRest DEF Serve, Nodes
<1>3. CASE StopService BY <1>1, <1>3, SameRest DEF StopService, ServingOK
<1> QED BY <1>2, <1>3

-----------------------------------------------------------------------------
(* The theorems.                                                           *)

LEMMA Initially ==
    ASSUME Init
    PROVE  IInv
<1> USE DEF Init
<1>1. TypeOK BY DEF TypeOK
<1>2. Control BY DEF Control, FlightOK, OpOK, LiveOK, LiveUnique, GoneOK
<1>3. Kept /\ PendingOK
  <2>1. ASSUME NEW t \in Layers PROVE ~(0 >= t) /\ ~(NoFile >= t)
    <3>1. t \in Int /\ t >= 1 BY LayerPositive
    <3> QED BY <3>1 DEF NoFile
  <2> QED BY <2>1 DEF Kept, PendingOK
<1>4. EditedOK BY DEF EditedOK, Foreign
<1>5. Data BY <1>3, <1>4 DEF Data, StagingOK, ChangingOK, ServingOK
<1>6. SnapshotOK BY FirstNode DEF SnapshotOK
<1>7. RunOK BY DEF RunOK
<1> QED BY <1>1, <1>2, <1>5, <1>6, <1>7 DEF IInv

LEMMA Unchanged ==
    ASSUME IInv, UNCHANGED vars
    PROVE  IInv'
<1> USE DEF IInv
<1>1. /\ UNCHANGED <<tools, world, history, flight, op, runs, serving, loaded, blind, content>>
      BY DEF vars, world, service, bounds
<1>2. ServingOK' BY <1>1 DEF Data, ServingOK, Changing, Layers, Nodes
<1> QED BY <1>1, <1>2, SameRest DEF TypeOK

\* The invariant that the others follow from.
THEOREM Invariance == Spec => []IInv
<1>1. Init => IInv BY Initially
<1>2. IInv /\ [Next]_vars => IInv'
  <2> SUFFICES ASSUME IInv, [Next]_vars PROVE IInv' OBVIOUS
  <2>1. CASE \E t \in Layers, a \in Actions : Begin(t, a) BY <2>1, BeginStep
  <2>2. CASE \E n \in Nodes : Send(n) \/ Edit(n) BY <2>2, SendStep, EditStep
  <2>3. CASE Save BY <2>3, SaveStep
  <2>4. CASE Checked BY <2>4, CheckedStep
  <2>5. CASE RollBack BY <2>5, RollBackStep
  <2>6. CASE End BY <2>6, EndStep
  <2>7. CASE Die BY <2>7, DieStep
  <2>8. CASE \E c \in flight : TimeOut(c) \/ Refuse(c) \/ Check(c)
        BY <2>8, TimeOutStep, RefuseStep, CheckStep
  <2>9. CASE \E c \in flight : Stage(c) BY <2>9, StageStep
  <2>10. CASE \E c \in flight : Look(c) BY <2>10, LookStep
  <2>11. CASE \E c \in flight : Help(c) BY <2>11, HelpStep
  <2>12. CASE \E c \in flight : Write(c) BY <2>12, WriteStep
  <2>13. CASE \E c \in flight : Replace(c) BY <2>13, ReplaceStep
  <2>14. CASE \E c \in flight : Cut(c) BY <2>14, CutStep
  <2>15. CASE Serve \/ StopService BY <2>15, ServiceStep
  <2>16. CASE UNCHANGED vars BY <2>16, Unchanged
  <2> QED BY <2>1, <2>2, <2>3, <2>4, <2>5, <2>6, <2>7, <2>8, <2>9, <2>10, <2>11,
             <2>12, <2>13, <2>14, <2>15, <2>16 DEF Next
<1> QED BY <1>1, <1>2, PTL DEF Spec

\* From every content there is a way back, on any number of nodes and under any
\* stack of tools, whatever is killed, late or repeated. A snapshot that its
\* tool adds to may have been cut at that; where an edit, or a second command,
\* got between a command's look and its replacement, the file may hold either.
THEOREM NodeSoundHolds == Spec => []NodeSound
<1>1. IInv => NodeSound
  <2> SUFFICES ASSUME IInv PROVE NodeSound OBVIOUS
  <2>1. TypeOK BY DEF IInv
  <2>2. ASSUME NEW n \in Nodes, NEW t \in Layers, content[n] >= t
        PROVE  /\ staged[t][n] \in {"whole"} \cup IF tools[t].rewrites THEN {"lost"} ELSE {}
               /\ tools[t].helper => t \in helper[n]
        BY <2>2 DEF IInv, Data, Kept, Sound, Back
  <2>3. \A n \in Nodes \ raced : content[n] = Foreign <=> n \in edited
        BY DEF IInv, Data, EditedOK
  <2> QED BY <2>1, <2>2, <2>3 DEF NodeSound
<1> QED BY <1>1, Invariance, PTL

\* No command of the guarded tools changes the source under a service that was
\* not started between that command's look and its replacement, however late
\* the command comes.
THEOREM ServedSourceHolds == Spec => []ServedSource
<1>1. IInv => ServedSource BY DEF IInv, Data, ServingOK, ServedSource
<1> QED BY <1>1, Invariance, PTL

\* What a tool is to report is true of all nodes, those whose answer it has lost
\* and then rolled back among them; the exceptions are an edit, a file that two
\* commands were writing, a command of an earlier run, and one that came to its
\* node only after the roll back had called it.
THEOREM ReportTrueHolds == Spec => []ReportTrue
<1>1. IInv => ReportTrue
  <2> SUFFICES ASSUME IInv, op # None, RunOver, ~op.crossed
               PROVE  LET t == op.tool
                          all(k) == \A n \in Nodes \ raced : content[n] = k
                      IN  /\ op.ok /\ op.action = "stage" => \A n \in Nodes : staged[t][n] = "whole"
                          /\ op.ok /\ op.pass = "activate" => all(t)
                          /\ op.ok /\ op.action = "restore" => all(t - 1)
                          /\ op.action = "activate" /\ op.pass = "restore" /\ op.failed = {}
                                 => all(t - 1)
      BY DEF ReportTrue
  <2>1. Passing(op) /\ (\A n \in Nodes : Knows(op, n)) BY DEF IInv, Control, OpOK, RunOK
  <2>2. op.tool \in Layers /\ op.pass \in Passes BY <2>1 DEF Passing, OpType
  <2>3. op.wait = {} /\ (op.todo = {} \/ (~op.ok /\ Stops)) /\ ~(op.pass = "check" /\ op.ok)
        BY DEF RunOver, PassOver, Called
  <2>4. op.ok => op.failed = {} BY <2>1 DEF Passing
  <2>5. ASSUME op.action = "activate", op.pass = "restore" PROVE op.todo = {}
    <3>1. tools[op.tool].undoes # "never" BY <2>1, <2>5 DEF Passing
    <3>2. tools[op.tool].central BY <2>2, <3>1, LayersNat DEF IInv, IsTool
    <3> QED BY <2>3, <2>5, <3>2 DEF Stops
  <2>6. op.ok /\ op.action = "stage" => op.pass = "stage" BY <2>1 DEF Passing
  <2>7. op.ok /\ op.action = "restore" => op.pass = "restore"
        BY <2>1, <2>2, <2>3 DEF Passing, Passes, Actions
  <2>8. ASSUME NEW n \in Nodes, op.ok \/ (op.action = "activate" /\ op.pass = "restore" /\ op.failed = {})
        PROVE  Heard(op, n)
        BY <2>3, <2>4, <2>5, <2>8 DEF Heard
  <2> QED BY <2>1, <2>6, <2>7, <2>8 DEF Knows
<1> QED BY <1>1, Invariance, PTL
=============================================================================
