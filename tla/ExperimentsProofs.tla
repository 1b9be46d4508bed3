------------------------- MODULE ExperimentsProofs -------------------------
(***************************************************************************)
(* Proofs about Experiments, for any set of runs, nodes and directories,   *)
(* any plan and any number of requests.                                    *)
(*                                                                         *)
(* The argument: a command is over before its answer is good (Told), so    *)
(* that nothing of it can begin afterwards; a program is never there when  *)
(* it could be begun once more (Benched); and a request beside a program   *)
(* is either still in progress or has raised the total above what the run  *)
(* has seen (Counted).                                                     *)
(***************************************************************************)
EXTENDS Experiments, TLAPS

\* Before it has its directory a run has nothing anywhere.
Fresh(x) ==
    pc[x] \in {"idle", "looked"} =>
        /\ \A n \in Nodes : remote[x][n] = "none" /\ procs[x][n] = {}
        /\ x \notin disturbed
        /\ \A d \in Dirs : \A e \in files[d] : e[1] # x

Elsewhere(x) == \A n \in Nodes \ NodesOf(x) : remote[x][n] = "none" /\ procs[x][n] = {}

Benched(x) == \A n \in Nodes : "bench" \in procs[x][n] => remote[x][n] \in {"running", "over"}

Told(x) ==
    \A n \in Nodes : answer[x][n] = "ok" =>
        /\ remote[x][n] = "over" /\ "bench" \notin procs[x][n]
        /\ Looks(x) => procs[x][n] = {}

\* After all have answered there are no more answers.
Heard(x) ==
    /\ pc[x] \in {"scan", "after", "passed"} => \A n \in NodesOf(x) : answer[x][n] # "none"
    /\ pc[x] \in {"after", "passed"} /\ plan[x].scan = "later" =>
           \A n \in NodesOf(x) : answer[x][n] = "ok" => procs[x][n] = {}
    /\ pc[x] = "passed" => \A n \in NodesOf(x) : answer[x][n] = "ok"

Counted(x) ==
    /\ pc[x] # "idle" => seen[x] <= total
    /\ x \in disturbed => active = 1 \/ total > seen[x]
    /\ pc[x] = "passed" /\ plan[x].quiet => x \notin disturbed

RunInv(x) == Fresh(x) /\ Elsewhere(x) /\ Benched(x) /\ Told(x) /\ Heard(x) /\ Counted(x)

\* The manifest holds a directory for its run.
Holding(x) == pc[x] \in {"remote", "scan", "after"} => <<x, "manifest">> \in files[plan[x].dir]
OneOwner == \A d \in Dirs : \A e, f \in files[d] : e[1] = f[1]
Judged == \A d \in Dirs : \A e \in files[d] :
              /\ e[1] \in Planned
              /\ e[2] = "result" /\ ~plan[e[1]].early => pc[e[1]] = "passed"
FileInv == OneOwner /\ Judged /\ \A x \in Planned : Holding(x)

IInv == /\ TypeOK
        /\ seen \in [Runs -> Nat]
        /\ active = 1 => total < MaxRequests
        /\ \A x \in Planned : RunInv(x)
        /\ FileInv

-----------------------------------------------------------------------------
(* The plan.                                                               *)

LEMMA PlanFacts ==
    ASSUME TypeOK, NEW x \in Planned
    PROVE  /\ x \in Runs
           /\ plan[x].dir \in Dirs
           /\ plan[x].scan \in {"none", "self", "later"}
           /\ NodesOf(x) \subseteq Nodes /\ NodesOf(x) # {}
<1>1. x \in Runs /\ plan[x].dir \in Dirs /\ plan[x].scan \in {"none", "self", "later"}
      BY PlansAssumption DEF TypeOK, Planned
<1>2. (CHOOSE n \in Nodes : TRUE) \in Nodes
      BY NodesAssumption
<1> QED BY <1>1, <1>2, NodesAssumption DEF NodesOf

-----------------------------------------------------------------------------
(* A step of one run leaves the others alone.                              *)

Untouched(y) ==
    /\ pc'[y] = pc[y] /\ seen'[y] = seen[y]
    /\ remote'[y] = remote[y] /\ answer'[y] = answer[y] /\ procs'[y] = procs[y]
    /\ y \in disturbed' <=> y \in disturbed

StepOf(x) ==
    /\ plan' = plan /\ active' = active /\ total' = total
    /\ \A y \in Planned \ {x} : Untouched(y)
    /\ \A d \in Dirs : \A e \in files'[d] : e \in files[d] \/ e[1] = x

LEMMA Others ==
    ASSUME TypeOK, NEW x \in Planned, NEW y \in Planned, y # x, StepOf(x), RunInv(y)
    PROVE  RunInv(y)'
<1>1. Untouched(y) /\ plan' = plan /\ active' = active /\ total' = total
      BY DEF StepOf
<1>2. Fresh(y)'
      BY <1>1 DEF StepOf, Untouched, RunInv, Fresh
<1>3. NodesOf(y)' = NodesOf(y) /\ Looks(y)' = Looks(y)
      BY <1>1 DEF NodesOf, Looks
<1>4. Elsewhere(y)' /\ Benched(y)'
      BY <1>1, <1>3 DEF Untouched, RunInv, Elsewhere, Benched
<1>5. Told(y)'
      BY <1>1, <1>3 DEF Untouched, RunInv, Told
<1>6. Heard(y)'
      BY <1>1, <1>3 DEF Untouched, RunInv, Heard
<1>7. Counted(y)'
      BY <1>1 DEF Untouched, RunInv, Counted
<1> QED BY <1>2, <1>4, <1>5, <1>6, <1>7 DEF RunInv

Busy == {"remote", "scan", "after"}

\* Accepted is for good, and nobody works without having made a directory.
Onward(y) == /\ pc[y] = "passed" => pc'[y] = "passed"
             /\ pc'[y] \in Busy => pc[y] \in Busy

LEMMA FilesKept ==
    ASSUME TypeOK, FileInv, plan' = plan, files' = files, \A y \in Planned : Onward(y)
    PROVE  FileInv'
<1>1. Planned' = Planned BY DEF Planned
<1>2. OneOwner' BY DEF FileInv, OneOwner
<1>3. Judged' BY <1>1 DEF FileInv, Judged, Onward
<1>4. \A y \in Planned : Holding(y)'
      BY DEF FileInv, Holding, Onward, Busy
<1> QED BY <1>1, <1>2, <1>3, <1>4 DEF FileInv

Kinds == {"manifest", "log", "result"}

LEMMA Saved ==
    ASSUME TypeOK, FileInv, plan' = plan, NEW x \in Planned, NEW fs \in SUBSET Kinds,
           Save(x, fs),
           \/ pc[x] \in Busy
           \/ files[plan[x].dir] = {} /\ "manifest" \in fs,
           "result" \in fs /\ ~plan[x].early => pc'[x] = "passed",
           pc[x] # "passed",
           \A y \in Planned \ {x} : pc'[y] = pc[y]
    PROVE  /\ FileInv'
           /\ files' \in [Dirs -> SUBSET (Runs \X Kinds)]
           /\ \A d \in Dirs : \A e \in files'[d] : e \in files[d] \/ e[1] = x
<1> DEFINE new == {<<x, f>> : f \in fs}
           dir == plan[x].dir
<1>1. x \in Runs /\ dir \in Dirs BY PlanFacts
<1>2. files \in [Dirs -> SUBSET (Runs \X Kinds)] BY DEF TypeOK, Kinds
<1>3. \A d \in Dirs : files'[d] = IF d = dir THEN files[d] \cup new ELSE files[d]
      BY <1>2 DEF Save
<1>4. \A e \in new : e[1] = x /\ e[2] \in fs OBVIOUS
<1>5. new \subseteq Runs \X Kinds BY <1>1
<1>6. files' \in [Dirs -> SUBSET (Runs \X Kinds)]
      BY <1>1, <1>2, <1>5 DEF Save
<1>7. Planned' = Planned BY DEF Planned
<1> HIDE DEF new
<1>8. \A e \in files[dir] : e[1] = x
  <2>1. CASE pc[x] \in Busy
    <3>1. <<x, "manifest">> \in files[dir] BY <2>1 DEF FileInv, Holding, Busy
    <3>2. \A e \in files[dir] : e[1] = <<x, "manifest">>[1]
          BY <1>1, <3>1 DEF FileInv, OneOwner
    <3> QED BY <3>2
  <2>2. CASE files[dir] = {} BY <2>2
  <2> QED BY <2>1, <2>2
<1>9. OneOwner'
  <2> SUFFICES ASSUME NEW d \in Dirs, NEW e \in files'[d], NEW f \in files'[d]
               PROVE  e[1] = f[1]
      BY DEF OneOwner
  <2>1. CASE d = dir
    <3>1. e[1] = x /\ f[1] = x BY <2>1, <1>3, <1>4, <1>8
    <3> QED BY <3>1
  <2>2. CASE d # dir
    <3>1. e \in files[d] /\ f \in files[d] BY <2>2, <1>3
    <3> QED BY <3>1 DEF FileInv, OneOwner
  <2> QED BY <2>1, <2>2
<1>10. Judged'
  <2> SUFFICES ASSUME NEW d \in Dirs, NEW e \in files'[d]
               PROVE  /\ e[1] \in Planned
                      /\ e[2] = "result" /\ ~plan[e[1]].early => pc'[e[1]] = "passed"
      BY <1>7 DEF Judged
  <2>1. CASE e \in files[d]
        BY <2>1 DEF FileInv, Judged
  <2>2. CASE e \in new
        BY <2>2, <1>4
  <2> QED BY <2>1, <2>2, <1>3
<1>11. \A y \in Planned : Holding(y)'
  <2> SUFFICES ASSUME NEW y \in Planned, pc'[y] \in Busy
               PROVE  <<y, "manifest">> \in files'[plan[y].dir]
      BY DEF Holding, Busy
  <2>0. plan[y].dir \in Dirs BY PlanFacts
  <2>1. CASE y # x \/ pc[x] \in Busy
    <3>1. pc[y] \in Busy BY <2>1
    <3>2. <<y, "manifest">> \in files[plan[y].dir]
          BY <3>1 DEF FileInv, Holding, Busy
    <3> QED BY <2>0, <3>2, <1>3
  <2>2. CASE y = x /\ "manifest" \in fs
        BY <2>0, <2>2, <1>3 DEF new
  <2> QED BY <2>1, <2>2
<1>12. \A d \in Dirs : \A e \in files'[d] : e \in files[d] \/ e[1] = x
       BY <1>3, <1>4
<1> QED BY <1>6, <1>7, <1>9, <1>10, <1>11, <1>12 DEF FileInv

States == {"idle", "looked", "remote", "scan", "after", "passed", "failed"}
Remotes == {"none", "sent", "running", "ok", "bad", "over"}
Answers == {"none", "ok", "bad", "lost"}

LEMMA Composed ==
    ASSUME IInv, NEW x \in Planned, StepOf(x), TypeOK', seen' \in [Runs -> Nat],
           RunInv(x)', FileInv'
    PROVE  IInv'
<1>1. Planned' = Planned BY DEF StepOf, Planned
<1>2. \A y \in Planned : y # x => RunInv(y)'
      BY Others DEF IInv
<1> QED BY <1>1, <1>2 DEF IInv, StepOf

-----------------------------------------------------------------------------
(* The script.                                                             *)

LEMMA LookStep ==
    ASSUME IInv, NEW x \in Planned, Look(x)
    PROVE  IInv'
<1>1. x \in Runs /\ TypeOK /\ RunInv(x) /\ FileInv BY PlanFacts DEF IInv
<1>2. /\ pc \in [Runs -> States] /\ seen \in [Runs -> Nat] /\ total \in Nat
      BY RequestsAssumption DEF IInv, TypeOK, States
<1>3. /\ pc[x] = "idle" /\ pc'[x] \in {"looked", "failed"} /\ seen'[x] = total
      /\ \A y \in Planned \ {x} : pc'[y] = pc[y] /\ seen'[y] = seen[y]
      /\ pc' \in [Runs -> States] /\ seen' \in [Runs -> Nat]
      BY <1>1, <1>2 DEF Look, Goto, States, TypeOK
<1>4. /\ plan' = plan /\ remote' = remote /\ procs' = procs /\ killed' = killed
      /\ answer' = answer /\ files' = files /\ active' = active /\ total' = total
      /\ disturbed' = disturbed
      BY DEF Look, onNodes, service
<1>5. prior' \in [Runs -> Runs]
      BY <1>1 DEF Look, TypeOK
<1>6. TypeOK'
      BY <1>1, <1>3, <1>4, <1>5 DEF TypeOK, States, Planned
<1>7. StepOf(x)
      BY <1>3, <1>4 DEF StepOf, Untouched
<1>8. NodesOf(x)' = NodesOf(x) /\ Looks(x)' = Looks(x)
      BY <1>4 DEF NodesOf, Looks
<1>9. Fresh(x)' /\ Elsewhere(x)' /\ Benched(x)' /\ Told(x)'
      BY <1>1, <1>3, <1>4, <1>8 DEF RunInv, Fresh, Elsewhere, Benched, Told
<1>10. Heard(x)' BY <1>3 DEF Heard
<1>11. Counted(x)'
       BY <1>1, <1>2, <1>3, <1>4 DEF RunInv, Fresh, Counted
<1>12. FileInv'
       BY <1>1, <1>3, <1>4, FilesKept DEF Onward, Busy
<1> QED BY <1>3, <1>6, <1>7, <1>9, <1>10, <1>11, <1>12, Composed DEF RunInv

LEMMA Sent ==
    ASSUME TypeOK, NEW x \in Planned, Send(x)
    PROVE  /\ remote' \in [Runs -> [Nodes -> Remotes]]
           /\ answer' \in [Runs -> [Nodes -> Answers]]
           /\ \A n \in Nodes : /\ remote'[x][n] = IF n \in NodesOf(x) THEN "sent" ELSE "none"
                               /\ answer'[x][n] = "none"
           /\ \A y \in Planned \ {x} : remote'[y] = remote[y] /\ answer'[y] = answer[y]
<1>1. x \in Runs /\ Planned \subseteq Runs BY PlanFacts DEF TypeOK
<1>2. remote \in [Runs -> [Nodes -> Remotes]] /\ answer \in [Runs -> [Nodes -> Answers]]
      BY DEF TypeOK, Remotes, Answers
<1>3. [n \in Nodes |-> IF n \in NodesOf(x) THEN "sent" ELSE "none"] \in [Nodes -> Remotes]
      BY DEF Remotes
<1>4. [n \in Nodes |-> "none"] \in [Nodes -> Answers]
      BY DEF Answers
<1>5. remote' \in [Runs -> [Nodes -> Remotes]] /\ answer' \in [Runs -> [Nodes -> Answers]]
      BY <1>2, <1>3, <1>4 DEF Send
<1>6. /\ remote'[x] = [n \in Nodes |-> IF n \in NodesOf(x) THEN "sent" ELSE "none"]
      /\ answer'[x] = [n \in Nodes |-> "none"]
      BY <1>1, <1>2 DEF Send
<1>7. \A y \in Planned \ {x} : remote'[y] = remote[y] /\ answer'[y] = answer[y]
      BY <1>1, <1>2 DEF Send
<1> QED BY <1>5, <1>6, <1>7

\* The programs of a run are begun when nothing of an earlier round is there.
LEMMA Resent ==
    ASSUME IInv, NEW x \in Planned, Send(x), plan' = plan, procs' = procs,
           disturbed' = disturbed, active' = active, total' = total, seen' = seen,
           \A n \in NodesOf(x) : "bench" \notin procs[x][n],
           pc[x] \in {"looked", "remote"}, pc'[x] = "remote"
    PROVE  RunInv(x)'
<1>1. TypeOK /\ RunInv(x) BY DEF IInv
<1>2. NodesOf(x)' = NodesOf(x) /\ NodesOf(x) \subseteq Nodes
      BY <1>1, PlanFacts DEF NodesOf
<1>3. \A n \in Nodes : /\ remote'[x][n] = IF n \in NodesOf(x) THEN "sent" ELSE "none"
                       /\ answer'[x][n] = "none"
      BY <1>1, Sent
<1>4. Fresh(x)' /\ Heard(x)' BY DEF Fresh, Heard
<1>5. Elsewhere(x)'
      BY <1>1, <1>2, <1>3 DEF RunInv, Elsewhere
<1>6. Benched(x)'
      BY <1>1, <1>2, <1>3 DEF RunInv, Elsewhere, Benched
<1>7. Told(x)'
      BY <1>3 DEF Told
<1>8. Counted(x)'
      BY <1>1 DEF RunInv, Counted
<1> QED BY <1>4, <1>5, <1>6, <1>7, <1>8 DEF RunInv

LEMMA MakeDirStep ==
    ASSUME IInv, NEW x \in Planned, MakeDir(x)
    PROVE  IInv'
<1>1. x \in Runs /\ TypeOK /\ RunInv(x) /\ FileInv BY PlanFacts DEF IInv
<1>2. pc \in [Runs -> States] /\ pc[x] = "looked"
      BY DEF IInv, TypeOK, States, MakeDir
<1>3. /\ plan' = plan /\ seen' = seen /\ prior' = prior /\ procs' = procs /\ killed' = killed
      /\ active' = active /\ total' = total /\ disturbed' = disturbed
      BY DEF MakeDir, service
<1>4. seen' \in [Runs -> Nat] /\ Planned' = Planned
      BY <1>3 DEF IInv, Planned
<1>5. NodesOf(x)' = NodesOf(x) /\ Looks(x)' = Looks(x)
      BY <1>3 DEF NodesOf, Looks
<1>6. CASE files[plan[x].dir] # {}
  <2>1. /\ pc'[x] = "failed" /\ pc' \in [Runs -> States]
        /\ \A y \in Planned \ {x} : pc'[y] = pc[y]
        /\ remote' = remote /\ answer' = answer /\ files' = files
        BY <1>1, <1>2, <1>6 DEF MakeDir, Goto, States, TypeOK
  <2>2. TypeOK' BY <1>1, <1>3, <2>1 DEF TypeOK, States, Planned
  <2>3. StepOf(x) BY <1>3, <2>1 DEF StepOf, Untouched
  <2>9. \A y \in Planned : Onward(y)
        BY <1>2, <2>1 DEF Onward, Busy
  <2>4. FileInv' BY <1>1, <1>3, <2>1, <2>9, FilesKept
  <2>5. Fresh(x)' /\ Heard(x)' BY <2>1 DEF Fresh, Heard
  <2>6. Elsewhere(x)' /\ Benched(x)' /\ Told(x)'
        BY <1>1, <1>3, <1>5, <2>1 DEF RunInv, Elsewhere, Benched, Told
  <2>7. Counted(x)' BY <1>1, <1>2, <1>3, <2>1 DEF RunInv, Counted
  <2> QED BY <1>4, <2>2, <2>3, <2>4, <2>5, <2>6, <2>7, Composed DEF RunInv
<1>7. CASE files[plan[x].dir] = {}
  <2>1. /\ pc'[x] = "remote" /\ pc' \in [Runs -> States]
        /\ \A y \in Planned \ {x} : pc'[y] = pc[y]
        /\ Save(x, {"manifest"}) /\ Send(x)
        BY <1>1, <1>2, <1>7 DEF MakeDir, Goto, States, TypeOK
  <2>2. /\ FileInv'
        /\ files' \in [Dirs -> SUBSET (Runs \X Kinds)]
        /\ \A d \in Dirs : \A e \in files'[d] : e \in files[d] \/ e[1] = x
        BY <1>1, <1>2, <1>3, <1>7, <2>1, Saved DEF Kinds
  <2>3. \A n \in NodesOf(x) : "bench" \notin procs[x][n]
        BY <1>1, <1>2, PlanFacts DEF RunInv, Fresh
  <2>4. RunInv(x)' BY <1>2, <1>3, <2>1, <2>3, Resent
  <2>5. TypeOK'
        BY <1>1, <1>3, <1>4, <2>1, <2>2, Sent DEF TypeOK, States, Kinds, Remotes, Answers
  <2>6. StepOf(x) BY <1>1, <1>3, <2>1, <2>2, Sent DEF StepOf, Untouched
  <2> QED BY <1>4, <2>2, <2>4, <2>5, <2>6, Composed
<1> QED BY <1>6, <1>7

\* A run goes on to a state in which it has yet to be accepted.
LEMMA Moved ==
    ASSUME IInv, NEW x \in Planned, NEW l \in States \ {"idle", "looked", "passed"}, Goto(x, l),
           pc[x] \notin {"idle", "looked"},
           plan' = plan, seen' = seen, remote' = remote, answer' = answer, procs' = procs,
           disturbed' = disturbed, active' = active, total' = total,
           l \in {"scan", "after"} => \A n \in NodesOf(x) : answer[x][n] # "none",
           l = "after" => plan[x].scan # "later"
    PROVE  RunInv(x)'
<1>1. x \in Runs /\ TypeOK /\ RunInv(x) BY PlanFacts DEF IInv
<1>2. pc'[x] = l BY <1>1 DEF Goto, TypeOK
<1>3. NodesOf(x)' = NodesOf(x) /\ Looks(x)' = Looks(x) BY DEF NodesOf, Looks
<1>4. Fresh(x)' BY <1>2 DEF Fresh
<1>5. Elsewhere(x)' /\ Benched(x)' /\ Told(x)'
      BY <1>1, <1>3 DEF RunInv, Elsewhere, Benched, Told
<1>6. Heard(x)' BY <1>2, <1>3 DEF Heard
<1>7. Counted(x)' BY <1>1, <1>2 DEF RunInv, Counted
<1> QED BY <1>4, <1>5, <1>6, <1>7 DEF RunInv

LEMMA KillStep ==
    ASSUME IInv, NEW x \in Planned, Kill(x)
    PROVE  IInv'
<1>1. x \in Runs /\ TypeOK /\ RunInv(x) /\ FileInv BY PlanFacts DEF IInv
<1>2. pc \in [Runs -> States] /\ pc[x] \notin {"idle", "passed", "failed"}
      BY DEF IInv, TypeOK, States, Kill
<1>3. /\ plan' = plan /\ seen' = seen /\ prior' = prior /\ procs' = procs /\ killed' = killed
      /\ active' = active /\ total' = total /\ disturbed' = disturbed
      /\ remote' = remote /\ answer' = answer /\ files' = files
      BY DEF Kill, service, onNodes
<1>4. /\ pc'[x] = "failed" /\ pc' \in [Runs -> States]
      /\ \A y \in Planned \ {x} : pc'[y] = pc[y]
      BY <1>1, <1>2 DEF Kill, Goto, States, TypeOK
<1>5. TypeOK' BY <1>1, <1>3, <1>4 DEF TypeOK, States, Planned
<1>6. StepOf(x) BY <1>3, <1>4 DEF StepOf, Untouched
<1>7. \A y \in Planned : Onward(y)
      BY <1>2, <1>4 DEF Onward, Busy
<1>8. FileInv' BY <1>1, <1>3, <1>7, FilesKept
<1>9. NodesOf(x)' = NodesOf(x) /\ Looks(x)' = Looks(x) BY <1>3 DEF NodesOf, Looks
<1>10. Fresh(x)' /\ Heard(x)' BY <1>4 DEF Fresh, Heard
<1>11. Elsewhere(x)' /\ Benched(x)' /\ Told(x)'
       BY <1>1, <1>3, <1>9 DEF RunInv, Elsewhere, Benched, Told
<1>12. Counted(x)'
       BY <1>1, <1>2, <1>3, <1>4 DEF RunInv, Counted
<1>13. seen' \in [Runs -> Nat] BY <1>3 DEF IInv
<1> QED BY <1>5, <1>6, <1>8, <1>10, <1>11, <1>12, <1>13, Composed DEF RunInv

LEMMA CollectStep ==
    ASSUME IInv, NEW x \in Planned, Collect(x)
    PROVE  IInv'
<1> DEFINE heard == {answer[x][n] : n \in NodesOf(x)}
<1>1. x \in Runs /\ TypeOK /\ RunInv(x) /\ FileInv BY PlanFacts DEF IInv
<1>2. pc \in [Runs -> States] /\ pc[x] = "remote" /\ pc[x] \in Busy
      BY DEF IInv, TypeOK, States, Collect, Busy
<1>3. /\ plan' = plan /\ seen' = seen /\ prior' = prior /\ procs' = procs /\ killed' = killed
      /\ active' = active /\ total' = total /\ disturbed' = disturbed
      BY DEF Collect, service
<1>4. seen' \in [Runs -> Nat] /\ Planned' = Planned
      BY <1>3 DEF IInv, Planned
<1>5. \A n \in NodesOf(x) : answer[x][n] # "none"
      BY DEF Collect
<1>6. CASE /\ heard = {"ok"} /\ Send(x) /\ Save(x, {"log"}) /\ UNCHANGED pc
  <2>1. /\ FileInv'
        /\ files' \in [Dirs -> SUBSET (Runs \X Kinds)]
        /\ \A d \in Dirs : \A e \in files'[d] : e \in files[d] \/ e[1] = x
        BY <1>1, <1>2, <1>3, <1>6, Saved DEF Kinds
  <2>2. \A n \in NodesOf(x) : answer[x][n] = "ok"
        BY <1>6
  <2>3. \A n \in NodesOf(x) : "bench" \notin procs[x][n]
        BY <1>1, <2>2, PlanFacts DEF RunInv, Told
  <2>4. RunInv(x)' BY <1>2, <1>3, <1>6, <2>3, Resent
  <2>5. TypeOK'
        BY <1>1, <1>3, <1>4, <1>6, <2>1, Sent DEF TypeOK, States, Kinds, Remotes, Answers
  <2>6. StepOf(x) BY <1>1, <1>3, <1>6, <2>1, Sent DEF StepOf, Untouched
  <2> QED BY <1>4, <2>1, <2>4, <2>5, <2>6, Composed
<1>7. CASE \E l \in {"scan", "after", "failed"}, fs \in SUBSET Kinds :
               /\ Goto(x, l) /\ Save(x, fs)
               /\ "result" \in fs => plan[x].early
               /\ l = "after" => plan[x].scan # "later"
               /\ remote' = remote /\ answer' = answer
  <2>1. PICK l \in {"scan", "after", "failed"}, fs \in SUBSET Kinds :
               /\ Goto(x, l) /\ Save(x, fs)
               /\ "result" \in fs => plan[x].early
               /\ l = "after" => plan[x].scan # "later"
               /\ remote' = remote /\ answer' = answer
        BY <1>7
  <2>2. /\ pc' \in [Runs -> States]
        /\ \A y \in Planned \ {x} : pc'[y] = pc[y]
        BY <1>1, <1>2, <2>1 DEF Goto, States, TypeOK
  <2>3. /\ FileInv'
        /\ files' \in [Dirs -> SUBSET (Runs \X Kinds)]
        /\ \A d \in Dirs : \A e \in files'[d] : e \in files[d] \/ e[1] = x
        BY <1>1, <1>2, <1>3, <2>1, <2>2, Saved
  <2>4. RunInv(x)'
        BY <1>2, <1>3, <1>5, <2>1, Moved DEF States
  <2>5. TypeOK'
        BY <1>1, <1>3, <1>4, <2>1, <2>2, <2>3 DEF TypeOK, States, Kinds
  <2>6. StepOf(x) BY <1>3, <2>1, <2>2, <2>3 DEF StepOf, Untouched
  <2> QED BY <1>4, <2>3, <2>4, <2>5, <2>6, Composed
<1>8. \/ heard = {"ok"} /\ Send(x) /\ Save(x, {"log"}) /\ UNCHANGED pc
      \/ \E l \in {"scan", "after", "failed"}, fs \in SUBSET Kinds :
               /\ Goto(x, l) /\ Save(x, fs)
               /\ "result" \in fs => plan[x].early
               /\ l = "after" => plan[x].scan # "later"
               /\ remote' = remote /\ answer' = answer
  <2>1. \/ heard = {"ok"} /\ Send(x) /\ Save(x, {"log"}) /\ UNCHANGED pc
        \/ /\ Goto(x, IF plan[x].scan = "later" THEN "scan" ELSE "after")
           /\ Save(x, IF plan[x].early THEN {"log", "result"} ELSE {"log"})
           /\ UNCHANGED <<round, remote, answer>>
        \/ /\ Goto(x, "failed")
           /\ Save(x, IF heard = {"lost"} THEN {} ELSE {"log"})
           /\ UNCHANGED <<round, remote, answer>>
        BY DEF Collect
  <2>2. {"log", "result"} \in SUBSET Kinds /\ {"log"} \in SUBSET Kinds /\ {} \in SUBSET Kinds
        BY DEF Kinds
  <2> HIDE DEF heard
  <2>3. CASE /\ Goto(x, IF plan[x].scan = "later" THEN "scan" ELSE "after")
             /\ Save(x, IF plan[x].early THEN {"log", "result"} ELSE {"log"})
             /\ UNCHANGED <<round, remote, answer>>
    <3> DEFINE l == IF plan[x].scan = "later" THEN "scan" ELSE "after"
               fs == IF plan[x].early THEN {"log", "result"} ELSE {"log"}
    <3>1. /\ l \in {"scan", "after", "failed"} /\ fs \in SUBSET Kinds
          /\ "result" \in fs => plan[x].early
          /\ l = "after" => plan[x].scan # "later"
          BY <2>2
    <3>2. Goto(x, l) /\ Save(x, fs) /\ remote' = remote /\ answer' = answer
          BY <2>3
    <3> HIDE DEF l, fs
    <3> QED BY <3>1, <3>2
  <2>4. CASE /\ Goto(x, "failed")
             /\ Save(x, IF heard = {"lost"} THEN {} ELSE {"log"})
             /\ UNCHANGED <<round, remote, answer>>
    <3> DEFINE fs == IF heard = {"lost"} THEN {} ELSE {"log"}
    <3>1. fs \in SUBSET Kinds /\ "result" \notin fs
          BY <2>2
    <3>2. Goto(x, "failed") /\ Save(x, fs) /\ remote' = remote /\ answer' = answer
          BY <2>4
    <3> HIDE DEF fs
    <3> QED BY <3>1, <3>2
  <2> QED BY <2>1, <2>3, <2>4
<1> QED BY <1>6, <1>7, <1>8

LEMMA ScanStep ==
    ASSUME IInv, NEW x \in Planned, Scan(x)
    PROVE  IInv'
<1>1. x \in Runs /\ TypeOK /\ RunInv(x) /\ FileInv BY PlanFacts DEF IInv
<1>2. pc \in [Runs -> States] /\ pc[x] = "scan"
      BY DEF IInv, TypeOK, States, Scan
<1>3. /\ plan' = plan /\ seen' = seen /\ prior' = prior /\ procs' = procs /\ killed' = killed
      /\ active' = active /\ total' = total /\ disturbed' = disturbed
      /\ remote' = remote /\ files' = files
      BY DEF Scan, service, onNodes
<1>4. /\ pc'[x] = "after" /\ pc' \in [Runs -> States]
      /\ \A y \in Planned \ {x} : pc'[y] = pc[y]
      BY <1>1, <1>2 DEF Scan, Goto, States, TypeOK
<1>5. PICK cut \in SUBSET NodesOf(x) :
          answer' = [answer EXCEPT ![x] =
              [n \in Nodes |-> IF n \in cut \/ procs[x][n] # {} THEN "bad" ELSE @[n]]]
      BY DEF Scan
<1>6. answer \in [Runs -> [Nodes -> Answers]] BY <1>1 DEF TypeOK, Answers
<1>7. [n \in Nodes |-> IF n \in cut \/ procs[x][n] # {} THEN "bad" ELSE answer[x][n]]
          \in [Nodes -> Answers]
      BY <1>1, <1>6 DEF Answers
<1>8. /\ answer' \in [Runs -> [Nodes -> Answers]]
      /\ answer'[x] = [n \in Nodes |-> IF n \in cut \/ procs[x][n] # {} THEN "bad"
                                       ELSE answer[x][n]]
      /\ \A y \in Planned \ {x} : answer'[y] = answer[y]
      BY <1>1, <1>5, <1>6, <1>7 DEF TypeOK
<1>9. \A n \in Nodes : /\ answer'[x][n] \in {"bad", answer[x][n]}
                       /\ answer'[x][n] = "ok" => procs[x][n] = {}
      BY <1>8
<1>10. TypeOK' BY <1>1, <1>3, <1>4, <1>8 DEF TypeOK, States, Planned, Answers
<1>11. StepOf(x) BY <1>3, <1>4, <1>8 DEF StepOf, Untouched
<1>12. \A y \in Planned : Onward(y)
       BY <1>2, <1>4 DEF Onward, Busy
<1>13. FileInv' BY <1>1, <1>3, <1>12, FilesKept
<1>14. NodesOf(x)' = NodesOf(x) /\ Looks(x)' = Looks(x) /\ NodesOf(x) \subseteq Nodes
       BY <1>1, <1>3, PlanFacts DEF NodesOf, Looks
<1>15. Fresh(x)' BY <1>4 DEF Fresh
<1>16. Elsewhere(x)' /\ Benched(x)'
       BY <1>1, <1>3, <1>14 DEF RunInv, Elsewhere, Benched
<1>17. Told(x)'
       BY <1>1, <1>3, <1>9, <1>14 DEF RunInv, Told
<1>18. Heard(x)'
       BY <1>1, <1>2, <1>3, <1>4, <1>9, <1>14 DEF RunInv, Heard
<1>19. Counted(x)'
       BY <1>1, <1>2, <1>3, <1>4 DEF RunInv, Counted
<1>20. seen' \in [Runs -> Nat] BY <1>3 DEF IInv
<1> QED BY <1>10, <1>11, <1>13, <1>15, <1>16, <1>17, <1>18, <1>19, <1>20, Composed DEF RunInv

LEMMA AfterStep ==
    ASSUME IInv, NEW x \in Planned, After(x)
    PROVE  IInv'
<1> DEFINE good == /\ \A n \in NodesOf(x) : answer[x][n] = "ok"
                   /\ plan[x].quiet => Unchanged(x)
           fs == IF good \/ plan[x].early THEN {"result"} ELSE {}
<1>1. x \in Runs /\ TypeOK /\ RunInv(x) /\ FileInv BY PlanFacts DEF IInv
<1>2. pc \in [Runs -> States] /\ pc[x] = "after" /\ pc[x] \in Busy
      BY DEF IInv, TypeOK, States, After, Busy
<1>3. /\ plan' = plan /\ seen' = seen /\ prior' = prior /\ procs' = procs /\ killed' = killed
      /\ active' = active /\ total' = total /\ disturbed' = disturbed
      /\ remote' = remote /\ answer' = answer
      BY DEF After, service, onNodes
<1>4. /\ pc'[x] = IF good THEN "passed" ELSE "failed"
      /\ pc' \in [Runs -> States]
      /\ \A y \in Planned \ {x} : pc'[y] = pc[y]
      BY <1>1, <1>2 DEF After, Goto, States, TypeOK
<1>5. Save(x, fs) BY DEF After
<1>6. fs \in SUBSET Kinds /\ ("result" \in fs /\ ~plan[x].early => pc'[x] = "passed")
      BY <1>4 DEF Kinds
<1>7. good => \A n \in NodesOf(x) : answer[x][n] = "ok" OBVIOUS
<1>8. good /\ plan[x].quiet => x \notin disturbed
      BY <1>1, <1>2, RequestsAssumption DEF Unchanged, RunInv, Counted, TypeOK, IInv
<1> HIDE DEF good, fs
<1>9. /\ FileInv'
      /\ files' \in [Dirs -> SUBSET (Runs \X Kinds)]
      /\ \A d \in Dirs : \A e \in files'[d] : e \in files[d] \/ e[1] = x
      BY <1>1, <1>2, <1>3, <1>4, <1>5, <1>6, Saved
<1>10. TypeOK'
       BY <1>1, <1>3, <1>4, <1>9 DEF TypeOK, States, Kinds, Planned
<1>11. StepOf(x) BY <1>3, <1>4, <1>9 DEF StepOf, Untouched
<1>12. NodesOf(x)' = NodesOf(x) /\ Looks(x)' = Looks(x)
       BY <1>3 DEF NodesOf, Looks
<1>13. Fresh(x)' BY <1>4 DEF Fresh
<1>14. Elsewhere(x)' /\ Benched(x)' /\ Told(x)'
       BY <1>1, <1>3, <1>12 DEF RunInv, Elsewhere, Benched, Told
<1>15. Heard(x)'
       BY <1>1, <1>2, <1>3, <1>4, <1>7, <1>12 DEF RunInv, Heard
<1>16. Counted(x)'
       BY <1>1, <1>2, <1>3, <1>4, <1>8 DEF RunInv, Counted
<1>17. seen' \in [Runs -> Nat] BY <1>3 DEF IInv
<1> QED BY <1>9, <1>10, <1>11, <1>13, <1>14, <1>15, <1>16, <1>17, Composed DEF RunInv

-----------------------------------------------------------------------------
(* The programs.                                                           *)

LEMMA Updated ==
    ASSUME NEW S, NEW f \in [Runs -> [Nodes -> S]], NEW x \in Runs, NEW n \in Nodes,
           NEW v \in S, NEW g, g = [f EXCEPT ![x][n] = v]
    PROVE  /\ g \in [Runs -> [Nodes -> S]]
           /\ g[x][n] = v
           /\ \A m \in Nodes : m # n => g[x][m] = f[x][m]
           /\ \A y \in Runs : y # x => g[y] = f[y]
OBVIOUS

LEMMA Restated ==
    ASSUME NEW S, NEW f \in [Runs -> [Nodes -> S]], NEW x \in Runs, NEW n \in Nodes
    PROVE  f = [f EXCEPT ![x][n] = f[x][n]]
OBVIOUS

\* A step on one node: the first answer stays, a good one is the last thing
\* that a command does, and after it nothing is added to what was found.
LEMMA AtNode ==
    ASSUME IInv, NEW x \in Planned, NEW n \in NodesOf(x),
           NEW r \in Remotes, NEW ps \in SUBSET Found, NEW a \in Answers,
           plan' = plan, pc' = pc, seen' = seen, prior' = prior, files' = files,
           active' = active, total' = total,
           remote' = [remote EXCEPT ![x][n] = r],
           procs' = [procs EXCEPT ![x][n] = ps],
           answer' = [answer EXCEPT ![x][n] = a],
           \/ disturbed' = disturbed
           \/ disturbed' = disturbed \cup {x} /\ active = 1 /\ pc[x] # "passed",
           killed' \subseteq Planned,
           pc[x] \notin {"idle", "looked"},
           "bench" \in ps => r \in {"running", "over"},
           a = "ok" => r = "over" /\ "bench" \notin ps /\ (Looks(x) => ps = {}),
           answer[x][n] # "none" => a = answer[x][n],
           answer[x][n] = "ok" => ps \subseteq procs[x][n]
    PROVE  IInv'
<1>1. x \in Runs /\ n \in Nodes /\ TypeOK /\ RunInv(x) /\ FileInv /\ NodesOf(x) \subseteq Nodes
      BY PlanFacts DEF IInv
<1>2. /\ remote \in [Runs -> [Nodes -> Remotes]]
      /\ procs \in [Runs -> [Nodes -> SUBSET Found]]
      /\ answer \in [Runs -> [Nodes -> Answers]]
      BY <1>1 DEF TypeOK, Remotes, Answers
<1>3. /\ remote' \in [Runs -> [Nodes -> Remotes]]
      /\ remote'[x][n] = r
      /\ \A m \in Nodes : m # n => remote'[x][m] = remote[x][m]
      /\ \A y \in Runs : y # x => remote'[y] = remote[y]
      BY <1>1, <1>2, Updated
<1>4. /\ procs' \in [Runs -> [Nodes -> SUBSET Found]]
      /\ procs'[x][n] = ps
      /\ \A m \in Nodes : m # n => procs'[x][m] = procs[x][m]
      /\ \A y \in Runs : y # x => procs'[y] = procs[y]
      BY <1>1, <1>2, Updated
<1>5. /\ answer' \in [Runs -> [Nodes -> Answers]]
      /\ answer'[x][n] = a
      /\ \A m \in Nodes : m # n => answer'[x][m] = answer[x][m]
      /\ \A y \in Runs : y # x => answer'[y] = answer[y]
      BY <1>1, <1>2, Updated
<1>6. Planned' = Planned /\ Planned \subseteq Runs /\ disturbed' \subseteq Planned
      BY <1>1 DEF Planned, TypeOK
<1>7. TypeOK'
      BY <1>1, <1>3, <1>4, <1>5, <1>6 DEF TypeOK, Remotes, Answers
<1>8. StepOf(x)
      BY <1>3, <1>4, <1>5, <1>6 DEF StepOf, Untouched
<1>9. NodesOf(x)' = NodesOf(x) /\ Looks(x)' = Looks(x)
      BY DEF NodesOf, Looks
<1>10. Fresh(x)' BY DEF Fresh
<1>11. Elsewhere(x)'
       BY <1>1, <1>3, <1>4, <1>9 DEF RunInv, Elsewhere
<1>12. Benched(x)'
       BY <1>1, <1>3, <1>4 DEF RunInv, Benched
<1>13. Told(x)'
       BY <1>1, <1>3, <1>4, <1>5, <1>9 DEF RunInv, Told
<1>14. Heard(x)'
  <2>1. \A m \in Nodes : answer[x][m] # "none" => answer'[x][m] = answer[x][m]
        BY <1>5
  <2>2. \A m \in Nodes : answer[x][m] = "ok" => procs'[x][m] \subseteq procs[x][m]
        BY <1>4
  <2> QED BY <1>1, <1>9, <2>1, <2>2 DEF RunInv, Heard
<1>15. Counted(x)'
       BY <1>1 DEF RunInv, Counted
<1>16. FileInv'
       BY <1>1, FilesKept DEF Onward
<1>17. seen' \in [Runs -> Nat] BY DEF IInv
<1> QED BY <1>7, <1>8, <1>10, <1>11, <1>12, <1>13, <1>14, <1>15, <1>16, <1>17, Composed
        DEF RunInv

LEMMA NodeFacts ==
    ASSUME IInv, NEW x \in Planned, NEW n \in NodesOf(x)
    PROVE  /\ x \in Runs /\ n \in Nodes
           /\ remote[x][n] \in Remotes
           /\ procs[x][n] \in SUBSET Found
           /\ answer[x][n] \in Answers
           /\ remote[x][n] # "none" \/ procs[x][n] # {} => pc[x] \notin {"idle", "looked"}
           /\ "bench" \in procs[x][n] => remote[x][n] \in {"running", "over"}
           /\ answer[x][n] = "ok" => /\ remote[x][n] = "over" /\ "bench" \notin procs[x][n]
                                     /\ Looks(x) => procs[x][n] = {}
           /\ pc[x] = "passed" => answer[x][n] = "ok"
           /\ remote = [remote EXCEPT ![x][n] = remote[x][n]]
           /\ procs = [procs EXCEPT ![x][n] = procs[x][n]]
           /\ answer = [answer EXCEPT ![x][n] = answer[x][n]]
           /\ killed \subseteq Planned
<1>1. x \in Runs /\ n \in Nodes /\ TypeOK /\ RunInv(x) BY PlanFacts DEF IInv
<1>2. /\ remote \in [Runs -> [Nodes -> Remotes]]
      /\ procs \in [Runs -> [Nodes -> SUBSET Found]]
      /\ answer \in [Runs -> [Nodes -> Answers]]
      BY <1>1 DEF TypeOK, Remotes, Answers
<1>3. /\ remote = [remote EXCEPT ![x][n] = remote[x][n]]
      /\ procs = [procs EXCEPT ![x][n] = procs[x][n]]
      /\ answer = [answer EXCEPT ![x][n] = answer[x][n]]
      BY <1>1, <1>2, Restated
<1>4. killed \subseteq Planned BY <1>1 DEF TypeOK
<1>5. remote[x][n] # "none" \/ procs[x][n] # {} => pc[x] \notin {"idle", "looked"}
      BY <1>1 DEF RunInv, Fresh
<1>6. /\ "bench" \in procs[x][n] => remote[x][n] \in {"running", "over"}
      /\ answer[x][n] = "ok" => /\ remote[x][n] = "over" /\ "bench" \notin procs[x][n]
                                /\ Looks(x) => procs[x][n] = {}
      /\ pc[x] = "passed" => answer[x][n] = "ok"
      BY <1>1 DEF RunInv, Benched, Told, Heard
<1> QED BY <1>1, <1>2, <1>3, <1>4, <1>5, <1>6

LEMMA Replying ==
    ASSUME NEW x, NEW n, answer[x][n] \in Answers, NEW a \in {"ok", "bad"}, Reply(x, n, a)
    PROVE  \E b \in Answers :
               /\ answer' = [answer EXCEPT ![x][n] = b]
               /\ b = IF answer[x][n] = "none" THEN a ELSE answer[x][n]
<1> DEFINE b == IF answer[x][n] = "none" THEN a ELSE answer[x][n]
<1>1. b \in Answers BY DEF Answers
<1>2. answer' = [answer EXCEPT ![x][n] = b] BY DEF Reply
<1> QED BY <1>1, <1>2

LEMMA GiveUpStep ==
    ASSUME IInv, NEW x \in Planned, NEW n \in NodesOf(x), GiveUp(x, n)
    PROVE  IInv'
<1>1. /\ plan' = plan /\ pc' = pc /\ seen' = seen /\ prior' = prior /\ files' = files
      /\ active' = active /\ total' = total /\ disturbed' = disturbed
      /\ remote' = remote /\ procs' = procs /\ killed' = killed
      BY DEF GiveUp, local, onNodes, service
<1>2. /\ pc[x] = "remote" /\ answer[x][n] = "none"
      /\ answer' = [answer EXCEPT ![x][n] = "lost"]
      BY DEF GiveUp
<1> DEFINE r == remote[x][n]
           ps == procs[x][n]
           a == "lost"
<1>3. /\ a \in Answers /\ a # "ok" /\ answer' = [answer EXCEPT ![x][n] = a]
      /\ answer[x][n] # "none" => a = answer[x][n]
      /\ answer[x][n] = "ok" => ps \subseteq procs[x][n]
      /\ pc[x] \notin {"idle", "looked"}
      BY <1>2 DEF Answers
<1>4. /\ r \in Remotes /\ ps \in SUBSET Found
      /\ "bench" \in ps => r \in {"running", "over"}
      /\ remote' = [remote EXCEPT ![x][n] = r]
      /\ procs' = [procs EXCEPT ![x][n] = ps]
      /\ killed' \subseteq Planned
      BY <1>1, NodeFacts
<1> HIDE DEF r, ps, a
<1> QED BY <1>1, <1>3, <1>4, AtNode

LEMMA BeginStep ==
    ASSUME IInv, NEW x \in Planned, NEW n \in NodesOf(x), Begin(x, n)
    PROVE  IInv'
<1>1. /\ plan' = plan /\ pc' = pc /\ seen' = seen /\ prior' = prior /\ files' = files
      /\ active' = active /\ total' = total /\ killed' = killed
      BY DEF Begin, local, service
<1>2. /\ remote[x][n] = "sent"
      /\ answer[x][n] \in Answers /\ answer[x][n] # "ok"
      /\ procs[x][n] \in SUBSET Found /\ "bench" \notin procs[x][n]
      /\ pc[x] \notin {"idle", "looked", "passed"}
      /\ procs = [procs EXCEPT ![x][n] = procs[x][n]]
      /\ answer = [answer EXCEPT ![x][n] = answer[x][n]]
      /\ killed' \subseteq Planned
      BY <1>1, NodeFacts DEF Begin
<1>3. "over" \in Remotes /\ "running" \in Remotes BY DEF Remotes
<1>4. CASE /\ remote' = [remote EXCEPT ![x][n] = "over"]
           /\ Reply(x, n, "bad")
           /\ UNCHANGED <<procs, disturbed>>
  <2>1. PICK b \in Answers : /\ answer' = [answer EXCEPT ![x][n] = b]
                             /\ b = IF answer[x][n] = "none" THEN "bad" ELSE answer[x][n]
        BY <1>2, <1>4, Replying
  <2> DEFINE r == "over"
             ps == procs[x][n]
  <2>2. /\ b # "ok" /\ (answer[x][n] # "none" => b = answer[x][n])
        /\ answer[x][n] = "ok" => ps \subseteq procs[x][n]
        BY <1>2, <2>1
  <2>3. /\ ps \in SUBSET Found /\ procs' = [procs EXCEPT ![x][n] = ps]
        /\ disturbed' = disturbed
        BY <1>2, <1>4
  <2>4. /\ r \in Remotes /\ remote' = [remote EXCEPT ![x][n] = r]
        /\ "bench" \in ps => r \in {"running", "over"}
        /\ pc[x] \notin {"idle", "looked"} /\ killed' \subseteq Planned
        BY <1>2, <1>3, <1>4
  <2> HIDE DEF r, ps
  <2> QED BY <1>1, <2>1, <2>2, <2>3, <2>4, AtNode
<1>5. CASE /\ remote' = [remote EXCEPT ![x][n] = "running"]
           /\ procs' = [procs EXCEPT ![x][n] = @ \cup {"bench"}]
           /\ disturbed' = IF active > 0 THEN disturbed \cup {x} ELSE disturbed
           /\ UNCHANGED answer
  <2> DEFINE ps == procs[x][n] \cup {"bench"}
  <2>1. ps \in SUBSET Found /\ procs' = [procs EXCEPT ![x][n] = ps]
        BY <1>2, <1>5 DEF Found
  <2>2. \/ disturbed' = disturbed
        \/ disturbed' = disturbed \cup {x} /\ active = 1 /\ pc[x] # "passed"
        BY <1>2, <1>5 DEF IInv, TypeOK
  <2> DEFINE r == "running"
             a == answer[x][n]
  <2>3. /\ a \in Answers /\ a # "ok" /\ answer' = [answer EXCEPT ![x][n] = a]
        /\ answer[x][n] # "none" => a = answer[x][n]
        /\ answer[x][n] = "ok" => ps \subseteq procs[x][n]
        BY <1>2, <1>5
  <2>4. /\ r \in Remotes /\ remote' = [remote EXCEPT ![x][n] = r]
        /\ "bench" \in ps => r \in {"running", "over"}
        /\ pc[x] \notin {"idle", "looked"} /\ killed' \subseteq Planned
        BY <1>2, <1>3, <1>5
  <2> HIDE DEF ps, r, a
  <2> QED BY <1>1, <2>1, <2>2, <2>3, <2>4, AtNode
<1> QED BY <1>4, <1>5 DEF Begin

\* Steps that do nothing but begin or end processes.
OnlyProcs(x, n, ps) ==
    /\ plan' = plan /\ pc' = pc /\ seen' = seen /\ prior' = prior /\ files' = files
    /\ active' = active /\ total' = total /\ disturbed' = disturbed /\ killed' = killed
    /\ remote' = remote /\ answer' = answer
    /\ procs' = [procs EXCEPT ![x][n] = ps]

LEMMA ProcsStep ==
    ASSUME IInv, NEW x \in Planned, NEW n \in NodesOf(x), NEW ps \in SUBSET Found,
           OnlyProcs(x, n, ps),
           procs[x][n] # {},
           "bench" \in ps => "bench" \in procs[x][n],
           ps \subseteq procs[x][n] \/ remote[x][n] = "running"
    PROVE  IInv'
<1> DEFINE r == remote[x][n]
           a == answer[x][n]
<1>1. /\ plan' = plan /\ pc' = pc /\ seen' = seen /\ prior' = prior /\ files' = files
      /\ active' = active /\ total' = total /\ disturbed' = disturbed
      /\ procs' = [procs EXCEPT ![x][n] = ps]
      BY DEF OnlyProcs
<1>2. /\ r \in Remotes /\ a \in Answers
      /\ pc[x] \notin {"idle", "looked"}
      /\ "bench" \in ps => r \in {"running", "over"}
      /\ a = "ok" => r = "over" /\ "bench" \notin ps /\ (Looks(x) => ps = {})
      /\ answer[x][n] = "ok" => ps \subseteq procs[x][n]
      /\ killed' \subseteq Planned
      /\ remote' = [remote EXCEPT ![x][n] = r]
      /\ answer' = [answer EXCEPT ![x][n] = a]
      BY NodeFacts DEF OnlyProcs
<1>3. answer[x][n] # "none" => a = answer[x][n] OBVIOUS
<1> HIDE DEF r, a
<1> QED BY <1>1, <1>2, <1>3, AtNode

LEMMA ForkStep ==
    ASSUME IInv, NEW x \in Planned, NEW n \in NodesOf(x), Fork(x, n)
    PROVE  IInv'
<1> DEFINE ps == procs[x][n] \cup {"child"}
<1>1. ps \in SUBSET Found BY NodeFacts DEF Found
<1>2. /\ procs[x][n] # {} /\ remote[x][n] = "running"
      /\ "bench" \in ps => "bench" \in procs[x][n]
      BY DEF Fork
<1>3. OnlyProcs(x, n, ps)
      BY DEF OnlyProcs, Fork, local, service
<1> HIDE DEF ps
<1> QED BY <1>1, <1>2, <1>3, ProcsStep

LEMMA DiesStep ==
    ASSUME IInv, NEW x \in Planned, NEW n \in NodesOf(x), Dies(x, n) \/ ChildEnds(x, n)
    PROVE  IInv'
<1>1. PICK p \in {"dying", "child"} :
          p \in procs[x][n] /\ procs' = [procs EXCEPT ![x][n] = @ \ {p}]
      BY DEF Dies, ChildEnds
<1> DEFINE ps == procs[x][n] \ {p}
<1>2. ps \in SUBSET Found BY NodeFacts DEF Found
<1>3. /\ procs[x][n] # {} /\ ps \subseteq procs[x][n]
      /\ "bench" \in ps => "bench" \in procs[x][n]
      BY <1>1
<1>4. OnlyProcs(x, n, ps)
      BY <1>1 DEF OnlyProcs, Dies, ChildEnds, local, service
<1> HIDE DEF ps
<1> QED BY <1>2, <1>3, <1>4, ProcsStep

LEMMA EndsStep ==
    ASSUME IInv, NEW x \in Planned, NEW n \in NodesOf(x), BenchEnds(x, n) \/ TimeLimit(x, n)
    PROVE  IInv'
<1>1. /\ plan' = plan /\ pc' = pc /\ seen' = seen /\ prior' = prior /\ files' = files
      /\ active' = active /\ total' = total /\ disturbed' = disturbed /\ killed' = killed
      /\ answer' = answer
      BY DEF BenchEnds, TimeLimit, local, service
<1>2. remote[x][n] = "running" BY DEF BenchEnds, TimeLimit
<1>3. /\ answer[x][n] \in Answers /\ answer[x][n] # "ok"
      /\ pc[x] \notin {"idle", "looked"}
      /\ answer' = [answer EXCEPT ![x][n] = answer[x][n]]
      /\ killed' \subseteq Planned
      BY <1>1, <1>2, NodeFacts
<1>4. PICK r \in {"ok", "bad"} : remote' = [remote EXCEPT ![x][n] = r]
      BY DEF BenchEnds, TimeLimit
<1>5. PICK ps \in SUBSET Found : /\ "bench" \notin ps
                                /\ procs' = [procs EXCEPT ![x][n] = ps]
  <2>1. /\ procs[x][n] \ {"bench"} \in SUBSET Found
        /\ Stopped(procs[x][n]) \in SUBSET Found
        /\ "bench" \notin Stopped(procs[x][n])
        BY NodeFacts DEF Stopped, Found
  <2>2. \/ procs' = [procs EXCEPT ![x][n] = procs[x][n] \ {"bench"}]
        \/ procs' = [procs EXCEPT ![x][n] = Stopped(procs[x][n])]
        BY DEF BenchEnds, TimeLimit
  <2> QED BY <2>1, <2>2
<1> DEFINE a == answer[x][n]
<1>6. /\ a \in Answers /\ a # "ok" /\ answer' = [answer EXCEPT ![x][n] = a]
      /\ answer[x][n] # "none" => a = answer[x][n]
      /\ answer[x][n] = "ok" => ps \subseteq procs[x][n]
      BY <1>3
<1>7. r \in Remotes BY DEF Remotes
<1> HIDE DEF a
<1> QED BY <1>1, <1>3, <1>4, <1>5, <1>6, <1>7, AtNode

LEMMA ReportStep ==
    ASSUME IInv, NEW x \in Planned, NEW n \in NodesOf(x), Report(x, n)
    PROVE  IInv'
<1>1. /\ plan' = plan /\ pc' = pc /\ seen' = seen /\ prior' = prior /\ files' = files
      /\ active' = active /\ total' = total /\ disturbed' = disturbed /\ killed' = killed
      BY DEF Report, local, service
<1>2. /\ remote[x][n] \in {"ok", "bad"}
      /\ remote' = [remote EXCEPT ![x][n] = "over"]
      BY DEF Report
<1> DEFINE good == IF remote[x][n] = "ok" /\ (Looks(x) => procs[x][n] = {}) THEN "ok" ELSE "bad"
           ps == IF plan[x].limit = "owned" THEN Stopped(procs[x][n]) ELSE procs[x][n]
<1>3. /\ answer[x][n] \in Answers /\ answer[x][n] # "ok"
      /\ pc[x] \notin {"idle", "looked"}
      /\ "bench" \notin procs[x][n] /\ procs[x][n] \in SUBSET Found
      /\ killed' \subseteq Planned
      BY <1>1, <1>2, NodeFacts
<1>4. /\ ps \in SUBSET Found /\ "bench" \notin ps
      /\ procs[x][n] = {} => ps = {}
      BY <1>3 DEF Stopped, Found
<1>5. procs' = [procs EXCEPT ![x][n] = ps] /\ Reply(x, n, good)
      BY DEF Report
<1>6. good \in {"ok", "bad"} /\ (good = "ok" /\ Looks(x) => procs[x][n] = {})
      OBVIOUS
<1> HIDE DEF ps, good
<1>7. PICK b \in Answers : /\ answer' = [answer EXCEPT ![x][n] = b]
                           /\ b = IF answer[x][n] = "none" THEN good ELSE answer[x][n]
      BY <1>3, <1>5, <1>6, Replying
<1>8. /\ b = "ok" => "bench" \notin ps /\ (Looks(x) => ps = {})
      /\ answer[x][n] # "none" => b = answer[x][n]
      BY <1>3, <1>4, <1>6, <1>7
<1>9. "over" \in Remotes BY DEF Remotes
<1> QED BY <1>1, <1>2, <1>3, <1>4, <1>5, <1>7, <1>8, <1>9, AtNode

LEMMA KillRemoteStep ==
    ASSUME IInv, NEW x \in Planned, NEW n \in NodesOf(x), KillRemote(x, n)
    PROVE  IInv'
<1>1. /\ plan' = plan /\ pc' = pc /\ seen' = seen /\ prior' = prior /\ files' = files
      /\ active' = active /\ total' = total /\ disturbed' = disturbed /\ procs' = procs
      BY DEF KillRemote, local, service
<1>2. /\ remote[x][n] \in {"running", "ok", "bad"}
      /\ remote' = [remote EXCEPT ![x][n] = "over"]
      /\ Reply(x, n, "bad") /\ killed' = killed \cup {x}
      BY DEF KillRemote
<1>3. /\ answer[x][n] \in Answers /\ answer[x][n] # "ok"
      /\ pc[x] \notin {"idle", "looked"}
      /\ procs[x][n] \in SUBSET Found
      /\ procs' = [procs EXCEPT ![x][n] = procs[x][n]]
      /\ killed' \subseteq Planned
      BY <1>1, <1>2, NodeFacts
<1>4. PICK b \in Answers : /\ answer' = [answer EXCEPT ![x][n] = b]
                           /\ b = IF answer[x][n] = "none" THEN "bad" ELSE answer[x][n]
      BY <1>2, <1>3, Replying
<1>5. b # "ok" /\ (answer[x][n] # "none" => b = answer[x][n])
      BY <1>3, <1>4
<1>6. "over" \in Remotes BY DEF Remotes
<1> QED BY <1>1, <1>2, <1>3, <1>4, <1>5, <1>6, AtNode

-----------------------------------------------------------------------------
(* Requests.                                                               *)

\* An accepted run has no program on any node.
LEMMA AcceptedGone ==
    ASSUME IInv, NEW x \in Planned, pc[x] = "passed"
    PROVE  x \notin Benches
<1> SUFFICES ASSUME NEW n \in Nodes PROVE "bench" \notin procs[x][n]
    BY DEF Benches
<1>1. CASE n \in NodesOf(x) BY <1>1, NodeFacts
<1>2. CASE n \notin NodesOf(x) BY <1>2 DEF IInv, RunInv, Elsewhere
<1> QED BY <1>1, <1>2

LEMMA RequestStep ==
    ASSUME IInv, RequestBegins \/ RequestEnds
    PROVE  IInv'
<1>1. /\ plan' = plan /\ pc' = pc /\ seen' = seen /\ prior' = prior /\ files' = files
      /\ remote' = remote /\ procs' = procs /\ answer' = answer /\ killed' = killed
      BY DEF RequestBegins, RequestEnds, local, onNodes
<1>2. /\ active' \in 0..1 /\ total' \in 0..MaxRequests
      /\ active' = 1 => total' < MaxRequests
      /\ \/ active' = 1 /\ total' = total /\ disturbed' = disturbed \cup Benches
         \/ active = 1 /\ total' = total + 1 /\ disturbed' = disturbed
  <2>1. /\ active \in 0..1 /\ total \in 0..MaxRequests
        /\ active = 1 => total < MaxRequests
        BY DEF IInv, TypeOK
  <2>2. CASE RequestBegins
        BY <2>1, <2>2, RequestsAssumption DEF RequestBegins
  <2>3. CASE RequestEnds
        BY <2>1, <2>3, RequestsAssumption DEF RequestEnds
  <2> QED BY <2>2, <2>3
<1>3. total \in Nat /\ seen \in [Runs -> Nat] /\ Planned' = Planned /\ Planned \subseteq Runs
      BY <1>1, RequestsAssumption DEF IInv, TypeOK, Planned
<1>4. TypeOK'
      BY <1>1, <1>2, <1>3 DEF IInv, TypeOK, Benches
<1>5. FileInv'
      BY <1>1, FilesKept DEF IInv, Onward
<1>6. ASSUME NEW x \in Planned PROVE RunInv(x)'
  <2>1. NodesOf(x)' = NodesOf(x) /\ Looks(x)' = Looks(x)
        BY <1>1 DEF NodesOf, Looks
  <2>2. pc[x] \in {"idle", "looked"} => x \notin Benches
        BY DEF IInv, RunInv, Fresh, Benches
  <2>3. Fresh(x)'
        BY <1>1, <1>2, <2>2 DEF IInv, RunInv, Fresh
  <2>4. Elsewhere(x)' /\ Benched(x)' /\ Told(x)' /\ Heard(x)'
        BY <1>1, <2>1 DEF IInv, RunInv, Elsewhere, Benched, Told, Heard
  <2>5. Counted(x)'
    <3>1. /\ pc[x] # "idle" => seen[x] <= total
          /\ x \in disturbed => active = 1 \/ total > seen[x]
          /\ pc[x] = "passed" /\ plan[x].quiet => x \notin disturbed
          /\ pc[x] = "idle" => x \notin disturbed
          BY DEF IInv, RunInv, Counted, Fresh
    <3>2. pc[x] = "passed" => x \notin Benches BY AcceptedGone
    <3>3. seen[x] \in Nat BY <1>3
    <3> QED BY <1>1, <1>2, <1>3, <3>1, <3>2, <3>3 DEF Counted
  <2> QED BY <2>3, <2>4, <2>5 DEF RunInv
<1> QED BY <1>1, <1>2, <1>3, <1>4, <1>5, <1>6 DEF IInv

-----------------------------------------------------------------------------
(* The invariant.                                                          *)

LEMMA InitInv == Init => IInv
<1> SUFFICES ASSUME Init PROVE IInv
    OBVIOUS
<1>1. /\ \A x \in Runs : pc[x] = "idle"
      /\ \A x \in Runs, n \in Nodes :
             remote[x][n] = "none" /\ answer[x][n] = "none" /\ procs[x][n] = {}
      /\ \A d \in Dirs : files[d] = {}
      /\ disturbed = {} /\ killed = {}
      BY DEF Init
<1>2. Planned \subseteq Runs /\ plan \in Plans
      BY PlansAssumption DEF Init, Planned
<1>3. TypeOK
      BY <1>2, RequestsAssumption DEF Init, TypeOK, Found
<1>4. seen \in [Runs -> Nat] BY DEF Init
<1>5. \A x \in Planned : RunInv(x)
      BY <1>1, <1>2 DEF RunInv, Fresh, Elsewhere, Benched, Told, Heard, Counted
<1>6. FileInv
      BY <1>1, <1>2 DEF FileInv, OneOwner, Judged, Holding
<1>7. active = 1 => total < MaxRequests
      BY RequestsAssumption DEF Init
<1> QED BY <1>3, <1>4, <1>5, <1>6, <1>7 DEF IInv

LEMMA NextInv == IInv /\ [Next]_vars => IInv'
<1> SUFFICES ASSUME IInv, [Next]_vars PROVE IInv'
    OBVIOUS
<1>1. CASE UNCHANGED vars
  <2>1. /\ plan' = plan /\ pc' = pc /\ seen' = seen /\ prior' = prior /\ files' = files
        /\ remote' = remote /\ procs' = procs /\ answer' = answer /\ killed' = killed
        /\ active' = active /\ total' = total /\ disturbed' = disturbed
        BY <1>1 DEF vars, local, onNodes, service
  <2>2. TypeOK' BY <2>1 DEF IInv, TypeOK, Planned
  <2>3. FileInv' BY <2>1, FilesKept DEF IInv, Onward
  <2>4. ASSUME NEW x \in Planned PROVE RunInv(x)'
    <3>1. NodesOf(x)' = NodesOf(x) /\ Looks(x)' = Looks(x)
          BY <2>1 DEF NodesOf, Looks
    <3> QED BY <2>1, <3>1
            DEF IInv, RunInv, Fresh, Elsewhere, Benched, Told, Heard, Counted
  <2>5. Planned' = Planned BY <2>1 DEF Planned
  <2> QED BY <2>1, <2>2, <2>3, <2>4, <2>5 DEF IInv
<1>2. CASE RequestBegins \/ RequestEnds
      BY <1>2, RequestStep
<1>3. ASSUME NEW x \in Planned, Script(x) \/ Kill(x)
      PROVE  IInv'
      BY <1>3, LookStep, MakeDirStep, CollectStep, ScanStep, AfterStep, KillStep DEF Script
<1>4. ASSUME NEW x \in Planned, NEW n \in NodesOf(x),
             \/ Node(x, n) \/ GiveUp(x, n) \/ Fork(x, n) \/ BenchEnds(x, n)
             \/ ChildEnds(x, n) \/ KillRemote(x, n)
      PROVE  IInv'
      BY <1>4, BeginStep, EndsStep, ReportStep, DiesStep, GiveUpStep, ForkStep, KillRemoteStep
         DEF Node
<1> QED BY <1>1, <1>2, <1>3, <1>4 DEF Next

\* Every state of every plan satisfies the invariant.
THEOREM Invariance == Spec => []IInv
<1> QED BY InitInv, NextInv, PTL DEF Spec

\* A measurement that is accepted was not taken beside a request.
THEOREM AcceptedQuietHolds == Spec => []AcceptedQuiet
<1>1. IInv => AcceptedQuiet
      BY DEF IInv, RunInv, Counted, AcceptedQuiet
<1> QED BY <1>1, Invariance, PTL

\* Of an experiment that is accepted, where the script looks for what is left,
\* no process and no command is left on any node, however late its commands
\* came and whatever they forked.
THEOREM AcceptedCleanHolds == Spec => []AcceptedClean
<1>1. ASSUME IInv PROVE AcceptedClean
  <2> SUFFICES ASSUME NEW x \in Planned, NEW n \in Nodes,
                      pc[x] = "passed", plan[x].scan # "none"
               PROVE  procs[x][n] = {} /\ remote[x][n] \in {"none", "over"}
      BY DEF AcceptedClean
  <2>1. CASE n \notin NodesOf(x)
        BY <1>1, <2>1 DEF IInv, RunInv, Elsewhere
  <2>2. CASE n \in NodesOf(x)
    <3>1. answer[x][n] = "ok" /\ remote[x][n] = "over"
          BY <1>1, <2>2, NodeFacts
    <3>2. plan[x].scan \in {"self", "later"}
          BY <1>1, PlanFacts DEF IInv
    <3>3. CASE plan[x].scan = "self"
          BY <1>1, <2>2, <3>1, <3>3, NodeFacts DEF Looks
    <3>4. CASE plan[x].scan = "later"
          BY <1>1, <2>2, <3>1, <3>4 DEF IInv, RunInv, Heard
    <3> QED BY <3>1, <3>2, <3>3, <3>4
  <2> QED BY <2>1, <2>2
<1> QED BY <1>1, Invariance, PTL

\* The evidence in a directory is of one run, though runs may be given the same
\* directory, and a result that is written last is of an accepted run.
THEOREM EvidenceOwnHolds == Spec => []EvidenceOwn
<1>1. IInv => EvidenceOwn
      BY DEF IInv, FileInv, OneOwner, Judged, EvidenceOwn
<1> QED BY <1>1, Invariance, PTL
=============================================================================
