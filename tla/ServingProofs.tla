--------------------------- MODULE ServingProofs ---------------------------
(***************************************************************************)
(* Proofs about what a serving node rests on: the life cycle of its ranks  *)
(* (ClusterLifecycle), and the patches of its vLLM (PatchLayer).           *)
(*                                                                         *)
(* The life cycle, for any set of nodes and of coordinators and any jobs.  *)
(* The argument for one service: rankN.json names the only run, but for    *)
(* the orphans, that a node can have anything of; and while a start is     *)
(* between its two looks, what has processes and is no orphan has its      *)
(* launcher (OneRun).  That for the rollback: the flock keeps              *)
(* a cleanup apart from the start it undoes, and a cleanup that is done    *)
(* comes after that start (Undone).                                        *)
(***************************************************************************)
EXTENDS ClusterLifecycle, PatchLayer, FiniteSetTheorems, WellFoundedInduction, TLAPS

States == {"none", "sent", "uncertain", "looked", "locked", "ok", "failed"}
Stages == Kinds \union Ended \union {"idle", "watch"}

SessionOK == session \in [Kinds -> [Coordinators -> [Nodes -> States]]]

Own(n) == procs[n] \ orphans[n]
Single(n) == launcher[n] \union Own(n) \subseteq {file[n]}
Looking(n) == \E c \in Coordinators : session["start"][c][n] = "looked"
OneRun == \A n \in Nodes : Single(n) /\ (Looking(n) => Own(n) \subseteq launcher[n])

\* What a coordinator has yet to send.
InOrder == \A c \in Coordinators, n \in Nodes :
    /\ pc[c] = "idle" => session["stop"][c][n] = "none"
    /\ pc[c] \in {"idle", "stop"} => session["preflight"][c][n] = "none"
    /\ pc[c] \in {"idle", "stop", "preflight"} => session["start"][c][n] = "none"
    /\ pc[c] \in {"idle", "stop", "preflight", "start", "watch"} =>
           session["cleanup"][c][n] = "none"

\* No coordinator waits for the answer to a start that it has given up on, or has
\* taken for answered.
Begun == {"watch", "ready", "cleanup", "rolled back"}
NoneSent == \A c \in Coordinators, n \in Nodes :
    pc[c] \in Begun \/ (pc[c] = "start" /\ n \in lacking[c]) =>
        session["start"][c][n] # "sent"

Gone(c, n) == c \notin launcher[n] \union procs[n] /\ session["start"][c][n] \notin Holding
Undone == \A c \in Coordinators, n \in Nodes :
    CleanedUp(c, n) /\ <<c, n>> \notin late => Gone(c, n)

IInv == TypeOK /\ SessionOK /\ OneRun /\ InOrder /\ NoneSent /\ Undone

-----------------------------------------------------------------------------
(* The coordinator enters a stage.                                         *)

\* Where the stages come from, and what is known there.
Follows(c, stage) ==
    /\ stage = "stop" => pc[c] = "idle"
    /\ stage = "preflight" => pc[c] = "stop"
    /\ stage = "start" => pc[c] = "preflight"
    /\ stage = "watch" => pc[c] \in {"start", "watch"}
    /\ stage = "cleanup" => pc[c] \in {"start", "watch"}
    /\ stage = "ready" => pc[c] = "watch"
    /\ stage = "rolled back" =>
           pc[c] = "cleanup" /\ \A n \in Nodes : session["cleanup"][c][n] = "ok"
    /\ pc[c] = "start" /\ stage \in Begun => Answered(c)

LEMMA Entered ==
    ASSUME IInv, NEW c \in Coordinators, NEW stage \in Stages \ {"idle"}, Enter(c, stage)
    PROVE  /\ pc' \in [Coordinators -> Stages] /\ pc'[c] = stage
           /\ \A d \in Coordinators \ {c} : pc'[d] = pc[d]
           /\ seen' \in [Coordinators -> SUBSET Nodes]
           /\ lacking' \in [Coordinators -> SUBSET Nodes] /\ lacking'[c] = {}
           /\ \A d \in Coordinators \ {c} : lacking'[d] = lacking[d]
           /\ SessionOK'
           /\ \A k \in Kinds, n \in Nodes :
                 session'[k][c][n] = IF k = stage THEN "sent"
                                     ELSE Onward(session[k][c][n], stage)
           /\ \A k \in Kinds, d \in Coordinators \ {c} : session'[k][d] = session[k][d]
           /\ late' = late /\ orphans' = orphans /\ job' = job
           /\ lock' = lock /\ file' = file /\ launcher' = launcher /\ procs' = procs
<1>1. /\ pc \in [Coordinators -> Stages]
      /\ seen \in [Coordinators -> SUBSET Nodes] /\ lacking \in [Coordinators -> SUBSET Nodes]
      BY DEF IInv, TypeOK, Stages
<1>2. /\ pc' \in [Coordinators -> Stages] /\ pc'[c] = stage
      /\ \A d \in Coordinators \ {c} : pc'[d] = pc[d]
      /\ seen' \in [Coordinators -> SUBSET Nodes]
      /\ lacking' \in [Coordinators -> SUBSET Nodes] /\ lacking'[c] = {}
      /\ \A d \in Coordinators \ {c} : lacking'[d] = lacking[d]
      BY <1>1 DEF Enter
<1> DEFINE row(k) == [n \in Nodes |-> IF k = stage THEN "sent"
                                      ELSE Onward(session[k][c][n], stage)]
<1>3. session' = [k \in Kinds |-> [session[k] EXCEPT ![c] = row(k)]]
      BY DEF Enter, Commands
<1>4. ASSUME NEW k \in Kinds
      PROVE  /\ session[k] \in [Coordinators -> [Nodes -> States]]
             /\ row(k) \in [Nodes -> States]
  <2>1. session[k] \in [Coordinators -> [Nodes -> States]] BY DEF IInv, SessionOK
  <2>2. \A n \in Nodes : session[k][c][n] \in States BY <2>1
  <2> QED BY <2>1, <2>2 DEF States, Onward
<1>5. \A k \in Kinds, n \in Nodes : row(k)[n] = IF k = stage THEN "sent"
                                     ELSE Onward(session[k][c][n], stage)
      OBVIOUS
<1> HIDE DEF row
<1>6. SessionOK' BY <1>3, <1>4 DEF SessionOK
<1>7. \A k \in Kinds : session'[k][c] = row(k) BY <1>3, <1>4
<1>8. \A k \in Kinds, d \in Coordinators \ {c} : session'[k][d] = session[k][d]
      BY <1>3, <1>4
<1>9. /\ late' = late /\ orphans' = orphans /\ job' = job
      /\ lock' = lock /\ file' = file /\ launcher' = launcher /\ procs' = procs
      BY DEF Enter, nodeVars, history
<1> QED BY <1>2, <1>5, <1>6, <1>7, <1>8, <1>9

LEMMA EnterStep ==
    ASSUME IInv, NEW c \in Coordinators, NEW stage \in Stages \ {"idle"}, Enter(c, stage),
           Follows(c, stage)
    PROVE  IInv'
<1>0. {"preflight", "start", "stop", "cleanup"} = Kinds /\ Kinds \subseteq Stages
      BY DEF Kinds, Stages
<1>1. /\ pc' \in [Coordinators -> Stages] /\ pc'[c] = stage
      /\ \A d \in Coordinators \ {c} : pc'[d] = pc[d]
      /\ seen' \in [Coordinators -> SUBSET Nodes]
      /\ lacking' \in [Coordinators -> SUBSET Nodes] /\ lacking'[c] = {}
      /\ \A d \in Coordinators \ {c} : lacking'[d] = lacking[d]
      /\ SessionOK'
      /\ late' = late /\ orphans' = orphans /\ job' = job
      /\ lock' = lock /\ file' = file /\ launcher' = launcher /\ procs' = procs
      BY Entered
<1>2. \A k \in Kinds, n \in Nodes :
          session'[k][c][n] = IF k = stage THEN "sent"
                              ELSE Onward(session[k][c][n], stage)
      BY Entered
<1>3. \A k \in Kinds, d \in Coordinators \ {c} : session'[k][d] = session[k][d]
      BY Entered
\* What a stage sends had not been sent before.
<1>4. stage \in Kinds => \A n \in Nodes : session[stage][c][n] = "none"
      BY <1>0 DEF IInv, InOrder, Kinds, Follows
<1>5. \A k \in Kinds, d \in Coordinators, n \in Nodes :
          /\ session'[k][d][n] \in Holding <=> session[k][d][n] \in Holding
          /\ session'[k][d][n] = "looked" => session[k][d][n] = "looked"
      BY <1>2, <1>3, <1>4 DEF Finished, Holding, Onward
<1>6. TypeOK'
  <2>1. \A k \in Kinds, d \in Coordinators, n \in Nodes : session'[k][d][n] \in States
        BY <1>1 DEF SessionOK
  <2>2. pc' \in [Coordinators -> Kinds \union Ended \union {"idle", "watch"}]
        BY <1>1 DEF Stages
  <2>3. \A k \in Kinds, d \in Coordinators, n \in Nodes :
            /\ session'[k][d][n] \in Finished \union Holding \union {"none", "sent", "uncertain"}
            /\ session'[k][d][n] \in Holding <=> lock'[n] = <<k, d>>
        BY <1>1, <1>5, <2>1 DEF IInv, TypeOK, States, Finished, Holding
  <2> QED BY <1>1, <2>2, <2>3 DEF IInv, TypeOK, Run
<1>7. OneRun'
  <2>1. \A n \in Nodes : Looking(n)' => Looking(n) BY <1>0, <1>5 DEF Looking
  <2> QED BY <1>1, <2>1 DEF IInv, OneRun, Single, Own
<1>8. InOrder'
  <2> SUFFICES ASSUME NEW d \in Coordinators, NEW n \in Nodes
               PROVE  /\ pc'[d] = "idle" => session'["stop"][d][n] = "none"
                      /\ pc'[d] \in {"idle", "stop"} => session'["preflight"][d][n] = "none"
                      /\ pc'[d] \in {"idle", "stop", "preflight"} =>
                             session'["start"][d][n] = "none"
                      /\ pc'[d] \in {"idle", "stop", "preflight", "start", "watch"} =>
                             session'["cleanup"][d][n] = "none"
      BY DEF InOrder
  <2>1. CASE d # c
        BY <1>0, <1>1, <1>3, <2>1 DEF IInv, InOrder
  <2>2. CASE d = c
    <3>1. /\ stage = "stop" => session["preflight"][c][n] = "none"
          /\ stage \in {"stop", "preflight"} => session["start"][c][n] = "none"
          /\ stage \in {"stop", "preflight", "start", "watch"} =>
                 session["cleanup"][c][n] = "none"
          BY DEF IInv, InOrder, Follows
    <3> QED BY <1>0, <1>1, <1>2, <2>2, <3>1 DEF Finished, Onward
  <2> QED BY <2>1, <2>2
\* A start that was answered, or given up on, is no more on its way.
<1>9. \A n \in Nodes : stage \in Begun => session["start"][c][n] # "sent"
  <2>1. CASE pc[c] = "start"
    <3>1. stage \in Begun => \A n \in Nodes : n \in lacking[c] \/ session["start"][c][n] \in Finished
          BY <2>1 DEF Follows, Answered
    <3> QED BY <2>1, <3>1 DEF IInv, NoneSent, Finished
  <2>2. CASE pc[c] # "start"
        BY <2>2 DEF IInv, NoneSent, Follows, Begun
  <2> QED BY <2>1, <2>2
<1>10. NoneSent'
  <2> SUFFICES ASSUME NEW d \in Coordinators, NEW n \in Nodes,
                      pc'[d] \in Begun \/ (pc'[d] = "start" /\ n \in lacking'[d])
               PROVE  session'["start"][d][n] # "sent"
      BY <1>1 DEF NoneSent
  <2>1. CASE d # c
        BY <1>0, <1>1, <1>3, <2>1 DEF IInv, NoneSent
  <2>2. CASE d = c
        BY <1>0, <1>1, <1>2, <1>9, <2>2 DEF Begun, Onward
  <2> QED BY <2>1, <2>2
<1>11. Undone'
  <2>1. ASSUME NEW d \in Coordinators, NEW n \in Nodes, Gone(d, n), d # c
        PROVE  Gone(d, n)'
        BY <1>0, <1>1, <1>3, <2>1 DEF Gone
  <2>2. ASSUME NEW d \in Coordinators, NEW n \in Nodes, CleanedUp(d, n)', <<d, n>> \notin late
        PROVE  Gone(d, n)'
    <3>1. CASE d # c
      <4>1. CleanedUp(d, n) BY <1>0, <1>1, <1>3, <2>2, <3>1 DEF CleanedUp
      <4> QED BY <2>1, <2>2, <3>1, <4>1 DEF IInv, Undone
    <3>2. CASE d = c
      <4>1. stage = "cleanup" => session'["cleanup"][c][n] = "sent"
            BY <1>0, <1>2
      <4>2. stage = "rolled back" BY <1>1, <2>2, <3>2, <4>1 DEF CleanedUp
      <4>3. CleanedUp(c, n) BY <4>2 DEF Follows, CleanedUp
      <4>4. Gone(c, n) BY <2>2, <3>2, <4>3 DEF IInv, Undone
      <4>5. session'["start"][c][n] \notin Holding
            BY <1>0, <1>5, <4>4 DEF Gone
      <4> QED BY <1>1, <3>2, <4>4, <4>5 DEF Gone
    <3> QED BY <3>1, <3>2
  <2> QED BY <1>1, <2>2 DEF Undone
<1> QED BY <1>1, <1>6, <1>7, <1>8, <1>10, <1>11 DEF IInv

LEMMA CoordinatorStages ==
    ASSUME IInv, NEW c \in Coordinators,
           \/ CheckIdle(c) \/ StopAnswered(c) \/ PreflightAnswered(c)
           \/ StartAnswered(c) \/ CleanupAnswered(c)
           \/ Ready(c) \/ Interrupt(c) \/ Killed(c)
    PROVE  IInv'
<1>1. \E stage \in Stages \ {"idle"} : Enter(c, stage) /\ Follows(c, stage)
  <2>0. /\ {"stop", "over", "preflight", "start", "watch", "cleanup", "rolled back", "ready"}
               \subseteq Stages \ {"idle"}
        BY DEF Stages, Kinds, Ended
  <2>1. CASE CheckIdle(c)
        BY <2>0, <2>1 DEF CheckIdle, Follows, Begun
  <2>2. CASE StopAnswered(c)
        BY <2>0, <2>2 DEF StopAnswered, Follows, Begun
  <2>3. CASE StartAnswered(c)
        BY <2>0, <2>3 DEF StartAnswered, Follows, Begun
  <2>4. CASE CleanupAnswered(c)
    <3>1. AllOk(c) => \A n \in Nodes : session["cleanup"][c][n] = "ok"
          BY <2>4 DEF CleanupAnswered, AllOk
    <3> QED BY <2>0, <2>4, <3>1 DEF CleanupAnswered, Follows, Begun
  <2>5. CASE PreflightAnswered(c)
        BY <2>0, <2>5 DEF PreflightAnswered, Follows, Begun
  <2>6. CASE Ready(c) \/ Interrupt(c)
        BY <2>0, <2>6 DEF Ready, Interrupt, Follows, Begun
  <2>7. CASE Killed(c)
        BY <2>0, <2>7 DEF Killed, Follows, Begun
  <2> QED BY <2>1, <2>2, <2>3, <2>4, <2>5, <2>6, <2>7
<1> QED BY <1>1, EnterStep

\* What a look at the status leaves behind when the round goes on.
LEMMA RoundGoesOn ==
    ASSUME IInv, NEW c \in Coordinators, pc[c] # "start",
           seen' \in [Coordinators -> SUBSET Nodes],
           lacking' \in [Coordinators -> SUBSET Nodes],
           \A d \in Coordinators \ {c} : lacking'[d] = lacking[d],
           UNCHANGED <<history, job, pc, session, nodeVars>>
    PROVE  IInv'
<1>1. /\ late' = late /\ orphans' = orphans /\ job' = job /\ pc' = pc /\ session' = session
      /\ lock' = lock /\ file' = file /\ launcher' = launcher /\ procs' = procs
      BY DEF nodeVars, history
<1>2. TypeOK' BY <1>1 DEF IInv, TypeOK, Run
<1>3. SessionOK' /\ OneRun' /\ InOrder'
      BY <1>1 DEF IInv, SessionOK, OneRun, Single, Own, Looking, InOrder
<1>4. NoneSent' BY <1>1 DEF IInv, NoneSent
<1>5. Undone' BY <1>1 DEF IInv, Undone, Gone, CleanedUp
<1> QED BY <1>2, <1>3, <1>4, <1>5 DEF IInv

LEMMA StatusStep ==
    ASSUME IInv, NEW c \in Coordinators, NEW n \in Nodes, Status(c, n)
    PROVE  IInv'
<1>1. CASE Enter(c, "cleanup")
  <2>1. "cleanup" \in Stages \ {"idle"} /\ Follows(c, "cleanup")
        BY DEF Status, Follows, Begun, Stages, Kinds, Ended
  <2> QED BY <1>1, <2>1, EnterStep
<1>2. CASE /\ seen' = [seen EXCEPT ![c] = @ \union {n}]
           /\ lacking' = [lacking EXCEPT ![c] = IF c \in procs[n] THEN @ ELSE @ \union {n}]
           /\ UNCHANGED <<history, job, pc, session, nodeVars>>
  <2>1. /\ seen' \in [Coordinators -> SUBSET Nodes]
        /\ lacking' \in [Coordinators -> SUBSET Nodes]
        /\ \A d \in Coordinators \ {c} : lacking'[d] = lacking[d]
        BY <1>2 DEF IInv, TypeOK
  <2> QED BY <1>2, <2>1, RoundGoesOn DEF Status
<1> QED BY <1>1, <1>2 DEF Status

-----------------------------------------------------------------------------
(* Commands.                                                               *)

\* One command changes, and only that.
Changed(k, c, n, s) == session' = [session EXCEPT ![k][c][n] = s]

LEMMA OneChanged ==
    ASSUME SessionOK, NEW k \in Kinds, NEW c \in Coordinators, NEW n \in Nodes,
           NEW s \in States, Changed(k, c, n, s)
    PROVE  /\ SessionOK'
           /\ session'[k][c][n] = s
           /\ \A j \in Kinds, d \in Coordinators, m \in Nodes :
                 <<j, d, m>> # <<k, c, n>> => session'[j][d][m] = session[j][d][m]
<1>1. session \in [Kinds -> [Coordinators -> [Nodes -> States]]] BY DEF SessionOK
<1>2. /\ session[k] \in [Coordinators -> [Nodes -> States]]
      /\ session[k][c] \in [Nodes -> States]
      BY <1>1
<1> DEFINE row == [session[k][c] EXCEPT ![n] = s]
           table == [session[k] EXCEPT ![c] = row]
<1>3. /\ row \in [Nodes -> States] /\ row[n] = s
      /\ \A m \in Nodes : m # n => row[m] = session[k][c][m]
      BY <1>2
<1>4. session' = [session EXCEPT ![k] = table] BY <1>1, <1>2 DEF Changed
<1> HIDE DEF row
<1>5. /\ table \in [Coordinators -> [Nodes -> States]] /\ table[c] = row
      /\ \A d \in Coordinators : d # c => table[d] = session[k][d]
      BY <1>2, <1>3
<1> HIDE DEF table
<1>6. /\ SessionOK' /\ session'[k] = table
      /\ \A j \in Kinds : j # k => session'[j] = session[j]
      BY <1>1, <1>4, <1>5 DEF SessionOK
<1>7. session'[k][c][n] = s BY <1>3, <1>5, <1>6
<1>8. ASSUME NEW j \in Kinds, NEW d \in Coordinators, NEW m \in Nodes,
             <<j, d, m>> # <<k, c, n>>
      PROVE  session'[j][d][m] = session[j][d][m]
  <2>1. CASE j # k BY <2>1, <1>6
  <2>2. CASE j = k /\ d # c BY <2>2, <1>5, <1>6
  <2>3. CASE j = k /\ d = c /\ m # n BY <2>3, <1>3, <1>5, <1>6
  <2> QED BY <1>8, <2>1, <2>2, <2>3
<1> QED BY <1>6, <1>7, <1>8

\* A node goes on with a command.  It may begin it, and give its flock to it, go on
\* with it, be done with it, or refuse it; there may be less of a run afterwards, and
\* more only of one whose start has the flock.
LEMMA NodeStep ==
    ASSUME IInv, NEW k \in Kinds, NEW c \in Coordinators, NEW n \in Nodes,
           NEW s \in {"none", "looked", "locked", "ok", "failed"}, Changed(k, c, n, s),
           UNCHANGED <<coordVars, orphans>>,
           late' \in SUBSET (Coordinators \X Nodes), late \subseteq late',
           k = "start" /\ s \in Holding /\ CleanedUp(c, n) => <<c, n>> \in late',
           lock' \in [Nodes -> Run \union {Nothing}],
           \A m \in Nodes : m # n => lock'[m] = lock[m],
           \/ /\ s \notin Holding /\ Arrives(k, c, n)
              /\ lock' = lock /\ launcher' = launcher /\ procs' = procs
           \/ s \notin Holding /\ session[k][c][n] \in Holding /\ lock'[n] = Nothing
           \/ s \in Holding /\ Arrives(k, c, n) /\ lock[n] = Nothing /\ lock'[n] = <<k, c>>
           \/ s = "locked" /\ session[k][c][n] = "looked" /\ lock'[n] = lock[n],
           file' \in [Nodes -> Coordinators \union {Nothing}],
           launcher' \in [Nodes -> SUBSET Coordinators],
           procs' \in [Nodes -> SUBSET Coordinators],
           \A m \in Nodes : m # n => launcher'[m] = launcher[m] /\ procs'[m] = procs[m],
           \A m \in Nodes : Single(m)',
           s = "looked" => procs'[n] = {},
           \A m \in Nodes, d \in Coordinators :
               d \in launcher'[m] \union procs'[m] =>
                   \/ d \in launcher[m] \union procs[m]
                   \/ d = c /\ m = n /\ k = "start" /\ s \in Holding,
           k = "cleanup" /\ s = "ok" =>
               c \notin launcher'[n] \union procs'[n] /\ session[k][c][n] \in Holding
    PROVE  IInv'
<1>0. {"preflight", "start", "stop", "cleanup"} = Kinds
      BY DEF Kinds
<1>1. /\ job' = job /\ pc' = pc /\ seen' = seen /\ lacking' = lacking /\ orphans' = orphans
      BY DEF coordVars
<1>2. /\ SessionOK'
      /\ session'[k][c][n] = s
      /\ \A j \in Kinds, d \in Coordinators, m \in Nodes :
            <<j, d, m>> # <<k, c, n>> => session'[j][d][m] = session[j][d][m]
  <2>1. s \in States BY DEF States
  <2> QED BY <2>1, OneChanged DEF IInv
<1>3. \A j \in Kinds, d \in Coordinators, m \in Nodes :
          /\ session[j][d][m] \in States
          /\ session[j][d][m] \in Holding <=> lock[m] = <<j, d>>
      BY DEF IInv, TypeOK, SessionOK
<1>15. Arrives(k, c, n) => session[k][c][n] \notin Holding \union {"none"} BY DEF Arrives, Holding
<1>4. <<k, c>> # Nothing
      BY NothingAssumption DEF Kinds
<1>16. session[k][c][n] \in Holding => lock[n] = <<k, c>> BY <1>3
<1>5. ASSUME NEW j \in Kinds, NEW d \in Coordinators, NEW m \in Nodes
      PROVE  session'[j][d][m] \in Holding <=> lock'[m] = <<j, d>>
  <2>0. <<j, d>> # Nothing BY NothingAssumption DEF Kinds
  <2>1. CASE <<j, d, m>> = <<k, c, n>>
    <3>1. session'[j][d][m] = s /\ <<j, d>> = <<k, c>> /\ m = n BY <1>2, <2>1
    <3>2. s \in Holding <=> lock'[n] = <<k, c>>
          BY <1>3, <1>4, <1>15, <1>16 DEF Holding
    <3> QED BY <3>1, <3>2
  <2>2. CASE m # n
        BY <1>2, <1>3, <2>2
  <2>3. CASE m = n /\ <<j, d>> # <<k, c>>
    <3>1. session'[j][d][m] = session[j][d][m] BY <1>2, <2>3
    <3>2. lock[n] \in {Nothing, <<k, c>>} \/ lock'[n] = lock[n]
          BY <1>16
    <3>3. lock'[n] \in {Nothing, <<k, c>>} \/ lock'[n] = lock[n]
          OBVIOUS
    <3>4. CASE lock'[n] = lock[n]
          BY <1>3, <2>3, <3>1, <3>4
    <3>5. CASE lock'[n] # lock[n]
      <4>1. lock[n] # <<j, d>> /\ lock'[n] # <<j, d>>
            BY <2>0, <2>3, <3>2, <3>3, <3>5
      <4> QED BY <1>3, <2>3, <3>1, <4>1
    <3> QED BY <3>4, <3>5
  <2> QED BY <2>1, <2>2, <2>3
<1>6. TypeOK'
  <2>1. \A j \in Kinds, d \in Coordinators, m \in Nodes :
            session'[j][d][m] \in Finished \union Holding \union {"none", "sent", "uncertain"}
        BY <1>2 DEF SessionOK, States, Finished, Holding
  <2> QED BY <1>1, <1>5, <2>1 DEF IInv, TypeOK, Run
\* What was sent had been sent by its coordinator, and nothing is sent here.
<1>7. \A j \in Kinds, d \in Coordinators, m \in Nodes :
          /\ session[j][d][m] = "none" => session'[j][d][m] = "none"
          /\ session'[j][d][m] = "sent" => session[j][d][m] = "sent"
  <2>1. session[k][c][n] # "none" BY <1>15 DEF Holding
  <2> QED BY <1>2, <2>1
<1>8. InOrder' BY <1>0, <1>1, <1>7 DEF IInv, InOrder
<1>9. NoneSent' BY <1>0, <1>1, <1>7 DEF IInv, NoneSent
\* A start that looks has the flock, so that no other command touches the node.
<1>12. OneRun'
  <2> SUFFICES ASSUME NEW m \in Nodes, NEW d \in Coordinators,
                      session'["start"][d][m] = "looked"
               PROVE  Own(m)' \subseteq launcher'[m]
      BY DEF OneRun, Looking
  <2>1. CASE <<"start", d, m>> = <<k, c, n>>
    <3>1. procs'[m] = {} BY <1>2, <2>1
    <3> QED BY <3>1 DEF Own
  <2>2. CASE <<"start", d, m>> # <<k, c, n>>
    <3>1. session["start"][d][m] = "looked" BY <1>0, <1>2, <2>2
    <3>2. lock[m] = <<"start", d>> /\ <<"start", d>> # Nothing
          BY <1>0, <1>3, <3>1, NothingAssumption DEF Holding
    <3>3. launcher'[m] = launcher[m] /\ procs'[m] = procs[m]
      <4>1. CASE m # n BY <4>1
      <4>2. CASE m = n
        <5>1. lock[n] # Nothing /\ lock[n] # <<k, c>> BY <2>2, <3>2, <4>2
        <5>2. session[k][c][n] \notin Holding BY <1>16, <5>1
        <5> QED BY <4>2, <5>1, <5>2 DEF Holding
      <4> QED BY <4>1, <4>2
    <3>4. Own(m) \subseteq launcher[m] BY <3>1 DEF IInv, OneRun, Looking
    <3> QED BY <1>1, <3>3, <3>4 DEF Own
  <2> QED BY <2>1, <2>2
<1>10. ASSUME NEW d \in Coordinators, NEW m \in Nodes, Gone(d, m),
              ~(d = c /\ m = n /\ k = "start" /\ s \in Holding)
       PROVE  Gone(d, m)'
  <2>1. session'["start"][d][m] \notin Holding
    <3>1. CASE <<"start", d, m>> = <<k, c, n>> BY <1>2, <1>10, <3>1
    <3>2. CASE <<"start", d, m>> # <<k, c, n>> BY <1>0, <1>2, <1>10, <3>2 DEF Gone
    <3> QED BY <3>1, <3>2
  <2>2. d \notin launcher'[m] \union procs'[m] BY <1>10 DEF Gone
  <2> QED BY <2>1, <2>2 DEF Gone
<1>11. Undone'
  <2> SUFFICES ASSUME NEW d \in Coordinators, NEW m \in Nodes,
                      CleanedUp(d, m)', <<d, m>> \notin late'
               PROVE  Gone(d, m)'
      BY DEF Undone
  <2>1. CASE CleanedUp(d, m)
    <3>1. Gone(d, m) BY <2>1 DEF IInv, Undone
    <3> QED BY <1>10, <2>1, <3>1
\* The cleanup ends here: it has held the flock, so the start does not, and it has
\* found nothing of the run.
  <2>2. CASE ~CleanedUp(d, m)
    <3>1. pc[d] = "cleanup" /\ session'["cleanup"][d][m] = "ok" /\ session["cleanup"][d][m] # "ok"
          BY <1>1, <2>2 DEF CleanedUp
    <3>2. k = "cleanup" /\ d = c /\ m = n /\ s = "ok" BY <1>0, <1>2, <3>1
    <3>3. lock[n] = <<"cleanup", c>> BY <1>3, <3>2
    <3>4. lock[n] # <<"start", c>> BY <3>3
    <3>5. session["start"][c][n] \notin Holding BY <1>0, <1>3, <3>4
    <3>6. session'["start"][c][n] = session["start"][c][n] BY <1>0, <1>2, <3>2
    <3> QED BY <3>2, <3>5, <3>6 DEF Gone
  <2> QED BY <2>1, <2>2
<1> QED BY <1>2, <1>6, <1>8, <1>9, <1>11, <1>12 DEF IInv

LEMMA Becoming ==
    ASSUME NEW k, NEW c, NEW n, NEW state \in {"looked", "locked", "ok", "failed"},
           Become(k, c, n, state)
    PROVE  \E s \in {"none", state} : Changed(k, c, n, s) /\ (state \in Holding => s = state)
<1> DEFINE s == IF state \in Finished /\ ~Awaited(k, c, n) THEN "none" ELSE state
<1>1. Changed(k, c, n, s) BY DEF Become, Changed
<1>2. s \in {"none", state} /\ (state \in Holding => s = state) BY DEF Finished, Holding
<1> QED BY <1>1, <1>2

LEMMA NodeTypes ==
    ASSUME IInv
    PROVE  /\ late \in SUBSET (Coordinators \X Nodes)
           /\ lock \in [Nodes -> Run \union {Nothing}]
           /\ file \in [Nodes -> Coordinators \union {Nothing}]
           /\ launcher \in [Nodes -> SUBSET Coordinators]
           /\ procs \in [Nodes -> SUBSET Coordinators]
           /\ OneRun
           /\ \A k \in Kinds, c \in Coordinators : <<k, c>> \in Run
           /\ {"preflight", "start", "stop", "cleanup"} \subseteq Kinds
BY DEF IInv, TypeOK, Run, Kinds

LEMMA RefuseStep ==
    ASSUME IInv, NEW k \in Kinds, NEW c \in Coordinators, NEW n \in Nodes, Refuse(k, c, n)
    PROVE  IInv'
<1>1. PICK s \in {"none", "failed"} : Changed(k, c, n, s)
      BY Becoming DEF Refuse
<1>2. /\ UNCHANGED <<coordVars, orphans>> /\ late' = late /\ Arrives(k, c, n)
      /\ lock' = lock /\ file' = file /\ launcher' = launcher /\ procs' = procs
      BY DEF Refuse, nodeVars, history
<1>3. \A m \in Nodes : Single(m)' BY <1>2, NodeTypes DEF OneRun, Single, Own
<1>4. s \notin Holding /\ s \notin {"looked", "ok"} BY DEF Holding
<1>5. lock' = lock /\ launcher' = launcher /\ procs' = procs BY <1>2
<1>6. /\ late' \in SUBSET (Coordinators \X Nodes) /\ late \subseteq late'
      /\ lock' \in [Nodes -> Run \union {Nothing}]
      /\ file' \in [Nodes -> Coordinators \union {Nothing}]
      /\ launcher' \in [Nodes -> SUBSET Coordinators] /\ procs' \in [Nodes -> SUBSET Coordinators]
      BY <1>2, NodeTypes
<1>7. /\ \A m \in Nodes : m # n => lock'[m] = lock[m]
      /\ \A m \in Nodes : m # n => launcher'[m] = launcher[m] /\ procs'[m] = procs[m]
      /\ \A m \in Nodes, d \in Coordinators :
             d \in launcher'[m] \union procs'[m] => d \in launcher[m] \union procs[m]
      BY <1>2
<1>8. s \in {"none", "looked", "locked", "ok", "failed"} OBVIOUS
<1>9. UNCHANGED <<coordVars, orphans>> BY <1>2
<1>10. s \notin Holding /\ Arrives(k, c, n) /\ lock' = lock /\ launcher' = launcher /\ procs' = procs
       BY <1>2, <1>4
<1>11. /\ k = "start" /\ s \in Holding /\ CleanedUp(c, n) => <<c, n>> \in late'
       /\ s = "looked" => procs'[n] = {}
       /\ k = "cleanup" /\ s = "ok" =>
              c \notin launcher'[n] \union procs'[n] /\ session[k][c][n] \in Holding
       BY <1>4
<1> QED BY <1>1, <1>3, <1>6, <1>7, <1>8, <1>9, <1>10, <1>11, NodeStep

LEMMA BeginLookStep ==
    ASSUME IInv, NEW k \in {"preflight", "start"}, NEW c \in Coordinators, NEW n \in Nodes,
           BeginLook(k, c, n)
    PROVE  IInv'
<1>0. k \in Kinds /\ "looked" \in Holding BY DEF Kinds, Holding
<1>1. Changed(k, c, n, "looked")
      BY <1>0, Becoming DEF BeginLook
<1>2. /\ UNCHANGED <<coordVars, orphans>>
      /\ file' = file /\ launcher' = launcher /\ procs' = procs
      /\ Arrives(k, c, n) /\ lock[n] = Nothing /\ procs[n] = {}
      /\ lock' = [lock EXCEPT ![n] = <<k, c>>]
      BY DEF BeginLook
<1>3. /\ lock' \in [Nodes -> Run \union {Nothing}] /\ lock'[n] = <<k, c>>
      /\ \A m \in Nodes : m # n => lock'[m] = lock[m]
      BY <1>0, <1>2, NodeTypes
<1>4. \A m \in Nodes : Single(m)' BY <1>2, NodeTypes DEF OneRun, Single, Own
<1>5. /\ late' \in SUBSET (Coordinators \X Nodes) /\ late \subseteq late'
      /\ k = "start" /\ CleanedUp(c, n) /\ session["start"][c][n] = "uncertain" => <<c, n>> \in late'
      BY NodeTypes DEF BeginLook
\* A start that its coordinator still waits for is before its cleanup.
<1>6. k = "start" /\ CleanedUp(c, n) => session["start"][c][n] = "uncertain"
      BY <1>2 DEF IInv, NoneSent, Begun, CleanedUp, Arrives
<1> QED BY <1>0, <1>1, <1>2, <1>3, <1>4, <1>5, <1>6, NodeTypes, NodeStep

\* The start has the flock already, so that no cleanup of its own can be over.
LEMMA LaunchStep ==
    ASSUME IInv, NEW c \in Coordinators, NEW n \in Nodes, Launch(c, n)
    PROVE  IInv'
<1>0. "start" \in Kinds /\ {"looked", "locked"} = Holding BY DEF Kinds, Holding
<1>1. Changed("start", c, n, "locked")
      BY <1>0, Becoming DEF Launch
<1>2. /\ UNCHANGED <<coordVars, orphans>> /\ late' = late /\ lock' = lock /\ procs' = procs
      /\ session["start"][c][n] = "looked" /\ file[n] \notin launcher[n]
      /\ launcher' = [launcher EXCEPT ![n] = @ \union {c}]
      /\ file' = [file EXCEPT ![n] = c]
      BY DEF Launch, Pending, history
<1>3. /\ file' \in [Nodes -> Coordinators \union {Nothing}] /\ file'[n] = c
      /\ \A m \in Nodes : m # n => file'[m] = file[m]
      BY <1>2, NodeTypes
<1>4. /\ launcher' \in [Nodes -> SUBSET Coordinators]
      /\ launcher'[n] = launcher[n] \union {c}
      /\ \A m \in Nodes : m # n => launcher'[m] = launcher[m]
      BY <1>2, NodeTypes
<1>5. launcher[n] = {} /\ Own(n) = {}
      BY <1>2, NodeTypes DEF OneRun, Single, Looking
<1>6. \A m \in Nodes : Single(m)'
      BY <1>2, <1>3, <1>4, <1>5, NodeTypes DEF OneRun, Single, Own
<1>7. CleanedUp(c, n) => <<c, n>> \in late'
      BY <1>0, <1>2 DEF IInv, Undone, Gone
<1>8. \A m \in Nodes, d \in Coordinators :
          d \in launcher'[m] \union procs'[m] =>
              d \in launcher[m] \union procs[m] \/ (d = c /\ m = n)
      BY <1>2, <1>4
<1> QED BY <1>0, <1>1, <1>2, <1>3, <1>4, <1>6, <1>7, <1>8, NodeTypes, NodeStep

Put(f, n, v) == [f EXCEPT ![n] = v]

\* The flock goes to a command, or comes back from it.
FlockMoves(k, c, n, s) ==
    \/ /\ s \notin Holding /\ session[k][c][n] \in Holding
       /\ Unlock(n)
    \/ /\ s = "locked" /\ k # "start" /\ Arrives(k, c, n) /\ lock[n] = Nothing
       /\ lock' = Put(lock, n, <<k, c>>)

\* A command that takes the flock or gives it back, and adds nothing to the node.
LEMMA FewerStep ==
    ASSUME IInv, NEW k \in Kinds, NEW c \in Coordinators, NEW n \in Nodes,
           NEW s \in {"none", "locked", "ok", "failed"}, Changed(k, c, n, s),
           UNCHANGED <<history, coordVars, file>>,
           FlockMoves(k, c, n, s),
           NEW L \in SUBSET launcher[n], launcher' = Put(launcher, n, L),
           NEW P \in SUBSET procs[n], procs' = Put(procs, n, P),
           k = "cleanup" /\ s = "ok" => c \notin L \union P
    PROVE  IInv'
<1>0. "locked" \in Holding /\ "ok" \notin Holding BY DEF Holding
<1>1. file' = file /\ file' \in [Nodes -> Coordinators \union {Nothing}] BY NodeTypes
<1>2. /\ launcher' \in [Nodes -> SUBSET Coordinators]
      /\ launcher'[n] = L /\ \A m \in Nodes : launcher'[m] \subseteq launcher[m]
      /\ \A m \in Nodes : m # n => launcher'[m] = launcher[m]
      BY NodeTypes DEF Put
<1>3. /\ procs' \in [Nodes -> SUBSET Coordinators]
      /\ procs'[n] = P /\ \A m \in Nodes : procs'[m] \subseteq procs[m]
      /\ \A m \in Nodes : m # n => procs'[m] = procs[m]
      BY NodeTypes DEF Put
<1>7. /\ UNCHANGED <<coordVars, orphans>>
      /\ late' \in SUBSET (Coordinators \X Nodes) /\ late \subseteq late'
      BY NodeTypes DEF history
<1>4. \A m \in Nodes : Single(m)' BY <1>1, <1>2, <1>3, <1>7, NodeTypes DEF OneRun, Single, Own
<1>5. /\ lock' \in [Nodes -> Run \union {Nothing}]
      /\ \A m \in Nodes : m # n => lock'[m] = lock[m]
      /\ \/ s \notin Holding /\ session[k][c][n] \in Holding /\ lock'[n] = Nothing
         \/ s = "locked" /\ k # "start" /\ Arrives(k, c, n) /\ lock[n] = Nothing
            /\ lock'[n] = <<k, c>>
      BY NodeTypes DEF FlockMoves, Unlock, Put
<1>6. \A m \in Nodes, d \in Coordinators :
          d \in launcher'[m] \union procs'[m] => d \in launcher[m] \union procs[m]
      BY <1>2, <1>3
<1>8. k = "cleanup" /\ s = "ok" =>
          c \notin launcher'[n] \union procs'[n] /\ session[k][c][n] \in Holding
      BY <1>0, <1>2, <1>3, <1>5
<1>9. k = "start" /\ s \in Holding /\ CleanedUp(c, n) => <<c, n>> \in late' BY <1>5
<1>10. s \in {"none", "looked", "locked", "ok", "failed"} /\ s # "looked" OBVIOUS
<1> QED BY <1>0, <1>1, <1>2, <1>3, <1>4, <1>5, <1>6, <1>7, <1>8, <1>9, <1>10, NodeStep

LEMMA DoneStep ==
    ASSUME IInv, NEW k \in Kinds, NEW c \in Coordinators, NEW n \in Nodes,
           NEW s \in {"none", "ok", "failed"}, Changed(k, c, n, s),
           UNCHANGED <<history, coordVars, file>>,
           session[k][c][n] \in Holding, Unlock(n),
           NEW L \in SUBSET launcher[n], launcher' = Put(launcher, n, L),
           NEW P \in SUBSET procs[n], procs' = Put(procs, n, P),
           k = "cleanup" /\ s = "ok" => c \notin L \union P
    PROVE  IInv'
<1>1. s \in {"none", "locked", "ok", "failed"} /\ s \notin Holding BY DEF Holding
<1>2. FlockMoves(k, c, n, s) BY <1>1 DEF FlockMoves
<1> QED BY <1>1, <1>2, FewerStep

\* What a step leaves as it is, as an update.
LEMMA AsUpdates ==
    ASSUME IInv, NEW n \in Nodes
    PROVE  /\ launcher = Put(launcher, n, launcher[n])
           /\ procs = Put(procs, n, procs[n])
BY NodeTypes DEF Put

LEMMA BeginStopStep ==
    ASSUME IInv, NEW k \in {"stop", "cleanup"}, NEW c \in Coordinators, NEW n \in Nodes,
           BeginStop(k, c, n)
    PROVE  IInv'
<1>1. Changed(k, c, n, "locked") BY Becoming DEF BeginStop, Holding
<1>2. /\ UNCHANGED <<history, coordVars, file>> /\ procs' = Put(procs, n, procs[n])
      /\ Arrives(k, c, n) /\ lock[n] = Nothing
      /\ lock' = Put(lock, n, <<k, c>>)
      BY AsUpdates DEF BeginStop, Put
<1>3. PICK L \in SUBSET launcher[n] : launcher' = Put(launcher, n, L)
  <2>1. CASE launcher' = launcher BY <2>1, AsUpdates
  <2>2. CASE launcher' = [launcher EXCEPT ![n] = @ \ {file[n]}]
    <3> DEFINE L == launcher[n] \ {file[n]}
    <3>1. L \in SUBSET launcher[n] /\ launcher' = Put(launcher, n, L) BY <2>2 DEF Put
    <3> QED BY <3>1
  <2> QED BY <2>1, <2>2 DEF BeginStop
<1>4. k \in Kinds /\ procs[n] \in SUBSET procs[n] BY DEF Kinds
<1>5. FlockMoves(k, c, n, "locked") BY <1>2 DEF FlockMoves, Holding
<1> QED BY <1>1, <1>2, <1>3, <1>4, <1>5, FewerStep

LEMMA StopEndsStep ==
    ASSUME IInv, NEW k \in {"stop", "cleanup"}, NEW c \in Coordinators, NEW n \in Nodes,
           StopEnds(k, c, n)
    PROVE  IInv'
<1> DEFINE scope == IF k = "stop" THEN procs[n] ELSE procs[n] \intersect {c}
           P == procs[n] \ scope
           state == IF (k = "stop" \/ file[n] = c) /\ file[n] \in launcher[n]
                    THEN "failed" ELSE "ok"
           L == launcher[n]
<1>1. /\ UNCHANGED <<history, coordVars, file>> /\ launcher' = Put(launcher, n, L)
      /\ session[k][c][n] \in Holding /\ Unlock(n)
      /\ procs' = Put(procs, n, P) /\ Become(k, c, n, state)
      BY AsUpdates DEF StopEnds, Put, Holding
<1>2. P \in SUBSET procs[n] /\ state \in {"ok", "failed"} OBVIOUS
<1>3. k = "cleanup" /\ state = "ok" => c \notin L \union P
      BY NodeTypes DEF OneRun, Single
<1>4. k \in Kinds /\ L \in SUBSET launcher[n] BY DEF Kinds
<1> HIDE DEF P, L, state
<1>5. PICK s \in {"none", state} : Changed(k, c, n, s)
      BY <1>1, <1>2, Becoming
<1>6. s \in {"none", "ok", "failed"} /\ (k = "cleanup" /\ s = "ok" => c \notin L \union P)
      BY <1>2, <1>3, <1>5
<1> QED BY <1>1, <1>2, <1>4, <1>5, <1>6, DoneStep

LEMMA StopFailsStep ==
    ASSUME IInv, NEW k \in {"stop", "cleanup"}, NEW c \in Coordinators, NEW n \in Nodes,
           StopFails(k, c, n)
    PROVE  IInv'
<1> DEFINE L == launcher[n]
<1>1. PICK s \in {"none", "failed"} : Changed(k, c, n, s)
      BY Becoming DEF StopFails
<1>2. /\ UNCHANGED <<history, coordVars, file>> /\ launcher' = Put(launcher, n, L)
      /\ session[k][c][n] \in Holding /\ Unlock(n)
      BY AsUpdates DEF StopFails, Holding
<1>3. PICK P \in SUBSET procs[n] : procs' = Put(procs, n, P)
      BY DEF StopFails, Put
<1>4. k \in Kinds /\ L \in SUBSET launcher[n] BY DEF Kinds
<1>5. s # "ok" OBVIOUS
<1> HIDE DEF L
<1> QED BY <1>1, <1>2, <1>3, <1>4, <1>5, DoneStep

LEMMA StartEndsStep ==
    ASSUME IInv, NEW c \in Coordinators, NEW n \in Nodes, StartEnds(c, n) \/ StartFails(c, n)
    PROVE  IInv'
<1>0. "start" \in Kinds BY DEF Kinds
<1>1. PICK s \in {"none", "ok", "failed"} : Changed("start", c, n, s)
      BY Becoming DEF StartEnds, StartFails
<1>2. /\ UNCHANGED <<history, coordVars, file>>
      /\ session["start"][c][n] \in Holding /\ Unlock(n)
      BY DEF StartEnds, StartFails, Holding
<1>3. PICK L \in SUBSET launcher[n] : launcher' = Put(launcher, n, L)
  <2>1. CASE launcher' = launcher BY <2>1, AsUpdates
  <2>2. CASE launcher' = [launcher EXCEPT ![n] = @ \ {c}]
    <3> DEFINE L == launcher[n] \ {c}
    <3>1. L \in SUBSET launcher[n] /\ launcher' = Put(launcher, n, L) BY <2>2 DEF Put
    <3> QED BY <3>1
  <2> QED BY <2>1, <2>2 DEF StartEnds, StartFails
<1>4. PICK P \in SUBSET procs[n] : procs' = Put(procs, n, P)
  <2>1. CASE procs' = procs BY <2>1, AsUpdates
  <2>2. CASE procs' = [procs EXCEPT ![n] = @ \ {c}]
    <3> DEFINE P == procs[n] \ {c}
    <3>1. P \in SUBSET procs[n] /\ procs' = Put(procs, n, P) BY <2>2 DEF Put
    <3> QED BY <3>1
  <2> QED BY <2>1, <2>2 DEF StartEnds, StartFails
<1> QED BY <1>0, <1>1, <1>2, <1>3, <1>4, DoneStep

\* A preflight that is done, and a look that stops a preflight or a start.
LEMMA LookEndsStep ==
    ASSUME IInv, NEW k \in {"preflight", "start"}, NEW c \in Coordinators, NEW n \in Nodes,
           LookFails(k, c, n) \/ (k = "preflight" /\ PreflightOk(c, n))
    PROVE  IInv'
<1> DEFINE L == launcher[n]
           P == procs[n]
<1>1. PICK s \in {"none", "ok", "failed"} : Changed(k, c, n, s)
      BY Becoming DEF LookFails, PreflightOk
<1>2. /\ UNCHANGED <<history, coordVars, file>>
      /\ session[k][c][n] \in Holding /\ Unlock(n)
      /\ launcher' = Put(launcher, n, L) /\ procs' = Put(procs, n, P)
      BY AsUpdates DEF LookFails, PreflightOk, Holding
<1>3. k \in Kinds /\ k # "cleanup" /\ L \in SUBSET launcher[n] /\ P \in SUBSET procs[n]
      BY DEF Kinds
<1> HIDE DEF L, P
<1> QED BY <1>1, <1>2, <1>3, DoneStep

LEMMA ProcessStep ==
    ASSUME IInv, NEW c \in Coordinators, NEW n \in Nodes, Spawn(c, n) \/ Dies(c, n)
    PROVE  IInv'
<1>1. /\ late' = late /\ job' = job /\ pc' = pc /\ seen' = seen /\ lacking' = lacking
      /\ session' = session /\ lock' = lock /\ file' = file
      BY DEF Spawn, Dies, coordVars, history
<1>2. /\ launcher' \in [Nodes -> SUBSET Coordinators]
      /\ procs' \in [Nodes -> SUBSET Coordinators]
      /\ orphans' \in [Nodes -> SUBSET Coordinators]
      /\ \A m \in Nodes : launcher'[m] \union procs'[m] \subseteq launcher[m] \union procs[m]
  <2>0. orphans \in [Nodes -> SUBSET Coordinators] BY DEF IInv, TypeOK
  <2>1. CASE Spawn(c, n) BY <2>0, <2>1, NodeTypes DEF Spawn, history
  <2>2. CASE Dies(c, n)
    <3>1. /\ launcher' \in [Nodes -> SUBSET Coordinators]
          /\ procs' \in [Nodes -> SUBSET Coordinators]
          /\ \A m \in Nodes : launcher'[m] \union procs'[m] \subseteq launcher[m] \union procs[m]
          BY <2>2, NodeTypes DEF Dies
    <3>2. orphans' \in [Nodes -> SUBSET Coordinators]
          BY <2>0, <2>2, <3>1 DEF Dies
    <3> QED BY <3>1, <3>2
  <2> QED BY <2>1, <2>2
<1>3. TypeOK' BY <1>1, <1>2 DEF IInv, TypeOK, Run
<1>4. SessionOK' /\ InOrder' /\ NoneSent'
      BY <1>1 DEF IInv, SessionOK, InOrder, NoneSent
<1>5. \A d \in Coordinators, m \in Nodes : Gone(d, m) => Gone(d, m)'
      BY <1>1, <1>2 DEF Gone
<1>6. Undone' BY <1>1, <1>5 DEF IInv, Undone, CleanedUp
<1>7. OneRun'
  <2> SUFFICES ASSUME NEW m \in Nodes
               PROVE  Single(m)' /\ (Looking(m) => Own(m)' \subseteq launcher'[m])
      BY <1>1 DEF OneRun, Looking
  <2>0. /\ Single(m) /\ (Looking(m) => Own(m) \subseteq launcher[m])
        /\ orphans \in [Nodes -> SUBSET Coordinators]
        BY DEF IInv, OneRun, TypeOK
\* A process comes only with its launcher.
  <2>1. CASE Spawn(c, n)
    <3>1. /\ launcher'[m] = launcher[m] /\ orphans'[m] = orphans[m]
          /\ procs'[m] = procs[m] \/ (procs'[m] = procs[m] \union {c} /\ c \in launcher[m])
          BY <2>1, NodeTypes DEF Spawn, history
    <3> QED BY <1>1, <2>0, <3>1 DEF Single, Own
\* A run that stays without its launcher is an orphan if a start is looking.
  <2>2. CASE Dies(c, n)
    <3>1. CASE m # n
      <4>1. launcher'[m] = launcher[m] /\ procs'[m] = procs[m] /\ orphans'[m] = orphans[m]
            BY <2>0, <2>2, <3>1, NodeTypes DEF Dies
      <4> QED BY <1>1, <2>0, <4>1 DEF Single, Own
    <3>2. CASE m = n
      <4>1. /\ launcher'[n] = launcher[n] \ {c} /\ procs'[n] \subseteq procs[n]
            /\ orphans'[n] = (IF Looking(n) THEN orphans[n] \union {c} ELSE orphans[n])
                                 \intersect procs'[n]
            BY <2>0, <2>2, NodeTypes DEF Dies, Looking
      <4>2. Own(n)' \subseteq Own(n) /\ (Looking(n) => c \notin Own(n)')
            BY <4>1 DEF Own
      <4> QED BY <1>1, <2>0, <3>2, <4>1, <4>2 DEF Single
    <3> QED BY <3>1, <3>2
  <2> QED BY <2>1, <2>2
<1> QED BY <1>3, <1>4, <1>6, <1>7 DEF IInv

LEMMA GiveUpStep ==
    ASSUME IInv, NEW c \in Coordinators, NEW n \in Nodes, GiveUp(c, n)
    PROVE  IInv'
<1> DEFINE k == pc[c]
<1>1. /\ late' = late /\ orphans' = orphans /\ job' = job /\ pc' = pc /\ seen' = seen /\ lock' = lock
      /\ file' = file /\ launcher' = launcher /\ procs' = procs
      BY DEF GiveUp, nodeVars, history
<1>2. k \in Kinds BY DEF GiveUp
<1>3. /\ lacking' \in [Coordinators -> SUBSET Nodes]
      /\ lacking'[c] = lacking[c] \union {n}
      /\ \A d \in Coordinators : d # c => lacking'[d] = lacking[d]
      BY DEF GiveUp, IInv, TypeOK
<1> DEFINE s == IF session[k][c][n] = "sent" THEN "uncertain" ELSE session[k][c][n]
<1>4. /\ SessionOK' /\ session'[k][c][n] = s
      /\ \A j \in Kinds, d \in Coordinators, m \in Nodes :
            <<j, d, m>> # <<k, c, n>> => session'[j][d][m] = session[j][d][m]
  <2>1. Changed(k, c, n, s) BY DEF GiveUp, Changed
  <2>2. s \in States BY <1>2 DEF IInv, SessionOK, States
  <2> HIDE DEF k, s
  <2> QED BY <1>2, <2>1, <2>2, OneChanged DEF IInv
<1>5. \A j \in Kinds, d \in Coordinators, m \in Nodes :
          \/ session'[j][d][m] = session[j][d][m]
          \/ session[j][d][m] = "sent" /\ session'[j][d][m] = "uncertain"
      BY <1>4
<1>6. TypeOK'
  <2>1. \A j \in Kinds, d \in Coordinators, m \in Nodes :
            /\ session'[j][d][m] \in Finished \union Holding \union {"none", "sent", "uncertain"}
            /\ session'[j][d][m] \in Holding <=> lock'[m] = <<j, d>>
        BY <1>1, <1>5 DEF IInv, TypeOK, Holding
  <2> QED BY <1>1, <1>3, <2>1 DEF IInv, TypeOK, Run
<1>7. OneRun' /\ InOrder'
      BY <1>1, <1>5 DEF IInv, OneRun, Single, Own, Looking, InOrder, Kinds
<1>8. NoneSent'
  <2> SUFFICES ASSUME NEW d \in Coordinators, NEW m \in Nodes,
                      pc[d] \in Begun \/ (pc[d] = "start" /\ m \in lacking'[d])
               PROVE  session'["start"][d][m] # "sent"
      BY <1>1 DEF NoneSent
  <2>0. "start" \in Kinds BY DEF Kinds
  <2>1. CASE pc[d] \in Begun \/ (pc[d] = "start" /\ m \in lacking[d])
        BY <1>5, <2>0, <2>1 DEF IInv, NoneSent
  <2>2. CASE d = c /\ m = n /\ pc[c] = "start"
        BY <1>4, <2>0, <2>2
  <2> QED BY <1>3, <2>1, <2>2
<1>9. \A d \in Coordinators, m \in Nodes : Gone(d, m) => Gone(d, m)'
  <2>0. "start" \in Kinds BY DEF Kinds
  <2> QED BY <1>1, <1>5, <2>0 DEF Gone, Holding
<1>10. Undone'
  <2>0. "cleanup" \in Kinds BY DEF Kinds
  <2>1. \A d \in Coordinators, m \in Nodes : CleanedUp(d, m)' => CleanedUp(d, m)
        BY <1>1, <1>5, <2>0 DEF CleanedUp
  <2> QED BY <1>1, <1>9, <2>1 DEF IInv, Undone
<1> QED BY <1>4, <1>6, <1>7, <1>8, <1>10 DEF IInv

-----------------------------------------------------------------------------
(* The invariant.                                                          *)

LEMMA InitInv == Init => IInv
<1> SUFFICES ASSUME Init PROVE IInv
    OBVIOUS
<1>0. Kinds = {"preflight", "start", "stop", "cleanup"} BY DEF Kinds
<1>1. session = [k \in Kinds |-> [c \in Coordinators |-> [n \in Nodes |->
                    IF k = First(job[c]) THEN "sent" ELSE "none"]]]
      BY DEF Init
<1>2. \A k \in Kinds, c \in Coordinators, n \in Nodes :
          /\ session[k][c][n] \in {"none", "sent"}
          /\ k # "preflight" => session[k][c][n] = "none"
          /\ pc[c] # "preflight" => session[k][c][n] = "none"
  <2>1. ASSUME NEW k \in Kinds, NEW c \in Coordinators, NEW n \in Nodes
        PROVE  session[k][c][n] = IF k = First(job[c]) THEN "sent" ELSE "none"
        BY <1>1
  <2>2. \A c \in Coordinators : First(job[c]) \in {"idle", "preflight"} /\ pc[c] = First(job[c])
        BY DEF Init, First
  <2> QED BY <1>0, <2>1, <2>2
<1>3. \A c \in Coordinators : pc[c] \in {"idle", "preflight"}
      BY DEF Init, First
<1>4. \A n \in Nodes : lock[n] = Nothing /\ launcher[n] = {} /\ procs[n] = {}
      BY DEF Init
<1>5. SessionOK BY <1>1 DEF SessionOK, States
<1>6. TypeOK
  <2>1. pc \in [Coordinators -> Kinds \union Ended \union {"idle", "watch"}]
        BY <1>0 DEF Init, First
  <2>2. /\ late \subseteq Coordinators \X Nodes /\ orphans \in [Nodes -> SUBSET Coordinators]
        /\ job \in [Coordinators -> Jobs]
        /\ seen \in [Coordinators -> SUBSET Nodes] /\ lacking \in [Coordinators -> SUBSET Nodes]
        /\ lock \in [Nodes -> Run \union {Nothing}]
        /\ file \in [Nodes -> Coordinators \union {Nothing}]
        /\ launcher \in [Nodes -> SUBSET Coordinators] /\ procs \in [Nodes -> SUBSET Coordinators]
        BY DEF Init
  <2>3. \A k \in Kinds, c \in Coordinators : <<k, c>> # Nothing
        BY NothingAssumption DEF Kinds
  <2>4. \A k \in Kinds, c \in Coordinators, n \in Nodes :
            /\ session[k][c][n] \in Finished \union Holding \union {"none", "sent", "uncertain"}
            /\ session[k][c][n] \notin Holding /\ lock[n] # <<k, c>>
        BY <1>2, <1>4, <2>3 DEF Holding
  <2> QED BY <2>1, <2>2, <2>4 DEF TypeOK
<1>7. OneRun BY <1>4 DEF OneRun, Single, Own
<1>9. InOrder BY <1>0, <1>2, <1>3 DEF InOrder
<1>8. NoneSent /\ Undone BY <1>3 DEF NoneSent, Undone, Begun, CleanedUp
<1> QED BY <1>5, <1>6, <1>7, <1>8, <1>9 DEF IInv

LEMMA NextInv == IInv /\ [Next]_vars => IInv'
<1> SUFFICES ASSUME IInv, [Next]_vars PROVE IInv'
    OBVIOUS
<1>1. CASE UNCHANGED vars
  <2>1. /\ late' = late /\ orphans' = orphans /\ job' = job /\ pc' = pc /\ seen' = seen
        /\ lacking' = lacking /\ session' = session /\ lock' = lock /\ file' = file
        /\ launcher' = launcher /\ procs' = procs
        BY <1>1 DEF vars, history, coordVars, nodeVars
  <2>2. TypeOK' BY <2>1 DEF IInv, TypeOK, Run
  <2>3. SessionOK' /\ OneRun' /\ InOrder'
        BY <2>1 DEF IInv, SessionOK, OneRun, Single, Own, Looking, InOrder
  <2>4. NoneSent' /\ Undone' BY <2>1 DEF IInv, NoneSent, Undone, Gone, CleanedUp
  <2> QED BY <2>2, <2>3, <2>4 DEF IInv
<1>2. ASSUME NEW c \in Coordinators, Coordinator(c)
      PROVE  IInv'
      BY <1>2, CoordinatorStages, GiveUpStep, StatusStep DEF Coordinator
<1>3. ASSUME NEW c \in Coordinators, NEW n \in Nodes, Node(c, n)
      PROVE  IInv'
      BY <1>3, BeginLookStep, LaunchStep, LookEndsStep, BeginStopStep, StopEndsStep,
         StopFailsStep, StartEndsStep, RefuseStep, ProcessStep DEF Node
<1> QED BY <1>1, <1>2, <1>3 DEF Next

\* Every behaviour keeps the invariant.
THEOREM Invariance == Spec => []IInv
<1> QED BY InitInv, NextInv, PTL DEF Spec

\* Two runs never share a node, whatever any number of coordinators do at once, but
\* for one that lost its launcher between the two looks of the other's start.
THEOREM OneServiceHolds == Spec => []OneService
<1>1. ASSUME IInv PROVE OneService
  <2>1. ASSUME NEW n \in Nodes
        PROVE  Cardinality((launcher[n] \union procs[n]) \ orphans[n]) <= 1
    <3> DEFINE there == (launcher[n] \union procs[n]) \ orphans[n]
    <3>1. there \subseteq {file[n]} BY <1>1, <2>1 DEF IInv, OneRun, Single, Own
    <3>2. there = {} \/ there = {file[n]} BY <3>1
    <3>3. Cardinality({}) = 0 /\ Cardinality({file[n]}) = 1
          BY FS_EmptySet, FS_Singleton
    <3> QED BY <3>2, <3>3
  <2> QED BY <1>1, <2>1 DEF IInv, OneService
<1> QED BY <1>1, Invariance, PTL

\* A coordinator that reports a complete rollback has left nothing of its run on
\* any node, but for one that began the start, already given up, after the cleanup.
THEOREM RolledBackInTimeHolds == Spec => []RolledBackInTime
<1>1. IInv => RolledBackInTime
      BY DEF IInv, Undone, Gone, CleanedUp, RolledBackInTime
<1> QED BY <1>1, Invariance, PTL

\* A cleanup, and a start that fails, leave every other run on the node alone.
THEOREM CleanupScopedHolds == Spec => CleanupScoped
<1> DEFINE Scoped ==
        \A n \in Nodes : lock'[n] # lock[n] =>
            \A c \in Coordinators, k \in {"start", "cleanup"} :
                <<k, c>> \in {lock[n], lock'[n]}
                => (launcher[n] \union procs[n]) \ {c} \subseteq launcher'[n] \union procs'[n]
<1>1. ASSUME IInv, [Next]_vars PROVE [Scoped]_vars
  <2>1. ASSUME lock' = lock PROVE Scoped
        BY <2>1
  <2>2. ASSUME NEW d \in Coordinators, Coordinator(d) PROVE lock' = lock
        BY <2>2 DEF Coordinator, CheckIdle, StopAnswered, PreflightAnswered, StartAnswered,
           CleanupAnswered, Ready, Interrupt, Killed, GiveUp, Status, Enter, nodeVars
  <2>3. ASSUME NEW d \in Coordinators, NEW m \in Nodes, Node(d, m) PROVE Scoped
    <3> SUFFICES ASSUME NEW n \in Nodes, NEW c \in Coordinators, NEW k \in {"start", "cleanup"},
                        <<k, c>> \in {lock[n], lock'[n]}, lock'[n] # lock[n]
                 PROVE  (launcher[n] \union procs[n]) \ {c} \subseteq launcher'[n] \union procs'[n]
        OBVIOUS
    <3>1. <<k, c>> # Nothing /\ {"preflight", "start"} \subseteq Kinds
          BY NothingAssumption DEF Kinds
    <3>2. \A j \in Kinds : session[j][d][m] \in Holding => lock[m] = <<j, d>>
          BY <1>1 DEF IInv, TypeOK
    <3>3. CASE \/ \E j \in {"preflight", "start"} : BeginLook(j, d, m) \/ LookFails(j, d, m)
               \/ PreflightOk(d, m)
          BY <3>3 DEF BeginLook, LookFails, PreflightOk
    <3>8. CASE Launch(d, m)
          BY <3>8 DEF Launch
    <3>4. CASE \E j \in {"stop", "cleanup"} : BeginStop(j, d, m)
      <4>1. PICK j \in {"stop", "cleanup"} : BeginStop(j, d, m) BY <3>4
      <4>2. n = m /\ lock'[n] = <<j, d>> /\ lock[n] = Nothing
            BY <1>1, <4>1, NodeTypes DEF BeginStop
      <4>3. j = "cleanup" /\ d = c BY <3>1, <4>2
      <4> QED BY <1>1, <4>1, <4>2, <4>3, NodeTypes DEF BeginStop
    <3>5. CASE \E j \in {"stop", "cleanup"} : StopEnds(j, d, m) \/ StopFails(j, d, m)
      <4>1. PICK j \in {"stop", "cleanup"} : StopEnds(j, d, m) \/ StopFails(j, d, m) BY <3>5
      <4>2. n = m /\ lock'[n] = Nothing /\ lock[n] = <<j, d>>
            BY <1>1, <3>2, <4>1, NodeTypes DEF StopEnds, StopFails, Unlock, Kinds, Holding
      <4>3. j = "cleanup" /\ d = c BY <3>1, <4>2
      <4> QED BY <1>1, <4>1, <4>2, <4>3, NodeTypes DEF StopEnds, StopFails
    <3>6. CASE StartEnds(d, m) \/ StartFails(d, m)
      <4>2. n = m /\ lock'[n] = Nothing /\ lock[n] = <<"start", d>>
            BY <1>1, <3>1, <3>2, <3>6, NodeTypes DEF StartEnds, StartFails, Unlock, Holding
      <4>3. d = c BY <3>1, <4>2
      <4> QED BY <1>1, <3>6, <4>2, <4>3, NodeTypes DEF StartEnds, StartFails
    <3>7. CASE (\E j \in Kinds : Refuse(j, d, m)) \/ Spawn(d, m) \/ Dies(d, m)
          BY <3>7 DEF Refuse, Spawn, Dies, nodeVars
    <3> QED BY <2>3, <3>3, <3>4, <3>5, <3>6, <3>7, <3>8 DEF Node
  <2> HIDE DEF Scoped
  <2> QED BY <1>1, <2>1, <2>2, <2>3 DEF Next
<1> QED BY <1>1, Invariance, PTL DEF Spec, CleanupScoped

-----------------------------------------------------------------------------
(***************************************************************************)
(* The patches, for any upstream tree, any of its packages and any texts   *)
(* that other releases of it brought along, and for any number of runs     *)
(* and kills.                                                              *)
(*                                                                         *)
(* 1. What each of the 28 scripts looks for, keeps, replaces and writes,   *)
(*    and how it answers, obeys a few rules (SiteOK, ScriptOK, AllOK): a   *)
(*    text is written by one script only and replaces only its anchors, a  *)
(*    guard asks only for what nothing takes away.  All that follows rests *)
(*    on these rules and not on the scripts one by one.                    *)
(* 2. So --check says of any tree what the script does with it             *)
(*    (CheckTells).                                                        *)
(* 3. Writing only ever adds texts and replaces anchors (Grew); therefore  *)
(*    a site with nothing left to do (Settled) stays so.  Behind a run     *)
(*    that goes on, or that ended well, all is settled (LayerInv), and a   *)
(*    tree in which all is settled has what the uninterrupted run puts in  *)
(*    (SettledLands).                                                      *)
(* 4. A text of upstream is there until its replacement is (Still), but in *)
(*    a file that a kill has cut short.  Hence a script finds in a tree    *)
(*    without such files what it finds in the uninterrupted run            *)
(*    (CodeAgain), and fails only where that one does (ResumeInv).         *)
(***************************************************************************)

\* The texts that the scripts write.
Names == {"10", "20", "30", "40_entry", "40_guard", "50", "51", "52", "53", "54",
          "56", "57", "58", "59", "60", "61", "62", "63", "64", "65", "66", "67",
          "68", "69", "72", "73", "74", "75", "76", "import_os", "copy"}

\* Which of them takes the place of an anchor.
Eater(a) ==
    CASE a \in {"dataclass_import", "bitwidth_import", "AMD-specific"} -> "50"
      [] a \in {"top_k_per_row_prefill", "top_k_per_row_decode"} -> "51"
      [] a \in {"paged_logits_module", "prefill_logits_module"} -> "52"
      [] a \in {"BLOCK_SIZE_M", "accumulator", "import_ScaledMMLinearKernel"} -> "53"
      [] a = "_LDS_CAP_BYTES" -> "54"
      [] a = "total_memory_via_amdsmi" -> "56"
      [] a \in {"VocabParallelEmbedding", "forward_head", "forward_tail",
                "return_loaded", "block_output", "last_layer"} -> "57"
      [] a = "plain_decode" -> "58"
      [] a = "def_load_weights" -> "61"
      [] a = "quant_config" -> "62"
      [] a \in {"varlen_gate", "supports_quant_query_input"} -> "63"
      [] a = "def_get_device_name" -> "64"
      [] a \in {"def_init_cudagraph_manager", "draft_decode_graphs"} -> "65"
      [] a = "def_apply_sdpa" -> "66"
      [] a \in {"BK_BV", "BV", "num_stages"} -> "67"
      [] a = "lm_head" -> "69"
      [] a \in {"self.gate", "index_qk_proj"} -> "72"
      [] a \in {"build_qsa_metadata", "builder_tail"} -> "73"
      [] OTHER -> "none"

Stays(a) == Eater(a) = "none"

\* The place in Scripts of the script that writes it; import_os and copies have several.
Writer(text) ==
    CASE text = "10" -> 1
      [] text = "20" -> 2
      [] text = "30" -> 3
      [] text \in {"40_entry", "40_guard"} -> 4
      [] text = "50" -> 5
      [] text = "51" -> 6
      [] text = "52" -> 7
      [] text = "53" -> 8
      [] text = "54" -> 9
      [] text = "56" -> 10
      [] text = "57" -> 11
      [] text = "58" -> 12
      [] text = "59" -> 13
      [] text = "60" -> 14
      [] text = "61" -> 15
      [] text = "62" -> 16
      [] text = "63" -> 17
      [] text = "64" -> 18
      [] text = "65" -> 19
      [] text = "66" -> 20
      [] text = "67" -> 21
      [] text = "68" -> 22
      [] text = "69" -> 23
      [] text = "72" -> 24
      [] text = "73" -> 25
      [] text = "74" -> 26
      [] text = "75" -> 27
      [] text = "76" -> 28
      [] OTHER -> 0

NewFiles == {"gfx1x_radix_topk.py", "gfx1x_tilelang_mqa.py", "gfx1x_w8a8_bf16.py"}
ReadOnly == {"fa_utils.py", "flash_attn.py"}
KernelFile == "rocm_aiter_mla_sparse.py"

Excused(x) == \A e \in x.edits : <<x.file, e.text>> \in PassedOver
Has(x, text) == \E e \in x.edits : e.text = text

EditOK(e) == /\ e.text \in Names
             /\ \A a \in e.eats : Eater(a) = e.text
             /\ \A a \in e.keeps : a \notin Names /\ Stays(a)
             /\ e.text = "import_os" => e.keeps = {"stdlib_imports"} /\ e.eats = {}

EditsOK(x) == (\A e \in x.edits : EditOK(e)) /\ (\E e \in x.edits : e.text # "import_os")

TestsOK(x) ==
    /\ \A g \in x.guards : g[2] \notin Names /\ Stays(g[2]) /\ g[1] \in {x.file} \cup ReadOnly
    /\ \A y \in x.known \cup x.bars : y \notin Names /\ Stays(y)
    /\ \A y \in x.seen : Stays(y)
    /\ \A e \in x.edits : e.text = "import_os" => x.known = {} /\ ~x.creates
    /\ \A e \in x.edits : e.text = "copy" => x.creates
    /\ \A y \in x.seen \cap Names :
          /\ y # "import_os"
          /\ \A e \in x.edits : \/ e.text = y
                                \/ x.file = KernelFile /\ y \in {"51", "52"}
                                   /\ e.text = "import_os"

FileOK(x) ==
    /\ x.file \notin ReadOnly
    /\ x.creates <=> x.file \in NewFiles
    /\ x.creates => x.within = "" /\ x.check = "marked"
    /\ x.file = "ple_layer.py" => x = P57Ple
    /\ x.file = "vec_convert.h" => x = P54VecConvert
    /\ x.file = "cpp_itfs/utils.py" => x = P54CppItfs
    /\ x.file = KernelFile /\ (Has(x, "51") \/ Has(x, "52")) => Has(x, "import_os")
    /\ ~x.creates /\ x.file # "vec_convert.h" => \E e \in x.edits : e.keeps \cup e.eats # {}

AnswersOK(x) ==
    /\ x.again \in {Pass, Done}
    /\ x.creates => x.again = Pass
    /\ x.gone \in {Pass, Done, Failed, Reaudit} /\ x.moved \in {Pass, Failed, Reaudit}
    /\ x.moved = Pass => Excused(x)
    /\ x.check \in {"marked", "present", ""}
    /\ x.check = "" => Excused(x) \/ x = P54CppItfs
    /\ x.check = "marked" => x.gone # Pass

SiteOK(x) == EditsOK(x) /\ TestsOK(x) /\ FileOK(x) /\ AnswersOK(x)

LEMMA NamesStay == \A y \in Names : Stays(y) /\ y # "none"
BY DEF Names, Stays, Eater

\* A site with one edit.
LEMMA OneEdit ==
    ASSUME NEW text \in Names, text # "import_os", NEW keeps, NEW eats,
           \A a \in eats : Eater(a) = text, \A a \in keeps : a \notin Names /\ Stays(a)
    PROVE  LET e == Edit(text, keeps, eats) IN EditOK(e) /\ e.text # "import_os"
BY DEF EditOK, Edit

LEMMA SharedOK == EditOK(SharedImport)
<1>1. "stdlib_imports" \notin Names BY DEF Names
<1>2. Stays("stdlib_imports") BY DEF Stays, Eater
<1>3. "import_os" \in Names BY DEF Names
<1> QED BY <1>1, <1>2, <1>3 DEF SharedImport, Edit, EditOK

\* A site that is nothing but an edit of a file of its own.
LEMMA PlainOK ==
    ASSUME NEW name, NEW text \in Names, text \notin {"import_os", "copy"}, NEW keeps, NEW eats,
           name \notin NewFiles \cup ReadOnly \cup {KernelFile},
           name \notin {"ple_layer.py", "vec_convert.h", "cpp_itfs/utils.py"},
           \A a \in eats : Eater(a) = text, \A a \in keeps : a \notin Names /\ Stays(a),
           keeps \cup eats # {}
    PROVE  SiteOK(Site(name, text, keeps, eats))
<1> DEFINE x == Site(name, text, keeps, eats)
<1>1. EditsOK(x) BY OneEdit DEF Site, EditsOK
<1>2. TestsOK(x) BY NamesStay DEF Site, Edit, TestsOK
<1>3. FileOK(x) BY DEF Site, Edit, FileOK
<1>4. AnswersOK(x) BY DEF Site, AnswersOK, Pass, Done, Failed, Reaudit
<1> QED BY <1>1, <1>2, <1>3, <1>4 DEF SiteOK

LEMMA PlainText ==
    \A name, text, keeps, eats : \A e \in Site(name, text, keeps, eats).edits : e.text = text
BY DEF Site, Edit

\* The others, one by one.
LEMMA P40EnvsOK == SiteOK(P40Envs)
<1>1. EditsOK(P40Envs) BY OneEdit DEF P40Envs, Site, EditsOK, Names, Eater, Stays
<1>2. TestsOK(P40Envs)
      BY DEF P40Envs, Site, Edit, TestsOK, Names, Eater, Stays, ReadOnly, KernelFile
<1>4. FileOK(P40Envs)
      BY DEF P40Envs, Site, Edit, FileOK, Has, ReadOnly, NewFiles, KernelFile
<1>5. AnswersOK(P40Envs)
      BY DEF P40Envs, Site, Edit, AnswersOK, Excused, PassedOver, Pass, Done, Failed,
         Reaudit
<1> QED BY <1>1, <1>2, <1>4, <1>5 DEF SiteOK

LEMMA P50EditOK == SiteOK(P50Edit)
<1>1. EditsOK(P50Edit) BY OneEdit DEF P50Edit, Site, EditsOK, Names, Eater, Stays
<1>2. TestsOK(P50Edit)
      BY DEF P50Edit, Site, Edit, TestsOK, Names, Eater, Stays, ReadOnly, KernelFile
<1>4. FileOK(P50Edit)
      BY DEF P50Edit, Site, Edit, FileOK, Has, ReadOnly, NewFiles, KernelFile
<1>5. AnswersOK(P50Edit)
      BY DEF P50Edit, Site, Edit, AnswersOK, Excused, PassedOver, Pass, Done, Failed,
         Reaudit
<1> QED BY <1>1, <1>2, <1>4, <1>5 DEF SiteOK

LEMMA P51DispatchOK == SiteOK(P51Dispatch)
<1>1. EditsOK(P51Dispatch)
      BY OneEdit, SharedOK DEF P51Dispatch, Site, EditsOK, Names, Eater, Stays
<1>2. TestsOK(P51Dispatch)
      BY DEF P51Dispatch, Site, Edit, TestsOK, Names, Eater, Stays, ReadOnly, KernelFile,
         SharedImport
<1>3. SharedImport \in P51Dispatch.edits BY DEF P51Dispatch, Site
<1>6. SharedImport.text = "import_os" /\ SharedImport.keeps # {}
      BY DEF SharedImport, Edit
<1>7. P51Dispatch.file = KernelFile /\ ~P51Dispatch.creates
      BY DEF P51Dispatch, Site, KernelFile
<1>4. FileOK(P51Dispatch)
      BY <1>3, <1>6, <1>7 DEF FileOK, Has, ReadOnly, NewFiles, KernelFile
<1>5. AnswersOK(P51Dispatch)
      BY DEF P51Dispatch, Site, Edit, AnswersOK, Excused, PassedOver, Pass, Done, Failed,
         Reaudit
<1> QED BY <1>1, <1>2, <1>4, <1>5 DEF SiteOK

LEMMA P52DispatchOK == SiteOK(P52Dispatch)
<1>1. EditsOK(P52Dispatch)
      BY OneEdit, SharedOK DEF P52Dispatch, Site, EditsOK, Names, Eater, Stays
<1>2. TestsOK(P52Dispatch)
      BY DEF P52Dispatch, Site, Edit, TestsOK, Names, Eater, Stays, ReadOnly, KernelFile,
         SharedImport
<1>3. SharedImport \in P52Dispatch.edits BY DEF P52Dispatch, Site
<1>6. SharedImport.text = "import_os" /\ SharedImport.keeps # {}
      BY DEF SharedImport, Edit
<1>7. P52Dispatch.file = KernelFile /\ ~P52Dispatch.creates
      BY DEF P52Dispatch, Site, KernelFile
<1>4. FileOK(P52Dispatch)
      BY <1>3, <1>6, <1>7 DEF FileOK, Has, ReadOnly, NewFiles, KernelFile
<1>5. AnswersOK(P52Dispatch)
      BY DEF P52Dispatch, Site, Edit, AnswersOK, Excused, PassedOver, Pass, Done, Failed,
         Reaudit
<1> QED BY <1>1, <1>2, <1>4, <1>5 DEF SiteOK

LEMMA P54ArchInfoOK == SiteOK(P54ArchInfo)
<1>1. EditsOK(P54ArchInfo) BY OneEdit DEF P54ArchInfo, Site, EditsOK, Names, Eater, Stays
<1>2. TestsOK(P54ArchInfo)
      BY DEF P54ArchInfo, Site, Edit, TestsOK, Names, Eater, Stays, ReadOnly, KernelFile
<1>4. FileOK(P54ArchInfo)
      BY DEF P54ArchInfo, Site, Edit, FileOK, Has, ReadOnly, NewFiles, KernelFile
<1>5. AnswersOK(P54ArchInfo)
      BY DEF P54ArchInfo, Site, Edit, AnswersOK, Excused, PassedOver, Pass, Done, Failed,
         Reaudit
<1> QED BY <1>1, <1>2, <1>4, <1>5 DEF SiteOK

LEMMA P54CppItfsOK == SiteOK(P54CppItfs)
<1>1. EditsOK(P54CppItfs) BY OneEdit DEF P54CppItfs, Site, EditsOK, Names, Eater, Stays
<1>2. TestsOK(P54CppItfs)
      BY DEF P54CppItfs, Site, Edit, TestsOK, Names, Eater, Stays, ReadOnly, KernelFile
<1>4. FileOK(P54CppItfs)
      BY DEF P54CppItfs, Site, Edit, FileOK, Has, ReadOnly, NewFiles, KernelFile
<1>5. AnswersOK(P54CppItfs)
      BY DEF P54CppItfs, Site, Edit, AnswersOK, Excused, PassedOver, Pass, Done, Failed,
         Reaudit
<1> QED BY <1>1, <1>2, <1>4, <1>5 DEF SiteOK

LEMMA P54VecConvertOK == SiteOK(P54VecConvert)
<1>1. EditsOK(P54VecConvert)
      BY OneEdit DEF P54VecConvert, Site, EditsOK, Names, Eater, Stays
<1>2. TestsOK(P54VecConvert)
      BY DEF P54VecConvert, Site, Edit, TestsOK, Names, Eater, Stays, ReadOnly, KernelFile
<1>4. FileOK(P54VecConvert)
      BY DEF P54VecConvert, Site, Edit, FileOK, Has, ReadOnly, NewFiles, KernelFile
<1>5. AnswersOK(P54VecConvert)
      BY DEF P54VecConvert, Site, Edit, AnswersOK, Excused, PassedOver, Pass, Done, Failed,
         Reaudit
<1> QED BY <1>1, <1>2, <1>4, <1>5 DEF SiteOK

LEMMA P57PleOK == SiteOK(P57Ple)
<1>1. EditsOK(P57Ple)
      BY OneEdit DEF P57Ple, P57Table, P57Calls, Site, EditsOK, Names, Eater, Stays
<1>2. TestsOK(P57Ple)
      BY DEF P57Ple, P57Table, P57Calls, Site, Edit, TestsOK, Names, Eater, Stays,
         ReadOnly, KernelFile
<1>4. FileOK(P57Ple)
      BY DEF P57Ple, P57Table, P57Calls, Site, Edit, FileOK, Has, ReadOnly, NewFiles,
         KernelFile
<1>5. AnswersOK(P57Ple)
      BY DEF P57Ple, Site, Edit, AnswersOK, Excused, PassedOver, Pass, Done, Failed, Reaudit
<1> QED BY <1>1, <1>2, <1>4, <1>5 DEF SiteOK

LEMMA P57ModelOK == SiteOK(P57Model)
<1>1. EditsOK(P57Model) BY OneEdit DEF P57Model, Site, EditsOK, Names, Eater, Stays
<1>2. TestsOK(P57Model)
      BY DEF P57Model, Site, Edit, TestsOK, Names, Eater, Stays, ReadOnly, KernelFile
<1>4. FileOK(P57Model)
      BY DEF P57Model, Site, Edit, FileOK, Has, ReadOnly, NewFiles, KernelFile
<1>5. AnswersOK(P57Model)
      BY DEF P57Model, Site, Edit, AnswersOK, Excused, PassedOver, Pass, Done, Failed,
         Reaudit
<1> QED BY <1>1, <1>2, <1>4, <1>5 DEF SiteOK

LEMMA P57EnvsOK == SiteOK(P57Envs)
<1>1. EditsOK(P57Envs) BY OneEdit DEF P57Envs, Site, EditsOK, Names, Eater, Stays
<1>2. TestsOK(P57Envs)
      BY DEF P57Envs, Site, Edit, TestsOK, Names, Eater, Stays, ReadOnly, KernelFile
<1>4. FileOK(P57Envs)
      BY DEF P57Envs, Site, Edit, FileOK, Has, ReadOnly, NewFiles, KernelFile
<1>5. AnswersOK(P57Envs)
      BY DEF P57Envs, Site, Edit, AnswersOK, Excused, PassedOver, Pass, Done, Failed,
         Reaudit
<1> QED BY <1>1, <1>2, <1>4, <1>5 DEF SiteOK

LEMMA P58EditOK == SiteOK(P58Edit)
<1>1. EditsOK(P58Edit) BY OneEdit DEF P58Edit, Site, EditsOK, Names, Eater, Stays
<1>2. TestsOK(P58Edit)
      BY DEF P58Edit, Site, Edit, TestsOK, Names, Eater, Stays, ReadOnly, KernelFile
<1>4. FileOK(P58Edit)
      BY DEF P58Edit, Site, Edit, FileOK, Has, ReadOnly, NewFiles, KernelFile
<1>5. AnswersOK(P58Edit)
      BY DEF P58Edit, Site, Edit, AnswersOK, Excused, PassedOver, Pass, Done, Failed,
         Reaudit
<1> QED BY <1>1, <1>2, <1>4, <1>5 DEF SiteOK

LEMMA P60UtilsOK == SiteOK(P60Utils)
<1>1. EditsOK(P60Utils) BY OneEdit DEF P60Utils, Site, EditsOK, Names, Eater, Stays
<1>2. TestsOK(P60Utils)
      BY DEF P60Utils, Site, Edit, TestsOK, Names, Eater, Stays, ReadOnly, KernelFile
<1>4. FileOK(P60Utils)
      BY DEF P60Utils, Site, Edit, FileOK, Has, ReadOnly, NewFiles, KernelFile
<1>5. AnswersOK(P60Utils)
      BY DEF P60Utils, Site, Edit, AnswersOK, Excused, PassedOver, Pass, Done, Failed,
         Reaudit
<1> QED BY <1>1, <1>2, <1>4, <1>5 DEF SiteOK

LEMMA P61EditOK == SiteOK(P61Edit)
<1>1. EditsOK(P61Edit) BY OneEdit DEF P61Edit, Site, EditsOK, Names, Eater, Stays
<1>2. TestsOK(P61Edit)
      BY DEF P61Edit, Site, Edit, TestsOK, Names, Eater, Stays, ReadOnly, KernelFile
<1>4. FileOK(P61Edit)
      BY DEF P61Edit, Site, Edit, FileOK, Has, ReadOnly, NewFiles, KernelFile
<1>5. AnswersOK(P61Edit)
      BY DEF P61Edit, Site, Edit, AnswersOK, Excused, PassedOver, Pass, Done, Failed,
         Reaudit
<1> QED BY <1>1, <1>2, <1>4, <1>5 DEF SiteOK

LEMMA P62EditOK == SiteOK(P62Edit)
<1>1. EditsOK(P62Edit) BY OneEdit DEF P62Edit, Site, EditsOK, Names, Eater, Stays
<1>2. TestsOK(P62Edit)
      BY DEF P62Edit, Site, Edit, TestsOK, Names, Eater, Stays, ReadOnly, KernelFile
<1>4. FileOK(P62Edit)
      BY DEF P62Edit, Site, Edit, FileOK, Has, ReadOnly, NewFiles, KernelFile
<1>5. AnswersOK(P62Edit)
      BY DEF P62Edit, Site, Edit, AnswersOK, Excused, PassedOver, Pass, Done, Failed,
         Reaudit
<1> QED BY <1>1, <1>2, <1>4, <1>5 DEF SiteOK

LEMMA P63EditOK == SiteOK(P63Edit)
<1>1. EditsOK(P63Edit) BY OneEdit DEF P63Edit, Site, EditsOK, Names, Eater, Stays
<1>2. TestsOK(P63Edit)
      BY DEF P63Edit, Site, Edit, TestsOK, Names, Eater, Stays, ReadOnly, KernelFile
<1>4. FileOK(P63Edit)
      BY DEF P63Edit, Site, Edit, FileOK, Has, ReadOnly, NewFiles, KernelFile
<1>5. AnswersOK(P63Edit)
      BY DEF P63Edit, Site, Edit, AnswersOK, Excused, PassedOver, Pass, Done, Failed,
         Reaudit
<1> QED BY <1>1, <1>2, <1>4, <1>5 DEF SiteOK

LEMMA P64RocmOK == SiteOK(P64Rocm)
<1>1. EditsOK(P64Rocm) BY OneEdit DEF P64Rocm, Site, EditsOK, Names, Eater, Stays
<1>2. TestsOK(P64Rocm)
      BY DEF P64Rocm, Site, Edit, TestsOK, Names, Eater, Stays, ReadOnly, KernelFile
<1>4. FileOK(P64Rocm)
      BY DEF P64Rocm, Site, Edit, FileOK, Has, ReadOnly, NewFiles, KernelFile
<1>5. AnswersOK(P64Rocm)
      BY DEF P64Rocm, Site, Edit, AnswersOK, Excused, PassedOver, Pass, Done, Failed,
         Reaudit
<1> QED BY <1>1, <1>2, <1>4, <1>5 DEF SiteOK

LEMMA P65EditOK == SiteOK(P65Edit)
<1>1. EditsOK(P65Edit) BY OneEdit DEF P65Edit, Site, EditsOK, Names, Eater, Stays
<1>2. TestsOK(P65Edit)
      BY DEF P65Edit, Site, Edit, TestsOK, Names, Eater, Stays, ReadOnly, KernelFile
<1>4. FileOK(P65Edit)
      BY DEF P65Edit, Site, Edit, FileOK, Has, ReadOnly, NewFiles, KernelFile
<1>5. AnswersOK(P65Edit)
      BY DEF P65Edit, Site, Edit, AnswersOK, Excused, PassedOver, Pass, Done, Failed,
         Reaudit
<1> QED BY <1>1, <1>2, <1>4, <1>5 DEF SiteOK

LEMMA P66EditOK == SiteOK(P66Edit)
<1>1. EditsOK(P66Edit) BY OneEdit DEF P66Edit, Site, EditsOK, Names, Eater, Stays
<1>2. TestsOK(P66Edit)
      BY DEF P66Edit, Site, Edit, TestsOK, Names, Eater, Stays, ReadOnly, KernelFile
<1>4. FileOK(P66Edit)
      BY DEF P66Edit, Site, Edit, FileOK, Has, ReadOnly, NewFiles, KernelFile
<1>5. AnswersOK(P66Edit)
      BY DEF P66Edit, Site, Edit, AnswersOK, Excused, PassedOver, Pass, Done, Failed,
         Reaudit
<1> QED BY <1>1, <1>2, <1>4, <1>5 DEF SiteOK

LEMMA P69EditOK == SiteOK(P69Edit)
<1>1. EditsOK(P69Edit) BY OneEdit DEF P69Edit, Site, EditsOK, Names, Eater, Stays
<1>2. TestsOK(P69Edit)
      BY DEF P69Edit, Site, Edit, TestsOK, Names, Eater, Stays, ReadOnly, KernelFile
<1>4. FileOK(P69Edit)
      BY DEF P69Edit, Site, Edit, FileOK, Has, ReadOnly, NewFiles, KernelFile
<1>5. AnswersOK(P69Edit)
      BY DEF P69Edit, Site, Edit, AnswersOK, Excused, PassedOver, Pass, Done, Failed,
         Reaudit
<1> QED BY <1>1, <1>2, <1>4, <1>5 DEF SiteOK

LEMMA P72NextOK == SiteOK(P72Next)
<1>1. EditsOK(P72Next) BY OneEdit DEF P72Next, Site, EditsOK, Names, Eater, Stays
<1>2. TestsOK(P72Next)
      BY DEF P72Next, Site, Edit, TestsOK, Names, Eater, Stays, ReadOnly, KernelFile
<1>4. FileOK(P72Next)
      BY DEF P72Next, Site, Edit, FileOK, Has, ReadOnly, NewFiles, KernelFile
<1>5. AnswersOK(P72Next)
      BY DEF P72Next, Site, Edit, AnswersOK, Excused, PassedOver, Pass, Done, Failed,
         Reaudit
<1> QED BY <1>1, <1>2, <1>4, <1>5 DEF SiteOK

LEMMA P72IndexerOK == SiteOK(P72Indexer)
<1>1. EditsOK(P72Indexer) BY OneEdit DEF P72Indexer, Site, EditsOK, Names, Eater, Stays
<1>2. TestsOK(P72Indexer)
      BY DEF P72Indexer, Site, Edit, TestsOK, Names, Eater, Stays, ReadOnly, KernelFile
<1>4. FileOK(P72Indexer)
      BY DEF P72Indexer, Site, Edit, FileOK, Has, ReadOnly, NewFiles, KernelFile
<1>5. AnswersOK(P72Indexer)
      BY DEF P72Indexer, Site, Edit, AnswersOK, Excused, PassedOver, Pass, Done, Failed,
         Reaudit
<1> QED BY <1>1, <1>2, <1>4, <1>5 DEF SiteOK

LEMMA P74EditOK == SiteOK(P74Edit)
<1>1. EditsOK(P74Edit) BY OneEdit DEF P74Edit, Site, EditsOK, Names, Eater, Stays
<1>2. TestsOK(P74Edit)
      BY DEF P74Edit, Site, Edit, TestsOK, Names, Eater, Stays, ReadOnly, KernelFile
<1>4. FileOK(P74Edit)
      BY DEF P74Edit, Site, Edit, FileOK, Has, ReadOnly, NewFiles, KernelFile
<1>5. AnswersOK(P74Edit)
      BY DEF P74Edit, Site, Edit, AnswersOK, Excused, PassedOver, Pass, Done, Failed,
         Reaudit
<1> QED BY <1>1, <1>2, <1>4, <1>5 DEF SiteOK

LEMMA P75EditOK == SiteOK(P75Edit)
<1>1. EditsOK(P75Edit) BY OneEdit DEF P75Edit, Site, EditsOK, Names, Eater, Stays
<1>2. TestsOK(P75Edit)
      BY DEF P75Edit, Site, Edit, TestsOK, Names, Eater, Stays, ReadOnly, KernelFile
<1>4. FileOK(P75Edit)
      BY DEF P75Edit, Site, Edit, FileOK, Has, ReadOnly, NewFiles, KernelFile
<1>5. AnswersOK(P75Edit)
      BY DEF P75Edit, Site, Edit, AnswersOK, Excused, PassedOver, Pass, Done, Failed,
         Reaudit
<1> QED BY <1>1, <1>2, <1>4, <1>5 DEF SiteOK

LEMMA VendoredOK ==
    ASSUME NEW name \in NewFiles PROVE SiteOK(Vendored(name))
<1>1. EditsOK(Vendored(name)) BY DEF Vendored, Copied, Site, EditsOK, Names, Edit, EditOK
<1>2. TestsOK(Vendored(name))
      BY DEF Vendored, Copied, Site, Edit, TestsOK, Names, Eater, Stays
<1>3. FileOK(Vendored(name))
      BY DEF Vendored, Copied, Site, Edit, FileOK, Has, ReadOnly, NewFiles, KernelFile
<1>4. AnswersOK(Vendored(name))
      BY DEF Vendored, Copied, Site, AnswersOK, Pass, Done, Failed, Reaudit
<1> QED BY <1>1, <1>2, <1>3, <1>4 DEF SiteOK

LEMMA CopiedOK ==
    ASSUME NEW name \in NewFiles PROVE SiteOK(Copied(name, "53"))
<1>1. EditsOK(Copied(name, "53")) BY OneEdit DEF Copied, Site, EditsOK, Names
<1>2. TestsOK(Copied(name, "53")) BY DEF Copied, Site, Edit, TestsOK, Names, Eater, Stays
<1>3. FileOK(Copied(name, "53"))
      BY DEF Copied, Site, Edit, FileOK, Has, ReadOnly, NewFiles, KernelFile
<1>4. AnswersOK(Copied(name, "53"))
      BY DEF Copied, Site, AnswersOK, Pass, Done, Failed, Reaudit
<1> QED BY <1>1, <1>2, <1>3, <1>4 DEF SiteOK

-----------------------------------------------------------------------------
(***************************************************************************)
(* The rules for a script, the i-th of Scripts: its sites follow theirs,   *)
(* edit different files and write its own texts, and one that can end it   *)
(* early comes before none but the Excused ones.                           *)
(***************************************************************************)
ScriptOK(s, i) ==
    /\ \E n \in Nat : DOMAIN s.sites = 1..n /\ Len(s.sites) = n
    /\ \A k \in DOMAIN s.sites :
          /\ SiteOK(s.sites[k])
          /\ \A e \in s.sites[k].edits : Writer(e.text) \in {0, i}
    /\ \A j, k \in DOMAIN s.sites : s.sites[j].file = s.sites[k].file => j = k
    /\ \A j, k \in DOMAIN s.sites : j < k =>
          \/ Excused(s.sites[k])
          \/ /\ s.sites[j].gone # Done /\ s.sites[j].again # Done
             /\ s.sites[j].within \in {"", s.sites[k].within}
    /\ s.needs \cap NewFiles = {}
    /\ \A r \in s.refuses : Stays(r[2]) /\ r[2] \notin Names /\ r[1] = "arch_info.py"

LEMMA OneSite ==
    ASSUME NEW n, NEW x, NEW i, SiteOK(x), \A e \in x.edits : Writer(e.text) \in {0, i}
    PROVE  ScriptOK(Script(n, <<x>>), i)
<1> DEFINE s == Script(n, <<x>>)
<1>1. s.sites = <<x>> /\ s.needs = {} /\ s.refuses = {} BY DEF Script
<1>2. DOMAIN <<x>> = 1..1 /\ Len(<<x>>) = 1 /\ <<x>>[1] = x OBVIOUS
<1>3. \A k \in 1..1 : k = 1 OBVIOUS
<1> HIDE DEF s
<1>4. DOMAIN s.sites = 1..1 /\ Len(s.sites) = 1 /\ \A k \in 1..1 : s.sites[k] = x
      BY <1>1, <1>2, <1>3
<1>6. \E m \in Nat : DOMAIN s.sites = 1..m /\ Len(s.sites) = m BY <1>4
<1>7. \A j, k \in DOMAIN s.sites : j = k BY <1>4, <1>3
<1>8. \A k \in DOMAIN s.sites : s.sites[k] = x BY <1>4
<1>9. \A j, k \in DOMAIN s.sites : ~(j < k) BY <1>4, <1>3
<1>5. ScriptOK(s, i) BY <1>1, <1>6, <1>7, <1>8, <1>9 DEF ScriptOK
<1> QED BY <1>5 DEF s

LEMMA P10OK == ScriptOK(P10, 1)
<1>1. SiteOK(P10.sites[1])
      BY PlainOK DEF P10, Script, Names, Eater, Stays, NewFiles, ReadOnly, KernelFile
<1>4. \A e \in P10.sites[1].edits : e.text = "10" BY PlainText DEF P10, Script
<1>2. Writer("10") = 1 BY DEF Writer
<1>3. P10 = Script(10, <<P10.sites[1]>>) BY DEF P10, Script
<1> QED BY <1>1, <1>2, <1>3, <1>4, OneSite

LEMMA P20OK == ScriptOK(P20, 2)
<1>1. SiteOK(P20.sites[1])
      BY PlainOK DEF P20, Script, Names, Eater, Stays, NewFiles, ReadOnly, KernelFile
<1>4. \A e \in P20.sites[1].edits : e.text = "20" BY PlainText DEF P20, Script
<1>2. Writer("20") = 2 BY DEF Writer
<1>3. P20 = Script(20, <<P20.sites[1]>>) BY DEF P20, Script
<1> QED BY <1>1, <1>2, <1>3, <1>4, OneSite

LEMMA P30OK == ScriptOK(P30, 3)
<1>1. SiteOK(P30.sites[1])
      BY PlainOK DEF P30, Script, Names, Eater, Stays, NewFiles, ReadOnly, KernelFile
<1>4. \A e \in P30.sites[1].edits : e.text = "30" BY PlainText DEF P30, Script
<1>2. Writer("30") = 3 BY DEF Writer
<1>3. P30 = Script(30, <<P30.sites[1]>>) BY DEF P30, Script
<1> QED BY <1>1, <1>2, <1>3, <1>4, OneSite

LEMMA P40OK == ScriptOK(P40, 4)
<1>1. \A e \in P40Envs.edits : Writer(e.text) \in {0, 4} BY DEF P40Envs, Site, Edit, Writer
<1> QED BY <1>1, P40EnvsOK, OneSite DEF P40

LEMMA P50OK == ScriptOK(P50, 5)
<1>1. \A e \in P50Edit.edits : Writer(e.text) \in {0, 5} BY DEF P50Edit, Site, Edit, Writer
<1> QED BY <1>1, P50EditOK, OneSite DEF P50

LEMMA P58OK == ScriptOK(P58, 12)
<1>1. \A e \in P58Edit.edits : Writer(e.text) \in {0, 12} BY DEF P58Edit, Site, Edit, Writer
<1> QED BY <1>1, P58EditOK, OneSite DEF P58

LEMMA P59OK == ScriptOK(P59, 13)
<1>1. SiteOK(P59.sites[1])
      BY PlainOK DEF P59, Script, Names, Eater, Stays, NewFiles, ReadOnly, KernelFile
<1>4. \A e \in P59.sites[1].edits : e.text = "59" BY PlainText DEF P59, Script
<1>2. Writer("59") = 13 BY DEF Writer
<1>3. P59 = Script(59, <<P59.sites[1]>>) BY DEF P59, Script
<1> QED BY <1>1, <1>2, <1>3, <1>4, OneSite

LEMMA P60OK == ScriptOK(P60, 14)
<1>1. \A e \in P60Utils.edits : Writer(e.text) \in {0, 14}
      BY DEF P60Utils, Site, Edit, Writer
<1> QED BY <1>1, P60UtilsOK, OneSite DEF P60

LEMMA P61OK == ScriptOK(P61, 15)
<1>1. \A e \in P61Edit.edits : Writer(e.text) \in {0, 15} BY DEF P61Edit, Site, Edit, Writer
<1> QED BY <1>1, P61EditOK, OneSite DEF P61

LEMMA P62OK == ScriptOK(P62, 16)
<1>1. \A e \in P62Edit.edits : Writer(e.text) \in {0, 16} BY DEF P62Edit, Site, Edit, Writer
<1> QED BY <1>1, P62EditOK, OneSite DEF P62

LEMMA P63OK == ScriptOK(P63, 17)
<1>1. \A e \in P63Edit.edits : Writer(e.text) \in {0, 17} BY DEF P63Edit, Site, Edit, Writer
<1> QED BY <1>1, P63EditOK, OneSite DEF P63

LEMMA P64OK == ScriptOK(P64, 18)
<1>1. \A e \in P64Rocm.edits : Writer(e.text) \in {0, 18} BY DEF P64Rocm, Site, Edit, Writer
<1> QED BY <1>1, P64RocmOK, OneSite DEF P64

LEMMA P65OK == ScriptOK(P65, 19)
<1>1. \A e \in P65Edit.edits : Writer(e.text) \in {0, 19} BY DEF P65Edit, Site, Edit, Writer
<1> QED BY <1>1, P65EditOK, OneSite DEF P65

LEMMA P66OK == ScriptOK(P66, 20)
<1>1. \A e \in P66Edit.edits : Writer(e.text) \in {0, 20} BY DEF P66Edit, Site, Edit, Writer
<1> QED BY <1>1, P66EditOK, OneSite DEF P66

LEMMA P67OK == ScriptOK(P67, 21)
<1>1. SiteOK(P67.sites[1])
      BY PlainOK DEF P67, Script, Names, Eater, Stays, NewFiles, ReadOnly, KernelFile
<1>4. \A e \in P67.sites[1].edits : e.text = "67" BY PlainText DEF P67, Script
<1>2. Writer("67") = 21 BY DEF Writer
<1>3. P67 = Script(67, <<P67.sites[1]>>) BY DEF P67, Script
<1> QED BY <1>1, <1>2, <1>3, <1>4, OneSite

LEMMA P68OK == ScriptOK(P68, 22)
<1>1. SiteOK(P68.sites[1])
      BY PlainOK DEF P68, Script, Names, Eater, Stays, NewFiles, ReadOnly, KernelFile
<1>4. \A e \in P68.sites[1].edits : e.text = "68" BY PlainText DEF P68, Script
<1>2. Writer("68") = 22 BY DEF Writer
<1>3. P68 = Script(68, <<P68.sites[1]>>) BY DEF P68, Script
<1> QED BY <1>1, <1>2, <1>3, <1>4, OneSite

LEMMA P69OK == ScriptOK(P69, 23)
<1>1. \A e \in P69Edit.edits : Writer(e.text) \in {0, 23} BY DEF P69Edit, Site, Edit, Writer
<1> QED BY <1>1, P69EditOK, OneSite DEF P69

LEMMA P73OK == ScriptOK(P73, 25)
<1>1. SiteOK(P73Edit)
      BY PlainOK
      DEF P73, P73Edit, Script, Names, Eater, Stays, NewFiles, ReadOnly, KernelFile
<1>4. \A e \in P73Edit.edits : e.text = "73" BY PlainText DEF P73, P73Edit, Script
<1>2. Writer("73") = 25 BY DEF Writer
<1>3. P73 = Script(73, <<P73Edit>>) BY DEF P73, Script
<1> QED BY <1>1, <1>2, <1>3, <1>4, OneSite

LEMMA P74OK == ScriptOK(P74, 26)
<1>1. \A e \in P74Edit.edits : Writer(e.text) \in {0, 26} BY DEF P74Edit, Site, Edit, Writer
<1> QED BY <1>1, P74EditOK, OneSite DEF P74

LEMMA P75OK == ScriptOK(P75, 27)
<1>1. \A e \in P75Edit.edits : Writer(e.text) \in {0, 27} BY DEF P75Edit, Site, Edit, Writer
<1> QED BY <1>1, P75EditOK, OneSite DEF P75

LEMMA P76OK == ScriptOK(P76, 28)
<1>1. SiteOK(P76Edit)
      BY PlainOK
      DEF P76, P76Edit, Script, Names, Eater, Stays, NewFiles, ReadOnly, KernelFile
<1>4. \A e \in P76Edit.edits : e.text = "76" BY PlainText DEF P76, P76Edit, Script
<1>2. Writer("76") = 28 BY DEF Writer
<1>3. P76 = Script(76, <<P76Edit>>) BY DEF P76, Script
<1> QED BY <1>1, <1>2, <1>3, <1>4, OneSite
\* Scripts with several sites.
EndsOK(x, y) == \/ Excused(y)
                \/ x.gone # Done /\ x.again # Done /\ x.within \in {"", y.within}

FitsOK(x, i) == SiteOK(x) /\ \A e \in x.edits : Writer(e.text) \in {0, i}

PartsOK(s) == /\ s.needs \cap NewFiles = {}
              /\ \A r \in s.refuses : Stays(r[2]) /\ r[2] \notin Names /\ r[1] = "arch_info.py"

LEMMA TwoSites ==
    ASSUME NEW s, NEW i, NEW x, NEW y, s.sites = <<x, y>>, PartsOK(s),
           FitsOK(x, i), FitsOK(y, i), x.file # y.file, EndsOK(x, y)
    PROVE  ScriptOK(s, i)
<1>1. DOMAIN s.sites = 1..2 /\ Len(s.sites) = 2 /\ s.sites[1] = x /\ s.sites[2] = y
      OBVIOUS
<1>2. \A k \in 1..2 : k = 1 \/ k = 2 OBVIOUS
<1>3. \E n \in Nat : DOMAIN s.sites = 1..n /\ Len(s.sites) = n BY <1>1
<1>4. \A k \in DOMAIN s.sites : FitsOK(s.sites[k], i) BY <1>1, <1>2
<1>5. \A j, k \in DOMAIN s.sites : s.sites[j].file = s.sites[k].file => j = k
      BY <1>1, <1>2
<1>6. \A j, k \in DOMAIN s.sites : j < k => EndsOK(s.sites[j], s.sites[k])
      BY <1>1, <1>2
<1> QED BY <1>3, <1>4, <1>5, <1>6 DEF ScriptOK, FitsOK, EndsOK, PartsOK

LEMMA ThreeSites ==
    ASSUME NEW s, NEW i, NEW x, NEW y, NEW z, s.sites = <<x, y, z>>, PartsOK(s),
           FitsOK(x, i), FitsOK(y, i), FitsOK(z, i),
           x.file # y.file, x.file # z.file, y.file # z.file,
           EndsOK(x, y), EndsOK(x, z), EndsOK(y, z)
    PROVE  ScriptOK(s, i)
<1>1. /\ DOMAIN s.sites = 1..3 /\ Len(s.sites) = 3
      /\ s.sites[1] = x /\ s.sites[2] = y /\ s.sites[3] = z
      OBVIOUS
<1>2. \A k \in 1..3 : k = 1 \/ k = 2 \/ k = 3 OBVIOUS
<1>3. \E n \in Nat : DOMAIN s.sites = 1..n /\ Len(s.sites) = n BY <1>1
<1>4. \A k \in DOMAIN s.sites : FitsOK(s.sites[k], i) BY <1>1, <1>2
<1>5. \A j, k \in DOMAIN s.sites : s.sites[j].file = s.sites[k].file => j = k
      BY <1>1, <1>2
<1>6. \A j, k \in DOMAIN s.sites : j < k => EndsOK(s.sites[j], s.sites[k])
      BY <1>1, <1>2
<1> QED BY <1>3, <1>4, <1>5, <1>6 DEF ScriptOK, FitsOK, EndsOK, PartsOK

LEMMA P51OK == ScriptOK(P51, 6)
<1> DEFINE x == Vendored("gfx1x_radix_topk.py")
<1>1. P51.sites = <<x, P51Dispatch>> BY DEF P51, Script
<1>2. PartsOK(P51) BY DEF P51, Script, PartsOK, NewFiles
<1>3. SiteOK(x) BY VendoredOK DEF NewFiles
<1>4. \A e \in x.edits : Writer(e.text) = 0 BY DEF Vendored, Copied, Site, Edit, Writer
<1>5. FitsOK(x, 6) BY <1>3, <1>4 DEF FitsOK
<1>6. \A e \in P51Dispatch.edits : e \in {Edit("51", {"def_indexer_fake"},
          {"top_k_per_row_prefill", "top_k_per_row_decode"}), SharedImport}
      BY DEF P51Dispatch, Site
<1>7. \A e \in P51Dispatch.edits : e.text \in {"51", "import_os"}
      BY <1>6 DEF Edit, SharedImport
<1>8. FitsOK(P51Dispatch, 6) BY <1>7, P51DispatchOK DEF FitsOK, Writer
<1>9. x.file # P51Dispatch.file /\ EndsOK(x, P51Dispatch)
      BY DEF Vendored, Copied, Site, P51Dispatch, EndsOK, Pass, Done, Reaudit
<1> HIDE DEF x
<1> QED BY <1>1, <1>2, <1>5, <1>8, <1>9, TwoSites

LEMMA P52OK == ScriptOK(P52, 7)
<1> DEFINE x == Vendored("gfx1x_tilelang_mqa.py")
<1>1. P52.sites = <<x, P52Dispatch>> BY DEF P52, Script
<1>2. PartsOK(P52) BY DEF P52, Script, PartsOK, NewFiles
<1>3. SiteOK(x) BY VendoredOK DEF NewFiles
<1>4. \A e \in x.edits : Writer(e.text) = 0 BY DEF Vendored, Copied, Site, Edit, Writer
<1>5. FitsOK(x, 7) BY <1>3, <1>4 DEF FitsOK
<1>6. \A e \in P52Dispatch.edits : e \in {Edit("52", {"def_fp8_paged_mqa_logits"},
          {"paged_logits_module", "prefill_logits_module"}), SharedImport}
      BY DEF P52Dispatch, Site
<1>7. \A e \in P52Dispatch.edits : e.text \in {"52", "import_os"}
      BY <1>6 DEF Edit, SharedImport
<1>8. FitsOK(P52Dispatch, 7) BY <1>7, P52DispatchOK DEF FitsOK, Writer
<1>9. x.file # P52Dispatch.file /\ EndsOK(x, P52Dispatch)
      BY DEF Vendored, Copied, Site, P52Dispatch, EndsOK, Pass, Done, Reaudit
<1> HIDE DEF x
<1> QED BY <1>1, <1>2, <1>5, <1>8, <1>9, TwoSites

LEMMA P53OK == ScriptOK(P53, 8)
<1> DEFINE z == Copied("gfx1x_w8a8_bf16.py", "53")
<1>1. P53.sites = <<P53Fp8Utils, P53ScaledMM, z>> BY DEF P53, Script
<1>2. PartsOK(P53) BY DEF P53, Script, PartsOK, NewFiles
<1>3. SiteOK(P53Fp8Utils)
      BY PlainOK DEF P53Fp8Utils, Names, Eater, Stays, NewFiles, ReadOnly, KernelFile
<1>4. SiteOK(P53ScaledMM)
      BY PlainOK DEF P53ScaledMM, Names, Eater, Stays, NewFiles, ReadOnly, KernelFile
<1>5. SiteOK(z) BY CopiedOK DEF NewFiles
<1>6. \A e \in P53Fp8Utils.edits \cup P53ScaledMM.edits \cup z.edits : e.text = "53"
      BY PlainText DEF P53Fp8Utils, P53ScaledMM, Copied, Site, Edit
<1>7. Writer("53") = 8 BY DEF Writer
<1>8. FitsOK(P53Fp8Utils, 8) /\ FitsOK(P53ScaledMM, 8) /\ FitsOK(z, 8)
      BY <1>3, <1>4, <1>5, <1>6, <1>7 DEF FitsOK
<1>9. /\ P53Fp8Utils.file # P53ScaledMM.file /\ P53Fp8Utils.file # z.file
      /\ P53ScaledMM.file # z.file
      BY DEF P53Fp8Utils, P53ScaledMM, Copied, Site
<1>10. /\ EndsOK(P53Fp8Utils, P53ScaledMM) /\ EndsOK(P53Fp8Utils, z)
       /\ EndsOK(P53ScaledMM, z)
       BY DEF P53Fp8Utils, P53ScaledMM, Site, EndsOK, Pass, Done, Reaudit
<1> HIDE DEF z
<1> QED BY <1>1, <1>2, <1>8, <1>9, <1>10, ThreeSites

LEMMA P54OK == ScriptOK(P54, 9)
<1>1. P54.sites = <<P54AiterOps, P54ArchInfo, P54CppItfs, P54VecConvert>> BY DEF P54, Script
<1>2. P54.needs = {} BY DEF P54, Script
<1>3. P54.refuses = {<<"arch_info.py", "is_fp4_avail_gfx1151">>} BY DEF P54, Script
<1>4. Stays("is_fp4_avail_gfx1151") /\ "is_fp4_avail_gfx1151" \notin Names
      BY DEF Stays, Eater, Names
<1>5. SiteOK(P54AiterOps)
      BY PlainOK DEF P54AiterOps, Names, Eater, Stays, NewFiles, ReadOnly, KernelFile
<1>6. \A e \in P54AiterOps.edits \cup P54ArchInfo.edits \cup P54CppItfs.edits
                 \cup P54VecConvert.edits : e.text = "54"
      BY PlainText DEF P54AiterOps, P54ArchInfo, P54CppItfs, P54VecConvert, Site, Edit
<1>7. Writer("54") = 9 BY DEF Writer
<1>8. /\ DOMAIN P54.sites = 1..4 /\ Len(P54.sites) = 4
      /\ P54.sites[1] = P54AiterOps /\ P54.sites[2] = P54ArchInfo
      /\ P54.sites[3] = P54CppItfs /\ P54.sites[4] = P54VecConvert
      BY <1>1
<1>9. \A k \in 1..4 : k = 1 \/ k = 2 \/ k = 3 \/ k = 4 OBVIOUS
<1>10. \E n \in Nat : DOMAIN P54.sites = 1..n /\ Len(P54.sites) = n BY <1>8
<1>11. \A k \in DOMAIN P54.sites : FitsOK(P54.sites[k], 9)
       BY <1>5, <1>6, <1>7, <1>8, <1>9, P54ArchInfoOK, P54CppItfsOK, P54VecConvertOK
          DEF FitsOK
<1>12. /\ P54AiterOps.file = "_aiter_ops.py" /\ P54ArchInfo.file = "arch_info.py"
       /\ P54CppItfs.file = "cpp_itfs/utils.py" /\ P54VecConvert.file = "vec_convert.h"
       BY DEF P54AiterOps, P54ArchInfo, P54CppItfs, P54VecConvert, Site
<1>13. \A j, k \in DOMAIN P54.sites : P54.sites[j].file = P54.sites[k].file => j = k
       BY <1>8, <1>9, <1>12
<1>14. /\ EndsOK(P54AiterOps, P54ArchInfo) /\ EndsOK(P54AiterOps, P54CppItfs)
       /\ EndsOK(P54AiterOps, P54VecConvert) /\ EndsOK(P54ArchInfo, P54CppItfs)
       /\ EndsOK(P54ArchInfo, P54VecConvert) /\ EndsOK(P54CppItfs, P54VecConvert)
       BY DEF P54AiterOps, P54ArchInfo, P54CppItfs, P54VecConvert, Site, EndsOK,
              Pass, Done, Reaudit
<1>15. \A j, k \in DOMAIN P54.sites : j < k => EndsOK(P54.sites[j], P54.sites[k])
       BY <1>8, <1>9, <1>14
<1>16. PartsOK(P54) BY <1>2, <1>3, <1>4 DEF PartsOK
<1> QED BY <1>10, <1>11, <1>13, <1>15, <1>16 DEF ScriptOK, FitsOK, EndsOK, PartsOK

LEMMA P56OK == ScriptOK(P56, 10)
<1> DEFINE y == Site("mem_utils.py", "56", {"virtual_memory().available"}, {})
<1>1. P56.sites = <<P56Rocm, y>> BY DEF P56, Script
<1>2. PartsOK(P56) BY DEF P56, Script, PartsOK, NewFiles
<1>3. SiteOK(P56Rocm)
      BY PlainOK DEF P56Rocm, Names, Eater, Stays, NewFiles, ReadOnly, KernelFile
<1>4. SiteOK(y) BY PlainOK DEF Names, Eater, Stays, NewFiles, ReadOnly, KernelFile
<1>5. \A e \in P56Rocm.edits \cup y.edits : e.text = "56" BY PlainText DEF P56Rocm
<1>6. Writer("56") = 10 BY DEF Writer
<1>7. FitsOK(P56Rocm, 10) /\ FitsOK(y, 10) BY <1>3, <1>4, <1>5, <1>6 DEF FitsOK
<1>8. P56Rocm.file # y.file /\ EndsOK(P56Rocm, y)
      BY DEF P56Rocm, Site, EndsOK, Pass, Done, Reaudit
<1> HIDE DEF y
<1> QED BY <1>1, <1>2, <1>7, <1>8, TwoSites

LEMMA P57OK == ScriptOK(P57, 11)
<1>1. P57.sites = <<P57Ple, P57Model, P57Envs>> BY DEF P57, Script
<1>2. PartsOK(P57) BY DEF P57, Script, PartsOK, NewFiles
<1>3. \A e \in P57Ple.edits \cup P57Model.edits \cup P57Envs.edits : e.text = "57"
      BY PlainText DEF P57Ple, P57Model, P57Envs, Site, Edit
<1>4. Writer("57") = 11 BY DEF Writer
<1>5. FitsOK(P57Ple, 11) /\ FitsOK(P57Model, 11) /\ FitsOK(P57Envs, 11)
      BY <1>3, <1>4, P57PleOK, P57ModelOK, P57EnvsOK DEF FitsOK
<1>6. /\ P57Ple.file = "ple_layer.py" /\ P57Model.file = "amd/model.py"
      /\ P57Envs.file = "envs.py"
      BY DEF P57Ple, P57Model, P57Envs, Site
<1>7. Excused(P57Model) /\ Excused(P57Envs) BY <1>3, <1>6 DEF Excused, PassedOver
<1>8. EndsOK(P57Ple, P57Model) /\ EndsOK(P57Ple, P57Envs) /\ EndsOK(P57Model, P57Envs)
      BY <1>7 DEF EndsOK
<1> QED BY <1>1, <1>2, <1>5, <1>6, <1>8, ThreeSites

LEMMA P72OK == ScriptOK(P72, 24)
<1>1. P72.sites = <<P72Next, P72Indexer>> BY DEF P72, Script
<1>2. PartsOK(P72) BY DEF P72, Script, PartsOK, NewFiles
<1>3. \A e \in P72Next.edits \cup P72Indexer.edits : e.text = "72"
      BY DEF P72Next, P72Indexer, Site, Edit
<1>4. Writer("72") = 24 BY DEF Writer
<1>5. FitsOK(P72Next, 24) /\ FitsOK(P72Indexer, 24)
      BY <1>3, <1>4, P72NextOK, P72IndexerOK DEF FitsOK
<1>6. P72Next.file # P72Indexer.file BY DEF P72Next, P72Indexer, Site
<1>7. Excused(P72Indexer) BY <1>3 DEF Excused, PassedOver, P72Indexer, Site
<1>8. EndsOK(P72Next, P72Indexer) BY <1>7 DEF EndsOK
<1> QED BY <1>1, <1>2, <1>5, <1>6, <1>8, TwoSites

LEMMA ScriptsAre ==
    /\ DOMAIN Scripts = 1..28 /\ Len(Scripts) = 28
    /\ Scripts[1] = P10 /\ Scripts[2] = P20 /\ Scripts[3] = P30 /\ Scripts[4] = P40
    /\ Scripts[5] = P50 /\ Scripts[6] = P51 /\ Scripts[7] = P52 /\ Scripts[8] = P53
    /\ Scripts[9] = P54 /\ Scripts[10] = P56 /\ Scripts[11] = P57 /\ Scripts[12] = P58
    /\ Scripts[13] = P59 /\ Scripts[14] = P60 /\ Scripts[15] = P61 /\ Scripts[16] = P62
    /\ Scripts[17] = P63 /\ Scripts[18] = P64 /\ Scripts[19] = P65 /\ Scripts[20] = P66
    /\ Scripts[21] = P67 /\ Scripts[22] = P68 /\ Scripts[23] = P69 /\ Scripts[24] = P72
    /\ Scripts[25] = P73 /\ Scripts[26] = P74 /\ Scripts[27] = P75 /\ Scripts[28] = P76
BY DEF Scripts

\* All the scripts are of this kind.
LEMMA AllOK == \A i \in 1..28 : ScriptOK(Scripts[i], i)
<1>1. ASSUME NEW i \in 1..14 PROVE ScriptOK(Scripts[i], i)
      BY ScriptsAre, P10OK, P20OK, P30OK, P40OK, P50OK, P51OK, P52OK, P53OK, P54OK, P56OK,
         P57OK, P58OK, P59OK, P60OK
<1>2. ASSUME NEW i \in 15..28 PROVE ScriptOK(Scripts[i], i)
      BY ScriptsAre, P61OK, P62OK, P63OK, P64OK, P65OK, P66OK, P67OK, P68OK, P69OK, P72OK,
         P73OK, P74OK, P75OK, P76OK
<1> QED BY <1>1, <1>2
-----------------------------------------------------------------------------
(***************************************************************************)
(* What a script, and what --check, does with a tree.                      *)
(***************************************************************************)
\* The first of a set of places.
LEMMA Least ==
    ASSUME NEW S, S \subseteq Nat, S # {}
    PROVE  Min(S) \in S /\ \A y \in S : Min(S) <= y
<1>1. \E R : IsWellFoundedOn(R, Nat) /\ \A x, y \in Nat : y < x => <<y, x>> \in R
  <2>1. \A x, y \in Nat : y < x => <<y, x>> \in OpToRel(<, Nat) BY DEF OpToRel
  <2> QED BY <2>1, NatLessThanWellFounded
<1>2. PICK R : IsWellFoundedOn(R, Nat) /\ \A x, y \in Nat : y < x => <<y, x>> \in R
      BY <1>1
<1>3. \E x \in S : \A y \in S : <<y, x>> \notin R BY <1>2, WFMin
<1>4. PICK x \in S : \A y \in S : <<y, x>> \notin R BY <1>3
<1>5. \A a, b \in Nat : b < a => <<b, a>> \in R BY <1>2
<1>6. \A y \in S : ~(y < x) BY <1>4, <1>5, Zenon
<1>7. \A y \in S : x <= y BY <1>6, SMT
<1> QED BY <1>7 DEF Min

\* A set of numbers that has 0 and, with a number, the next one.
LEMMA Upwards ==
    ASSUME NEW N \in Nat, NEW S, 0 \in S, \A n \in Nat : n \in S /\ n < N => n + 1 \in S
    PROVE  0..N \subseteq S
<1> SUFFICES ASSUME (0..N) \ S # {} PROVE FALSE
    OBVIOUS
<1> DEFINE T == (0..N) \ S
<1>1. T \subseteq Nat /\ T # {} OBVIOUS
<1>2. PICK m \in T : \A y \in T : m <= y BY <1>1, Least
<1>3. m # 0 /\ m \in 0..N /\ m \notin S BY <1>2
<1>4. m - 1 \in 0..N /\ m - 1 \in Nat /\ m - 1 < N /\ (m - 1) + 1 = m BY <1>3
<1>5. m - 1 \in S BY <1>2, <1>4
<1> QED BY <1>3, <1>4, <1>5

Passed(s, t, u, k) == \A j \in DOMAIN s.sites : j < k => Answer(s.sites[j], t, u) = Pass
CheckPassed(s, t, u, k) ==
    \A j \in DOMAIN s.sites : j < k => CheckAnswer(s.sites[j], t, u) = Pass

LEMMA Places ==
    ASSUME NEW s, NEW i, ScriptOK(s, i)
    PROVE  /\ Len(s.sites) \in Nat /\ DOMAIN s.sites = 1..Len(s.sites)
           /\ Len(s.sites) + 1 \notin DOMAIN s.sites /\ 0 \notin DOMAIN s.sites
<1>1. PICK n \in Nat : DOMAIN s.sites = 1..n /\ Len(s.sites) = n BY DEF ScriptOK
<1> QED BY <1>1

\* Where a script stops, and what it answers.
LEMMA Stops ==
    ASSUME NEW s, NEW i, NEW t, NEW u, ScriptOK(s, i), ~Lacking(s, t)
    PROVE  LET stop == Stop(s, t, u) IN
           /\ Passed(s, t, u, stop)
           /\ \/ /\ stop \in DOMAIN s.sites /\ Answer(s.sites[stop], t, u) # Pass
                 /\ Code(s, t, u) = Answer(s.sites[stop], t, u)
              \/ /\ stop = Len(s.sites) + 1
                 /\ Code(s, t, u) = IF \E r \in s.refuses : r[2] \in Text(t, r[1])
                                    THEN Failed ELSE Done
<1> DEFINE ends == {k \in DOMAIN s.sites : Answer(s.sites[k], t, u) # Pass}
           stop == Stop(s, t, u)
<1>1. Len(s.sites) \in Nat /\ DOMAIN s.sites = 1..Len(s.sites) BY Places
<1>2. stop = IF ends = {} THEN Len(s.sites) + 1 ELSE Min(ends) BY DEF Stop
<1>3. CASE ends = {}
  <2>1. stop = Len(s.sites) + 1 BY <1>2, <1>3
  <2>2. stop # 0 /\ stop \notin DOMAIN s.sites BY <2>1, Places
  <2>3. Passed(s, t, u, stop) BY <1>3 DEF Passed
  <2> QED BY <2>1, <2>2, <2>3 DEF Code
<1>4. CASE ends # {}
  <2>1. ends \subseteq Nat BY <1>1
  <2>2. stop \in ends /\ \A y \in ends : stop <= y BY <1>2, <1>4, <2>1, Least
  <2>3. stop \in DOMAIN s.sites /\ Answer(s.sites[stop], t, u) # Pass BY <2>2
  <2>4. stop # 0 BY <2>3, Places
  <2>5. \A j \in DOMAIN s.sites : j < stop => j \notin ends BY <1>1, <2>2, <2>3
  <2>6. Passed(s, t, u, stop) BY <2>5 DEF Passed
  <2>7. Code(s, t, u) = Answer(s.sites[stop], t, u) BY <2>3, <2>4 DEF Code
  <2> QED BY <2>3, <2>6, <2>7
<1> QED BY <1>3, <1>4

\* The same of --check.
LEMMA CheckStops ==
    ASSUME NEW s, NEW i, NEW t, NEW u, ScriptOK(s, i), ~Lacking(s, t)
    PROVE  \/ /\ \A k \in DOMAIN s.sites : CheckAnswer(s.sites[k], t, u) = Pass
              /\ CheckCode(s, t, u) = Done
           \/ \E k \in DOMAIN s.sites :
                 /\ CheckPassed(s, t, u, k) /\ CheckAnswer(s.sites[k], t, u) # Pass
                 /\ CheckCode(s, t, u) = CheckAnswer(s.sites[k], t, u)
<1> DEFINE ends == {k \in DOMAIN s.sites : CheckAnswer(s.sites[k], t, u) # Pass}
<1>1. Len(s.sites) \in Nat /\ DOMAIN s.sites = 1..Len(s.sites) BY Places
<1>2. CheckCode(s, t, u) = IF ends = {} THEN Done
                           ELSE CheckAnswer(s.sites[Min(ends)], t, u)
      BY DEF CheckCode
<1>3. CASE ends = {} BY <1>2, <1>3
<1>4. CASE ends # {}
  <2>1. ends \subseteq Nat BY <1>1
  <2>2. PICK m \in ends : Min(ends) = m /\ \A y \in ends : m <= y BY <1>4, <2>1, Least
  <2>3. \A j \in DOMAIN s.sites : j < m => j \notin ends BY <1>1, <2>2
  <2>4. CheckPassed(s, t, u, m) BY <2>3 DEF CheckPassed
  <2> QED BY <1>2, <1>4, <2>2, <2>4
<1> QED BY <1>3, <1>4

\* A site that --check asks about, and that is not skipped for want of an anchor.
Plainly(x) == x.check = "marked" /\ x.moved # Pass

LEMMA SameAnswers ==
    ASSUME NEW x, NEW t, NEW u, SiteOK(x), Plainly(x)
    PROVE  /\ CheckAnswer(x, t, u) = Pass <=> Answer(x, t, u) = Pass /\ ~Writes(x, t, u)
           /\ CheckAnswer(x, t, u) = Done <=> Answer(x, t, u) = Done
           /\ ~x.creates /\ x.again = Done => CheckAnswer(x, t, u) # Pass
<1>1. x.check = "marked" /\ x.moved \in {Failed, Reaudit} /\ x.gone # Pass
      BY DEF Plainly, SiteOK, AnswersOK
<1>2. x.again \in {Pass, Done} /\ (x.creates => x.again = Pass)
      BY DEF SiteOK, AnswersOK
<1>3. Pass # Done /\ Failed # Done /\ Failed # Pass /\ Reaudit # Done /\ Reaudit # Pass
      BY DEF Pass, Done, Failed, Reaudit
<1>4. ~Here(x, t) => ~InPlace(x, t) BY DEF InPlace
<1>5. CASE ~Inside(x, u) BY <1>3, <1>5 DEF Answer, CheckAnswer, Writes
<1>6. CASE Inside(x, u) /\ x.creates
      BY <1>1, <1>2, <1>3, <1>4, <1>6 DEF Answer, CheckAnswer, Writes
<1>7. CASE Inside(x, u) /\ ~x.creates /\ ~Here(x, t)
      BY <1>1, <1>3, <1>4, <1>7 DEF Answer, CheckAnswer, Writes
<1>8. CASE Inside(x, u) /\ ~x.creates /\ Here(x, t) /\ InPlace(x, t)
      BY <1>1, <1>2, <1>3, <1>8 DEF Answer, CheckAnswer, Writes
<1>9. CASE Inside(x, u) /\ ~x.creates /\ Here(x, t) /\ ~InPlace(x, t)
      BY <1>1, <1>3, <1>9 DEF Answer, CheckAnswer, Writes
<1> QED BY <1>5, <1>6, <1>7, <1>8, <1>9

Checkable(s) == 
    /\ s.refuses = {}
    /\ \A k \in DOMAIN s.sites :
          \/ Plainly(s.sites[k])
          \/ \E j \in DOMAIN s.sites : /\ j < k /\ Plainly(s.sites[j])
                                       /\ ~s.sites[j].creates /\ s.sites[j].again = Done

\* The scripts that CheckAgrees speaks of.
LEMMA PlainChecks == \A name, text, keeps, eats : Plainly(Site(name, text, keeps, eats))
BY DEF Plainly, Site, Pass, Reaudit

LEMMA OneChecks ==
    ASSUME NEW n, NEW x, Plainly(x)
    PROVE  Checkable(Script(n, <<x>>)) /\ Script(n, <<x>>).n = n
BY DEF Script, Checkable

LEMMA P10Checks == Checkable(P10) /\ P10.n = 10
BY PlainChecks, OneChecks DEF P10

LEMMA P20Checks == Checkable(P20) /\ P20.n = 20
BY PlainChecks, OneChecks DEF P20

LEMMA P30Checks == Checkable(P30) /\ P30.n = 30
BY PlainChecks, OneChecks DEF P30

LEMMA P40Checks == Checkable(P40) /\ P40.n = 40
<1>1. Plainly(P40Envs) BY DEF P40Envs, Site, Plainly, Pass, Failed, Reaudit
<1> QED BY <1>1, OneChecks DEF P40

LEMMA P50Checks == Checkable(P50) /\ P50.n = 50
<1>1. Plainly(P50Edit) BY DEF P50Edit, Site, Plainly, Pass, Failed, Reaudit
<1> QED BY <1>1, OneChecks DEF P50

LEMMA P58Checks == Checkable(P58) /\ P58.n = 58
<1>1. Plainly(P58Edit) BY DEF P58Edit, Site, Plainly, Pass, Failed, Reaudit
<1> QED BY <1>1, OneChecks DEF P58

LEMMA P59Checks == Checkable(P59) /\ P59.n = 59
BY PlainChecks, OneChecks DEF P59

LEMMA P60Checks == Checkable(P60) /\ P60.n = 60
<1>1. Plainly(P60Utils) BY DEF P60Utils, Site, Plainly, Pass, Failed, Reaudit
<1> QED BY <1>1, OneChecks DEF P60

LEMMA P61Checks == Checkable(P61) /\ P61.n = 61
<1>1. Plainly(P61Edit) BY DEF P61Edit, Site, Plainly, Pass, Failed, Reaudit
<1> QED BY <1>1, OneChecks DEF P61

LEMMA P62Checks == Checkable(P62) /\ P62.n = 62
<1>1. Plainly(P62Edit) BY DEF P62Edit, Site, Plainly, Pass, Failed, Reaudit
<1> QED BY <1>1, OneChecks DEF P62

LEMMA P63Checks == Checkable(P63) /\ P63.n = 63
<1>1. Plainly(P63Edit) BY DEF P63Edit, Site, Plainly, Pass, Failed, Reaudit
<1> QED BY <1>1, OneChecks DEF P63

LEMMA P64Checks == Checkable(P64) /\ P64.n = 64
<1>1. Plainly(P64Rocm) BY DEF P64Rocm, Site, Plainly, Pass, Failed, Reaudit
<1> QED BY <1>1, OneChecks DEF P64

LEMMA P65Checks == Checkable(P65) /\ P65.n = 65
<1>1. Plainly(P65Edit) BY DEF P65Edit, Site, Plainly, Pass, Failed, Reaudit
<1> QED BY <1>1, OneChecks DEF P65

LEMMA P66Checks == Checkable(P66) /\ P66.n = 66
<1>1. Plainly(P66Edit) BY DEF P66Edit, Site, Plainly, Pass, Failed, Reaudit
<1> QED BY <1>1, OneChecks DEF P66

LEMMA P67Checks == Checkable(P67) /\ P67.n = 67
BY PlainChecks, OneChecks DEF P67

LEMMA P68Checks == Checkable(P68) /\ P68.n = 68
BY PlainChecks, OneChecks DEF P68

LEMMA P69Checks == Checkable(P69) /\ P69.n = 69
<1>1. Plainly(P69Edit) BY DEF P69Edit, Site, Plainly, Pass, Failed, Reaudit
<1> QED BY <1>1, OneChecks DEF P69

LEMMA P73Checks == Checkable(P73) /\ P73.n = 73
BY PlainChecks, OneChecks DEF P73, P73Edit

LEMMA P74Checks == Checkable(P74) /\ P74.n = 74
<1>1. Plainly(P74Edit) BY DEF P74Edit, Site, Plainly, Pass, Failed, Reaudit
<1> QED BY <1>1, OneChecks DEF P74

LEMMA P75Checks == Checkable(P75) /\ P75.n = 75
<1>1. Plainly(P75Edit) BY DEF P75Edit, Site, Plainly, Pass, Failed, Reaudit
<1> QED BY <1>1, OneChecks DEF P75

LEMMA P76Checks == Checkable(P76) /\ P76.n = 76
BY PlainChecks, OneChecks DEF P76, P76Edit

LEMMA P51Checks == Checkable(P51) /\ P51.n = 51
<1>1. Plainly(Vendored("gfx1x_radix_topk.py")) /\ Plainly(P51Dispatch)
      BY DEF Vendored, Copied, P51Dispatch, Site, Plainly, Pass, Reaudit
<1> QED BY <1>1 DEF P51, Script, Checkable

LEMMA P52Checks == Checkable(P52) /\ P52.n = 52
<1>1. Plainly(Vendored("gfx1x_tilelang_mqa.py")) /\ Plainly(P52Dispatch)
      BY DEF Vendored, Copied, P52Dispatch, Site, Plainly, Pass, Reaudit
<1> QED BY <1>1 DEF P52, Script, Checkable

LEMMA P53Checks == Checkable(P53) /\ P53.n = 53
<1>1. /\ Plainly(P53Fp8Utils) /\ Plainly(P53ScaledMM)
      /\ Plainly(Copied("gfx1x_w8a8_bf16.py", "53"))
      BY DEF P53Fp8Utils, P53ScaledMM, Copied, Site, Plainly, Pass, Reaudit
<1> QED BY <1>1 DEF P53, Script, Checkable

LEMMA P56Checks == Checkable(P56) /\ P56.n = 56
<1>1. Plainly(P56Rocm) /\ Plainly(Site("mem_utils.py", "56", {"virtual_memory().available"}, {}))
      BY PlainChecks DEF P56Rocm
<1> QED BY <1>1 DEF P56, Script, Checkable

\* The marker in the first file of 57 ends it.
LEMMA P57Checks == Checkable(P57) /\ P57.n = 57
<1>1. Plainly(P57Ple) /\ ~P57Ple.creates /\ P57Ple.again = Done
      BY DEF P57Ple, Site, Plainly, Pass, Reaudit
<1>2. P57.sites = <<P57Ple, P57Model, P57Envs>> /\ P57.refuses = {} /\ P57.n = 57
      BY DEF P57, Script
<1>3. DOMAIN P57.sites = 1..3 /\ P57.sites[1] = P57Ple BY <1>2
<1>4. \A k \in 1..3 : k = 1 \/ 1 < k OBVIOUS
<1> QED BY <1>1, <1>2, <1>3, <1>4 DEF Checkable

LEMMA Numbers == P54.n = 54 /\ P72.n = 72
BY DEF P54, P72, Script

LEMMA CheckableScripts ==
    ASSUME NEW i \in 1..28, Scripts[i].n \notin {54, 72} PROVE Checkable(Scripts[i])
<1>1. CASE i \in 1..14
      BY <1>1, ScriptsAre, Numbers, P10Checks, P20Checks, P30Checks, P40Checks, P50Checks,
         P51Checks, P52Checks, P53Checks, P56Checks, P57Checks, P58Checks, P59Checks, P60Checks
<1>2. CASE i \in 15..28
      BY <1>2, ScriptsAre, Numbers, P61Checks, P62Checks, P63Checks, P64Checks, P65Checks,
         P66Checks, P67Checks, P68Checks, P69Checks, P73Checks, P74Checks, P75Checks, P76Checks
<1> QED BY <1>1, <1>2

\* No site of which --check knows nothing is reached by either.
LEMMA PlainlyUpTo ==
    ASSUME NEW s, NEW i, NEW t, NEW u, ScriptOK(s, i), Checkable(s), NEW k \in DOMAIN s.sites,
           CheckPassed(s, t, u, k)
    PROVE  Plainly(s.sites[k])
<1>1. SUFFICES ASSUME NEW j \in DOMAIN s.sites, j < k, Plainly(s.sites[j]),
                      ~s.sites[j].creates, s.sites[j].again = Done
               PROVE  FALSE
      BY DEF Checkable
<1>2. CheckAnswer(s.sites[j], t, u) = Pass BY <1>1 DEF CheckPassed
<1>3. SiteOK(s.sites[j]) BY <1>1 DEF ScriptOK
<1> QED BY <1>1, <1>2, <1>3, SameAnswers

\* --check says of any tree what the script does with it.
LEMMA CheckTells ==
    ASSUME NEW s, NEW i, NEW t, NEW u, ScriptOK(s, i), Checkable(s)
    PROVE  CheckCode(s, t, u) = Done <=> Code(s, t, u) = Done /\ Work(s, t, u) = {}
<1> DEFINE stop == Stop(s, t, u)
<1>1. Reaudit # Done BY DEF Reaudit, Done
<1>2. CASE Lacking(s, t)
  <2>1. CheckCode(s, t, u) = Reaudit BY <1>2 DEF CheckCode
  <2>2. Stop(s, t, u) = 0 BY <1>2 DEF Stop
  <2>4. 0 \notin DOMAIN s.sites BY Places
  <2>3. Code(s, t, u) = Reaudit BY <2>2, <2>4 DEF Code
  <2> QED BY <1>1, <2>1, <2>3
<1>3. CASE ~Lacking(s, t)
  <2>1. DOMAIN s.sites = 1..Len(s.sites) /\ Len(s.sites) \in Nat BY Places
  <2>2. \A k \in DOMAIN s.sites : SiteOK(s.sites[k]) BY DEF ScriptOK
  <2>3. s.refuses = {} BY DEF Checkable
  <2>4. /\ Passed(s, t, u, stop)
        /\ \/ /\ stop \in DOMAIN s.sites /\ Answer(s.sites[stop], t, u) # Pass
              /\ Code(s, t, u) = Answer(s.sites[stop], t, u)
           \/ stop = Len(s.sites) + 1 /\ Code(s, t, u) = Done
        BY <1>3, <2>3, Stops
  <2>5. \A k \in 1..stop - 1 : k \in DOMAIN s.sites /\ k < stop BY <2>1, <2>4
  <2>6. ASSUME CheckCode(s, t, u) = Done
        PROVE  Code(s, t, u) = Done /\ Work(s, t, u) = {}
    <3>1. CASE \A k \in DOMAIN s.sites : CheckAnswer(s.sites[k], t, u) = Pass
      <4>1. ASSUME NEW k \in DOMAIN s.sites
            PROVE  Answer(s.sites[k], t, u) = Pass /\ ~Writes(s.sites[k], t, u)
        <5>1. CheckPassed(s, t, u, k) BY <3>1 DEF CheckPassed
        <5> QED BY <2>2, <3>1, <5>1, PlainlyUpTo, SameAnswers
      <4>2. stop = Len(s.sites) + 1 BY <2>4, <4>1
      <4> QED BY <2>4, <2>5, <4>1, <4>2 DEF Work
    <3>2. ASSUME NEW m \in DOMAIN s.sites, CheckPassed(s, t, u, m),
                 CheckAnswer(s.sites[m], t, u) = Done
          PROVE  Code(s, t, u) = Done /\ Work(s, t, u) = {}
      <4>1. ASSUME NEW k \in DOMAIN s.sites, k < m
            PROVE  Answer(s.sites[k], t, u) = Pass /\ ~Writes(s.sites[k], t, u)
        <5>1. CheckPassed(s, t, u, k) BY <2>1, <3>2, <4>1 DEF CheckPassed
        <5>2. CheckAnswer(s.sites[k], t, u) = Pass BY <3>2, <4>1 DEF CheckPassed
        <5> QED BY <2>2, <5>1, <5>2, PlainlyUpTo, SameAnswers
      <4>2. Plainly(s.sites[m]) BY <3>2, PlainlyUpTo
      <4>3. Answer(s.sites[m], t, u) = Done BY <2>2, <3>2, <4>2, SameAnswers
      <4>4. Done # Pass BY DEF Done, Pass
      <4>5. stop = m
        <5>1. ~(m < stop) BY <2>4, <3>2, <4>3, <4>4 DEF Passed
        <5>2. stop \in DOMAIN s.sites BY <2>1, <2>4, <5>1
        <5>3. ~(stop < m) BY <2>4, <4>1, <5>2, <2>1
        <5> QED BY <2>1, <5>1, <5>2, <5>3
      <4> QED BY <2>4, <2>5, <4>1, <4>3, <4>5, <2>1 DEF Work
    <3> QED BY <1>3, <2>6, <3>1, <3>2, CheckStops
  <2>7. ASSUME Code(s, t, u) = Done, Work(s, t, u) = {}
        PROVE  CheckCode(s, t, u) = Done
    <3>1. \A k \in DOMAIN s.sites : k < stop => k \in 1..stop - 1 BY <2>1, <2>4
    <3>2. ASSUME NEW k \in DOMAIN s.sites, k < stop
          PROVE  Answer(s.sites[k], t, u) = Pass /\ ~Writes(s.sites[k], t, u)
          BY <2>4, <2>7, <3>1, <3>2 DEF Passed, Work
    <3>3. SUFFICES ASSUME NEW m \in DOMAIN s.sites, CheckPassed(s, t, u, m),
                          CheckAnswer(s.sites[m], t, u) # Pass,
                          CheckCode(s, t, u) = CheckAnswer(s.sites[m], t, u)
                   PROVE  CheckCode(s, t, u) = Done
          BY <1>3, CheckStops
    <3>4. Plainly(s.sites[m]) BY <3>3, PlainlyUpTo
    <3>5. ~(m < stop) BY <2>2, <3>2, <3>3, <3>4, SameAnswers
    <3>6. stop \in DOMAIN s.sites /\ Answer(s.sites[stop], t, u) = Done
          BY <2>1, <2>4, <2>7, <3>5
    <3>7. CheckPassed(s, t, u, stop) BY <2>1, <3>3, <3>5, <3>6 DEF CheckPassed
    <3>8. Plainly(s.sites[stop]) BY <3>6, <3>7, PlainlyUpTo
    <3>9. CheckAnswer(s.sites[stop], t, u) = Done BY <2>2, <3>6, <3>8, SameAnswers
    <3>10. Done # Pass BY DEF Done, Pass
    <3>11. ~(stop < m) BY <3>3, <3>6, <3>9, <3>10 DEF CheckPassed
    <3>12. stop = m BY <2>1, <3>5, <3>6, <3>11
    <3> QED BY <3>3, <3>9, <3>12
  <2> QED BY <2>6, <2>7
<1> QED BY <1>2, <1>3

\* --check is to be trusted: it accepts a patch exactly where applying it would
\* succeed and write nothing, for any upstream tree and anything that runs and
\* kills have made of it.
THEOREM CheckAgreesHolds == LayerSpec => []CheckAgrees
<1>1. CheckAgrees
  <2>1. ASSUME NEW i \in DOMAIN Scripts, Scripts[i].n \notin {54, 72}
        PROVE  LET s == Scripts[i]
               IN  CheckCode(s, tree, up) = Done
                     <=> Code(s, tree, up) = Done /\ Work(s, tree, up) = {}
    <3>1. i \in 1..28 BY ScriptsAre
    <3> QED BY <2>1, <3>1, AllOK, CheckableScripts, CheckTells
  <2> QED BY <2>1 DEF CheckAgrees
<1> QED BY <1>1, PTL
-----------------------------------------------------------------------------
(***************************************************************************)
(* What writing adds to a tree, and what it keeps.                         *)
(***************************************************************************)
LEMMA NamesEnough == \A a : Eater(a) \in Names \cup {"none"}
BY DEF Eater, Names

LEMMA SitesAre ==
    \A x : x \in Sites <=> \E i \in 1..28 : \E k \in DOMAIN Scripts[i].sites :
                               x = Scripts[i].sites[k]
BY ScriptsAre DEF Sites, ToSet

LEMMA SitesOK == \A x \in Sites : SiteOK(x)
<1> SUFFICES ASSUME NEW x \in Sites PROVE SiteOK(x)
    OBVIOUS
<1>1. PICK i \in 1..28 : \E k \in DOMAIN Scripts[i].sites : x = Scripts[i].sites[k]
      BY SitesAre
<1>2. ScriptOK(Scripts[i], i) BY AllOK
<1> QED BY <1>1, <1>2 DEF ScriptOK

LEMMA EditedAre ==
    \A f, y : /\ <<f, y>> \in Edited <=> \E x \in Sites : x.file = f /\ Has(x, y)
              /\ <<f, y>> \in Edited => y \in Names
<1>1. ASSUME NEW f, NEW y
      PROVE <<f, y>> \in Edited <=> \E x \in Sites : x.file = f /\ Has(x, y)
  <2>1. ASSUME NEW x \in Sites, NEW e \in x.edits, <<f, y>> = <<x.file, e.text>>
        PROVE  x.file = f /\ Has(x, y)
        BY <2>1 DEF Has
  <2>2. ASSUME NEW x \in Sites, x.file = f, Has(x, y)
        PROVE  <<f, y>> \in Edited
    <3>1. PICK e \in x.edits : e.text = y BY <2>2 DEF Has
    <3>2. <<f, y>> = <<x.file, e.text>> BY <2>2, <3>1
    <3> QED BY <3>2 DEF Edited
  <2> QED BY <2>1, <2>2 DEF Edited
<1>2. ASSUME NEW x \in Sites, NEW y, Has(x, y) PROVE y \in Names
      BY <1>2, SitesOK DEF Has, SiteOK, EditsOK, EditOK
<1> QED BY <1>1, <1>2

\* What writing a site does to its file.
LEMMA WrittenIs ==
    ASSUME NEW x, NEW t, SiteOK(x)
    PROVE  /\ \A y \in Text(t, x.file) : Stays(y) => y \in Written(x, t)
           /\ \A y \in Written(x, t) : y \in Text(t, x.file) \/ Has(x, y)
           /\ \A e \in x.edits : e.text \in Written(x, t)
           /\ \A y \in Text(t, x.file) : y \in Written(x, t)
                  \/ (~Stays(y) /\ Eater(y) \in Written(x, t))
<1> DEFINE new == {e \in x.edits : Missing(e, x, t)}
           gone == IF Known(x, t) THEN {} ELSE UNION {e.eats : e \in new}
<1>1. Written(x, t) = (Text(t, x.file) \ gone) \cup {e.text : e \in new} BY DEF Written
<1>2. \A y \in gone : \E e \in new : y \in e.eats OBVIOUS
<1>3. \A e \in x.edits : e.text \in Names /\ \A a \in e.eats : Eater(a) = e.text
      BY DEF SiteOK, EditsOK, EditOK
<1>4. \A e \in x.edits : e \notin new => e.text \in Text(t, x.file) BY DEF Missing
<1> HIDE DEF gone
<1>5. \A y \in gone : ~Stays(y) /\ Eater(y) \in {e.text : e \in new}
      BY <1>2, <1>3, NamesStay DEF Stays
<1>6. \A y \in {e.text : e \in new} : Has(x, y) BY DEF Has
<1>7. \A e \in x.edits : e.text \notin gone BY <1>3, <1>5, NamesStay
<1> HIDE DEF new
<1>8. \A e \in x.edits : e \in new => e.text \in {d.text : d \in new} OBVIOUS
<1> QED BY <1>1, <1>4, <1>5, <1>6, <1>7, <1>8

\* The file of a place, and what it holds after some of the places have been written.
LEMMA AfterIs ==
    ASSUME NEW s, NEW i, ScriptOK(s, i), NEW t, NEW some, some \subseteq DOMAIN s.sites, NEW f
    PROVE  LET new == After(s, some, t) IN
           /\ f \in DOMAIN new <=> f \in DOMAIN t \/ f \in FilesOf(s, some)
           /\ f \notin FilesOf(s, some) => Text(new, f) = Text(t, f)
           /\ \A k \in some : s.sites[k].file = f => Text(new, f) = Written(s.sites[k], t)
<1> DEFINE new == After(s, some, t)
           w(g) == Written(s.sites[CHOOSE j \in some : s.sites[j].file = g], t)
<1>1. new = [g \in DOMAIN t \cup FilesOf(s, some) |->
                IF g \in FilesOf(s, some) THEN w(g) ELSE t[g]]
      BY DEF After
<1>2. DOMAIN new = DOMAIN t \cup FilesOf(s, some) BY <1>1
<1>3. f \notin FilesOf(s, some) => Text(new, f) = Text(t, f) BY <1>1, <1>2 DEF Text
<1>4. ASSUME NEW k \in some, s.sites[k].file = f PROVE Text(new, f) = Written(s.sites[k], t)
  <2>1. f \in FilesOf(s, some) BY <1>4 DEF FilesOf
  <2>2. Text(new, f) = w(f) BY <1>1, <2>1 DEF Text
  <2>3. \A j \in some : s.sites[j].file = f => j = k BY <1>4 DEF ScriptOK
  <2>4. (CHOOSE j \in some : s.sites[j].file = f) = k BY <1>4, <2>3
  <2> QED BY <2>2, <2>4
<1> QED BY <1>2, <1>3, <1>4

\* Texts and files that writing may add, and those it may not take away.
Grew(t, new) ==
    /\ DOMAIN t \subseteq DOMAIN new /\ DOMAIN new \ DOMAIN t \subseteq NewFiles
    /\ \A f : \A y \in Text(t, f) : Stays(y) => y \in Text(new, f)
    /\ \A f : \A y \in Text(t, f) :
          y \in Text(new, f) \/ (~Stays(y) /\ Eater(y) \in Text(new, f))
    /\ \A f : \A y \in Text(new, f) : y \in Text(t, f) \/ <<f, y>> \in Edited

\* The import that 51 and 52 share comes with either.
Whole(t) == "51" \in Text(t, KernelFile) \/ "52" \in Text(t, KernelFile)
                => "import_os" \in Text(t, KernelFile)

LEMMA WorkIs ==
    ASSUME NEW s, NEW i, ScriptOK(s, i), NEW t, NEW u, NEW k \in Work(s, t, u)
    PROVE  /\ k \in DOMAIN s.sites /\ k < Stop(s, t, u) /\ Writes(s.sites[k], t, u)
           /\ ~Lacking(s, t)
<1>1. k \in 1..Stop(s, t, u) - 1 /\ Writes(s.sites[k], t, u) BY DEF Work
<1>2. CASE Lacking(s, t)
  <2>1. Stop(s, t, u) = 0 BY <1>2 DEF Stop
  <2> QED BY <1>1, <2>1
<1>3. CASE ~Lacking(s, t)
  <2>1. Stop(s, t, u) \in DOMAIN s.sites \/ Stop(s, t, u) = Len(s.sites) + 1
        BY <1>3, Stops
  <2>2. DOMAIN s.sites = 1..Len(s.sites) /\ Len(s.sites) \in Nat BY Places
  <2> QED BY <1>1, <1>3, <2>1, <2>2
<1> QED BY <1>2, <1>3

LEMMA AfterGrows ==
    ASSUME NEW i \in 1..28, NEW t, NEW u, NEW some, some \subseteq Work(Scripts[i], t, u)
    PROVE  LET new == After(Scripts[i], some, t) IN Grew(t, new) /\ (Whole(t) => Whole(new))
<1> DEFINE s == Scripts[i]
           new == After(s, some, t)
<1>1. ScriptOK(s, i) BY AllOK
<1> HIDE DEF s
<1>2. \A k \in some : k \in DOMAIN s.sites /\ Writes(s.sites[k], t, u)
      BY <1>1, WorkIs DEF s
<1>3. some \subseteq DOMAIN s.sites BY <1>2
<1>4. \A k \in some : SiteOK(s.sites[k]) /\ s.sites[k] \in Sites
      BY <1>1, <1>3, SitesAre DEF ScriptOK, s
<1>5. \A k \in some : s.sites[k].file \in DOMAIN t \/ s.sites[k].file \in NewFiles
      BY <1>2, <1>4 DEF Writes, Here, SiteOK, FileOK
<1>6. ASSUME NEW f
      PROVE  /\ f \in DOMAIN new <=> f \in DOMAIN t \/ f \in FilesOf(s, some)
             /\ \/ Text(new, f) = Text(t, f)
                \/ \E k \in some : /\ s.sites[k].file = f
                                   /\ Text(new, f) = Written(s.sites[k], t)
  <2>1. f \in FilesOf(s, some) => \E k \in some : s.sites[k].file = f BY DEF FilesOf
  <2> QED BY <1>1, <1>3, <2>1, AfterIs
<1>7. \A f \in FilesOf(s, some) : f \in DOMAIN t \/ f \in NewFiles BY <1>5 DEF FilesOf
<1> HIDE DEF new
<1>8. ASSUME NEW f
      PROVE  /\ \A y \in Text(t, f) : Stays(y) => y \in Text(new, f)
             /\ \A y \in Text(t, f) :
                   y \in Text(new, f) \/ (~Stays(y) /\ Eater(y) \in Text(new, f))
             /\ \A y \in Text(new, f) : y \in Text(t, f) \/ <<f, y>> \in Edited
  <2>1. CASE Text(new, f) = Text(t, f) BY <2>1
  <2>2. ASSUME NEW k \in some, s.sites[k].file = f, Text(new, f) = Written(s.sites[k], t)
        PROVE  /\ \A y \in Text(t, f) : Stays(y) => y \in Text(new, f)
               /\ \A y \in Text(t, f) :
                     y \in Text(new, f) \/ (~Stays(y) /\ Eater(y) \in Text(new, f))
               /\ \A y \in Text(new, f) : y \in Text(t, f) \/ <<f, y>> \in Edited
    <3>1. \A y : Has(s.sites[k], y) => <<f, y>> \in Edited BY <1>4, <2>2, EditedAre
    <3> QED BY <1>4, <2>2, <3>1, WrittenIs
  <2> QED BY <1>6, <2>1, <2>2
<1>9. Grew(t, new) BY <1>6, <1>7, <1>8 DEF Grew
<1>10. ASSUME Whole(t) PROVE Whole(new)
  <2>1. CASE Text(new, KernelFile) = Text(t, KernelFile) BY <1>10, <2>1 DEF Whole
  <2>2. ASSUME NEW k \in some, s.sites[k].file = KernelFile,
               Text(new, KernelFile) = Written(s.sites[k], t)
        PROVE  Whole(new)
    <3>1. CASE Has(s.sites[k], "51") \/ Has(s.sites[k], "52")
      <4>1. Has(s.sites[k], "import_os") BY <1>4, <2>2, <3>1 DEF SiteOK, FileOK
      <4> QED BY <1>4, <2>2, <4>1, WrittenIs DEF Whole, Has
    <3>2. CASE ~Has(s.sites[k], "51") /\ ~Has(s.sites[k], "52")
      <4>1. Stays("import_os") BY NamesStay DEF Names
      <4> QED BY <1>4, <1>10, <2>2, <3>2, <4>1, WrittenIs DEF Whole
    <3> QED BY <3>1, <3>2
  <2> QED BY <1>6, <2>1, <2>2
<1> QED BY <1>9, <1>10 DEF new, s

LEMMA GrewTransitive ==
    ASSUME NEW a, NEW b, NEW c, Grew(a, b), Grew(b, c) PROVE Grew(a, c)
<1>1. \A y : ~Stays(y) => Stays(Eater(y)) BY NamesEnough, NamesStay DEF Stays
<1>2. DOMAIN a \subseteq DOMAIN c /\ DOMAIN c \ DOMAIN a \subseteq NewFiles BY DEF Grew
<1>3. ASSUME NEW f PROVE \A y \in Text(a, f) : Stays(y) => y \in Text(c, f) BY DEF Grew
<1>4. ASSUME NEW f, NEW y \in Text(a, f)
      PROVE  y \in Text(c, f) \/ (~Stays(y) /\ Eater(y) \in Text(c, f))
  <2>1. CASE y \in Text(b, f) BY <2>1 DEF Grew
  <2>2. CASE ~Stays(y) /\ Eater(y) \in Text(b, f) BY <1>1, <2>2 DEF Grew
  <2> QED BY <2>1, <2>2 DEF Grew
<1>5. ASSUME NEW f, NEW y \in Text(c, f) PROVE y \in Text(a, f) \/ <<f, y>> \in Edited
      BY DEF Grew
<1> QED BY <1>2, <1>3, <1>4, <1>5 DEF Grew

LEMMA GrewNot == \A t : Grew(t, t)
BY DEF Grew

\* The tree that upstream gives.
LEMMA UpstreamIs ==
    ASSUME NEW u \in Trees
    PROVE  /\ DOMAIN Upstream(u) = Files(u) /\ Files(u) \cap NewFiles = {}
           /\ \A f, y : y \in Text(Upstream(u), f) => <<f, y>> \notin Edited
           /\ Whole(Upstream(u))
<1>1. DOMAIN Upstream(u) = Files(u) BY DEF Upstream
<1>2. Files(u) \cap NewFiles = {}
  <2>1. \A x \in Sites : ~x.creates => x.file \notin NewFiles BY SitesOK DEF SiteOK, FileOK
  <2>2. {"fa_utils.py", "flash_attn.py"} \cap NewFiles = {} BY DEF NewFiles
  <2> QED BY <2>1, <2>2 DEF Files
<1>3. ASSUME NEW f, NEW y \in Text(Upstream(u), f) PROVE <<f, y>> \notin Edited
  <2>1. f \in Files(u) /\ y \in Upstream(u)[f] BY <1>1 DEF Text
  <2>2. PICK a \in (UNION {AnchorsOf(x) : x \in Sites}) \cup u.extra : a[1] = f /\ a[2] = y
        BY <2>1 DEF Upstream
  <2>3. CASE a \in u.extra BY <2>2, <2>3, TreesAssumption
  <2>4. ASSUME NEW x \in Sites, a \in AnchorsOf(x) PROVE y \notin Names
    <3>1. SiteOK(x) BY SitesOK
    <3>2. \A g \in x.guards : g[2] \notin Names BY <3>1 DEF SiteOK, TestsOK
    <3>3. \A e \in x.edits : \A b \in e.keeps \cup e.eats : b \notin Names
          BY <3>1, NamesStay DEF SiteOK, EditsOK, EditOK, Stays
    <3>4. CASE a \in x.guards BY <2>2, <3>2, <3>4
    <3>5. CASE a \in {<<x.file, b>> : b \in UNION {e.keeps \cup e.eats : e \in x.edits}}
      <4>1. PICK e \in x.edits : \E b \in e.keeps \cup e.eats : a = <<x.file, b>> BY <3>5
      <4> QED BY <2>2, <3>3, <4>1
    <3> QED BY <2>4, <3>4, <3>5 DEF AnchorsOf
  <2>5. <<f, y>> \in Edited => y \in Names BY EditedAre
  <2>6. CASE a \in UNION {AnchorsOf(x) : x \in Sites}
    <3>1. PICK x \in Sites : a \in AnchorsOf(x) BY <2>6
    <3> QED BY <2>4, <2>5, <3>1
  <2> QED BY <2>2, <2>3, <2>6
<1>4. Whole(Upstream(u))
  <2>1. P51Dispatch \in Sites /\ P52Dispatch \in Sites
    <3>1. P51.sites[2] = P51Dispatch /\ P52.sites[2] = P52Dispatch BY DEF P51, P52, Script
    <3>2. DOMAIN P51.sites = 1..2 /\ DOMAIN P52.sites = 1..2 BY DEF P51, P52, Script
    <3> QED BY <3>1, <3>2, SitesAre, ScriptsAre
  <2>2. P51Dispatch.file = KernelFile /\ P52Dispatch.file = KernelFile
        BY DEF P51Dispatch, P52Dispatch, Site, KernelFile
  <2>3. Has(P51Dispatch, "51") /\ Has(P52Dispatch, "52")
    <3>1. P51Dispatch.edits = {Edit("51", {"def_indexer_fake"},
              {"top_k_per_row_prefill", "top_k_per_row_decode"}), SharedImport}
          BY DEF P51Dispatch, Site
    <3>2. P52Dispatch.edits = {Edit("52", {"def_fp8_paged_mqa_logits"},
              {"paged_logits_module", "prefill_logits_module"}), SharedImport}
          BY DEF P52Dispatch, Site
    <3>3. \A text, keeps, eats : Edit(text, keeps, eats).text = text BY DEF Edit
    <3> QED BY <3>1, <3>2, <3>3 DEF Has
  <2> QED BY <1>3, <2>1, <2>2, <2>3, EditedAre DEF Whole
<1> QED BY <1>1, <1>2, <1>3, <1>4
-----------------------------------------------------------------------------
(***************************************************************************)
(* The run that nothing interrupts.                                        *)
(***************************************************************************)
NextTree(u, n, t) == Applied(Scripts[n], t, u)

LEMMA IdealExists ==
    ASSUME NEW u
    PROVE  \E t : t = [i \in 0..Len(Scripts) |->
                         IF i = 0 THEN Upstream(u) ELSE Applied(Scripts[i], t[i - 1], u)]
<1> DEFINE Chain(t, n) == t = [i \in 0..n |-> IF i = 0 THEN Upstream(u)
                                              ELSE NextTree(u, i, t[i - 1])]
           S == {n \in 0..28 : \E t : Chain(t, n)}
<1>1. 0 \in S
  <2> DEFINE t == [i \in 0..0 |-> Upstream(u)]
  <2>1. Chain(t, 0) OBVIOUS
  <2> HIDE DEF t
  <2>2. \E w : Chain(w, 0) BY <2>1
  <2> QED BY <2>2
<1>2. ASSUME NEW n \in Nat, n \in S, n < 28 PROVE n + 1 \in S
  <2>1. PICK t : Chain(t, n) BY <1>2
  <2> DEFINE v == [i \in 0..n + 1 |-> IF i = n + 1 THEN NextTree(u, n + 1, t[n]) ELSE t[i]]
  <2>2. ASSUME NEW i \in 0..n + 1
        PROVE  v[i] = IF i = 0 THEN Upstream(u) ELSE NextTree(u, i, v[i - 1])
    <3>1. CASE i = 0 BY <2>1, <3>1
    <3>2. CASE i \in 1..n
      <4>1. i - 1 \in 0..n /\ i \in 0..n /\ i # n + 1 /\ i - 1 # n + 1 BY <3>2
      <4>2. v[i] = t[i] /\ v[i - 1] = t[i - 1] BY <4>1
      <4>3. t[i] = NextTree(u, i, t[i - 1]) BY <2>1, <3>2, <4>1
      <4> QED BY <3>2, <4>2, <4>3
    <3>3. CASE i = n + 1
      <4>1. v[n + 1] = NextTree(u, n + 1, t[n]) /\ v[n] = t[n] BY <1>2
      <4> QED BY <1>2, <3>3, <4>1
    <3> QED BY <3>1, <3>2, <3>3
  <2>3. Chain(v, n + 1) BY <2>2
  <2> HIDE DEF v
  <2>4. \E w : Chain(w, n + 1) BY <2>3
  <2>5. n + 1 \in 0..28 BY <1>2
  <2> QED BY <2>4, <2>5
<1>3. 28 \in S
  <2> HIDE DEF S
  <2>1. 0..28 \subseteq S BY <1>1, <1>2, Upwards
  <2> QED BY <2>1
<1>4. PICK t : Chain(t, 28) BY <1>3
<1> QED BY <1>4, ScriptsAre DEF NextTree

LEMMA IdealIs ==
    ASSUME NEW u
    PROVE  /\ IdealTree(u)[0] = Upstream(u)
           /\ \A n \in 1..28 : IdealTree(u)[n] = Applied(Scripts[n], IdealTree(u)[n - 1], u)
<1> DEFINE Chain(t) == t = [i \in 0..Len(Scripts) |->
                IF i = 0 THEN Upstream(u) ELSE Applied(Scripts[i], t[i - 1], u)]
<1>1. IdealTree(u) = CHOOSE t : Chain(t) BY DEF IdealTree
<1>2. Chain(IdealTree(u)) BY <1>1, IdealExists
<1> QED BY <1>2, ScriptsAre
-----------------------------------------------------------------------------
(***************************************************************************)
(* What a script that ends with Done leaves behind.                        *)
(***************************************************************************)
\* There is nothing left to do: the package or the file is not there, or the
\* edits are in place.
Settled(x, t, u) == (Inside(x, u) /\ (x.creates \/ Here(x, t))) => InPlace(x, t)

LEMMA InPlaceStays ==
    ASSUME NEW x \in Sites, NEW t, NEW new, Grew(t, new), InPlace(x, t)
    PROVE  InPlace(x, new)
<1>1. SiteOK(x) BY SitesOK
<1>2. x.file \in DOMAIN t /\ x.file \in DOMAIN new BY DEF InPlace, Here, Grew
<1>3. Text(t, x.file) = t[x.file] /\ Text(new, x.file) = new[x.file] BY <1>2 DEF Text
<1>4. \A y \in t[x.file] : Stays(y) => y \in new[x.file] BY <1>3 DEF Grew
<1>5. CASE x.seen \cap t[x.file] # {}
  <2>1. PICK y \in x.seen : y \in t[x.file] BY <1>5
  <2>2. Stays(y) BY <1>1, <2>1 DEF SiteOK, TestsOK
  <2> QED BY <1>2, <1>4, <2>1, <2>2 DEF InPlace, Here
<1>6. CASE \A e \in x.edits : ~Missing(e, x, t)
  <2>1. \A e \in x.edits : Stays(e.text) BY <1>1, NamesStay DEF SiteOK, EditsOK, EditOK
  <2>2. \A e \in x.edits : ~Missing(e, x, new) BY <1>3, <1>4, <1>6, <2>1 DEF Missing
  <2> QED BY <1>2, <2>2 DEF InPlace, Here
<1> QED BY <1>5, <1>6 DEF InPlace

LEMMA SettledStays ==
    ASSUME NEW x \in Sites, NEW t, NEW new, NEW u, Grew(t, new), Settled(x, t, u)
    PROVE  Settled(x, new, u)
<1>1. ~x.creates => x.file \notin NewFiles BY SitesOK DEF SiteOK, FileOK
<1>2. ~x.creates /\ Here(x, new) => Here(x, t) BY <1>1 DEF Here, Grew
<1> QED BY <1>2, InPlaceStays DEF Settled

LEMMA WritingSettles ==
    ASSUME NEW x \in Sites, NEW t, NEW new, x.file \in DOMAIN new,
           Text(new, x.file) = Written(x, t)
    PROVE  InPlace(x, new)
<1>1. \A e \in x.edits : ~Missing(e, x, new) BY SitesOK, WrittenIs DEF Missing
<1> QED BY <1>1 DEF InPlace, Here

\* A site after which another is not Excused ends its script with Done only
\* where its package is absent, and then the other's is absent, too.
LEMMA PassedWell ==
    ASSUME NEW x \in Sites, NEW t, NEW u, Answer(x, t, u) = Pass
    PROVE  Excused(x) \/ Writes(x, t, u) \/ Settled(x, t, u)
<1>1. SiteOK(x) BY SitesOK
<1>2. Pass # Done BY DEF Pass, Done
<1>3. x.moved = Pass => Excused(x) BY <1>1 DEF SiteOK, AnswersOK
<1> QED BY <1>2, <1>3 DEF Answer, Writes, Settled

LEMMA DoneWell ==
    ASSUME NEW x \in Sites, NEW t, NEW u, Answer(x, t, u) = Done
    PROVE  Settled(x, t, u) /\ (Inside(x, u) => x.gone = Done \/ x.again = Done)
<1>1. SiteOK(x) BY SitesOK
<1>2. Pass # Done /\ Failed # Done /\ Reaudit # Done BY DEF Pass, Done, Failed, Reaudit
<1>3. x.moved # Done BY <1>1, <1>2 DEF SiteOK, AnswersOK
<1> QED BY <1>2, <1>3 DEF Answer, Settled

LEMMA BehindIt ==
    ASSUME NEW s, NEW i, ScriptOK(s, i), NEW u, NEW j \in DOMAIN s.sites,
           NEW k \in DOMAIN s.sites, j < k, NEW t,
           Inside(s.sites[j], u) => s.sites[j].gone = Done \/ s.sites[j].again = Done
    PROVE  Excused(s.sites[k]) \/ Settled(s.sites[k], t, u)
<1>1. \/ Excused(s.sites[k])
      \/ /\ s.sites[j].gone # Done /\ s.sites[j].again # Done
         /\ s.sites[j].within \in {"", s.sites[k].within}
      BY DEF ScriptOK
<1> QED BY <1>1 DEF Settled, Inside

LEMMA ScriptSettles ==
    ASSUME NEW i \in 1..28, NEW t, NEW u, Code(Scripts[i], t, u) = Done,
           NEW k \in DOMAIN Scripts[i].sites
    PROVE  LET x == Scripts[i].sites[k]
           IN Excused(x) \/ Settled(x, Applied(Scripts[i], t, u), u)
<1> DEFINE s == Scripts[i]
           x == s.sites[k]
           new == Applied(s, t, u)
           stop == Stop(s, t, u)
<1>1. ScriptOK(s, i) BY AllOK
<1>2. Pass # Done /\ Failed # Done /\ Reaudit # Done BY DEF Pass, Done, Failed, Reaudit
<1>3. Grew(t, new) BY AfterGrows DEF Applied
<1>4. \A j \in DOMAIN s.sites : s.sites[j] \in Sites BY SitesAre
<1> HIDE DEF s
<1>5. Len(s.sites) \in Nat /\ DOMAIN s.sites = 1..Len(s.sites) /\ 0 \notin DOMAIN s.sites
      BY <1>1, Places
<1>6. ~Lacking(s, t)
  <2>1. Lacking(s, t) => stop = 0 BY DEF Stop
  <2>2. stop = 0 => Code(s, t, u) = Reaudit BY <1>5 DEF Code
  <2> QED BY <1>2, <2>1, <2>2 DEF s
<1>7. /\ Passed(s, t, u, stop)
      /\ \/ /\ stop \in DOMAIN s.sites /\ Answer(s.sites[stop], t, u) # Pass
            /\ Code(s, t, u) = Answer(s.sites[stop], t, u)
         \/ stop = Len(s.sites) + 1
      BY <1>1, <1>6, Stops
<1>8. k \in DOMAIN s.sites /\ x \in Sites BY <1>4 DEF s
<1>9. CASE k < stop
  <2>1. Answer(x, t, u) = Pass BY <1>7, <1>8, <1>9 DEF Passed
  <2>2. CASE Writes(x, t, u)
    <3>1. k \in Work(s, t, u) BY <1>5, <1>7, <1>8, <1>9, <2>2 DEF Work
    <3>2. Work(s, t, u) \subseteq DOMAIN s.sites BY <1>1, WorkIs
    <3>3. x.file \in FilesOf(s, Work(s, t, u)) BY <3>1 DEF FilesOf
    <3>4. /\ x.file \in DOMAIN After(s, Work(s, t, u), t)
          /\ Text(After(s, Work(s, t, u), t), x.file) = Written(x, t)
          BY <1>1, <3>1, <3>2, <3>3, AfterIs
    <3>5. InPlace(x, new) BY <1>8, <3>4, WritingSettles DEF Applied
    <3> QED BY <3>5 DEF Settled, s
  <2>3. CASE Settled(x, t, u) BY <1>3, <1>8, <2>3, SettledStays DEF s
  <2> QED BY <1>8, <2>1, <2>2, <2>3, PassedWell DEF s
<1>10. CASE k = stop
  <2>1. Answer(x, t, u) = Done BY <1>5, <1>7, <1>8, <1>10 DEF s
  <2>2. Settled(x, t, u) BY <1>8, <2>1, DoneWell
  <2> QED BY <1>3, <1>8, <2>2, SettledStays DEF s
<1>11. CASE stop < k
  <2>1. stop \in DOMAIN s.sites /\ Answer(s.sites[stop], t, u) = Done
        BY <1>5, <1>7, <1>8, <1>11 DEF s
  <2>2. s.sites[stop] \in Sites BY <1>4, <2>1 DEF s
  <2>3. Inside(s.sites[stop], u) => s.sites[stop].gone = Done \/ s.sites[stop].again = Done
        BY <2>1, <2>2, DoneWell
  <2>4. Excused(s.sites[k]) \/ Settled(s.sites[k], new, u)
        BY <1>1, <1>8, <1>11, <2>1, <2>3, BehindIt
  <2> QED BY <2>4 DEF s
<1>12. k < stop \/ k = stop \/ stop < k BY <1>5, <1>7, <1>8
<1> QED BY <1>9, <1>10, <1>11, <1>12

\* The same of --check, of all that it asks about.
LEMMA CheckSettles ==
    ASSUME NEW i \in 1..28, NEW t, NEW u, CheckCode(Scripts[i], t, u) = Done,
           NEW k \in DOMAIN Scripts[i].sites
    PROVE  LET x == Scripts[i].sites[k]
           IN Excused(x) \/ x = P54CppItfs \/ Settled(x, t, u)
<1> DEFINE s == Scripts[i]
<1>1. ScriptOK(s, i) BY AllOK
<1>2. Pass # Done /\ Failed # Done /\ Reaudit # Done /\ Failed # Pass /\ Reaudit # Pass
      BY DEF Pass, Done, Failed, Reaudit
<1>3. \A j \in DOMAIN s.sites : s.sites[j] \in Sites BY SitesAre
<1> HIDE DEF s
<1>4. Len(s.sites) \in Nat /\ DOMAIN s.sites = 1..Len(s.sites) BY <1>1, Places
<1>5. ~Lacking(s, t) BY <1>2 DEF CheckCode, s
<1>6. ASSUME NEW j \in DOMAIN s.sites, CheckAnswer(s.sites[j], t, u) = Pass
      PROVE  Excused(s.sites[j]) \/ s.sites[j] = P54CppItfs \/ Settled(s.sites[j], t, u)
  <2> DEFINE y == s.sites[j]
  <2>1. SiteOK(y) BY <1>1 DEF ScriptOK
  <2>2. /\ y.check \in {"marked", "present", ""}
        /\ y.check = "" => Excused(y) \/ y = P54CppItfs
        /\ y.check = "marked" => y.gone # Pass
        /\ y.creates => y.check = "marked"
        BY <2>1 DEF SiteOK, AnswersOK, FileOK
  <2> HIDE DEF y
  <2>3. Excused(y) \/ y = P54CppItfs \/ Settled(y, t, u)
        BY <1>2, <1>6, <2>2 DEF CheckAnswer, Settled, y
  <2> QED BY <2>3 DEF y
<1>7. ASSUME NEW j \in DOMAIN s.sites, CheckAnswer(s.sites[j], t, u) = Done
      PROVE  /\ Settled(s.sites[j], t, u)
             /\ Inside(s.sites[j], u) => s.sites[j].gone = Done \/ s.sites[j].again = Done
  <2> DEFINE y == s.sites[j]
  <2>1. SiteOK(y) BY <1>1 DEF ScriptOK
  <2>2. y.creates => y.check = "marked" BY <2>1 DEF SiteOK, FileOK
  <2> HIDE DEF y
  <2>3. Settled(y, t, u) /\ (Inside(y, u) => y.gone = Done \/ y.again = Done)
        BY <1>2, <1>7, <2>2 DEF CheckAnswer, Settled, y
  <2> QED BY <2>3 DEF y
<1>8. CASE \A j \in DOMAIN s.sites : CheckAnswer(s.sites[j], t, u) = Pass
      BY <1>6, <1>8 DEF s
<1>9. ASSUME NEW m \in DOMAIN s.sites, CheckPassed(s, t, u, m), CheckAnswer(s.sites[m], t, u) = Done
      PROVE  Excused(s.sites[k]) \/ s.sites[k] = P54CppItfs \/ Settled(s.sites[k], t, u)
  <2>1. k \in DOMAIN s.sites BY DEF s
  <2>2. CASE k < m BY <1>6, <1>9, <2>1, <2>2 DEF CheckPassed
  <2>3. CASE k = m BY <1>7, <1>9, <2>3
  <2>4. CASE m < k BY <1>1, <1>7, <1>9, <2>1, <2>4, BehindIt
  <2> QED BY <1>4, <2>1, <2>2, <2>3, <2>4
<1> QED BY <1>1, <1>5, <1>8, <1>9, CheckStops DEF s
-----------------------------------------------------------------------------
(***************************************************************************)
(* What every tree is like that runs and kills make of an upstream tree.   *)
(***************************************************************************)
Sound(t, u) ==
    /\ DOMAIN t \ NewFiles = Files(u)
    /\ \A f : \A y \in Text(t, f) : <<f, y>> \in Edited \/ y \in Text(Upstream(u), f)
    /\ Whole(t)

Cut(t, empty) == [f \in DOMAIN t \cup empty |-> IF f \in empty THEN {} ELSE t[f]]

LEMMA CutIs ==
    \A t, empty, f :
        /\ f \in DOMAIN Cut(t, empty) <=> f \in DOMAIN t \/ f \in empty
        /\ Text(Cut(t, empty), f) = IF f \in empty THEN {} ELSE Text(t, f)
<1> SUFFICES ASSUME NEW t, NEW empty, NEW f
             PROVE  /\ f \in DOMAIN Cut(t, empty) <=> f \in DOMAIN t \/ f \in empty
                    /\ Text(Cut(t, empty), f) = IF f \in empty THEN {} ELSE Text(t, f)
    OBVIOUS
<1>1. DOMAIN Cut(t, empty) = DOMAIN t \cup empty BY DEF Cut
<1>2. CASE f \in empty
  <2>1. Cut(t, empty)[f] = {} BY <1>2 DEF Cut
  <2> QED BY <1>1, <1>2, <2>1 DEF Text
<1>3. CASE f \notin empty
  <2>1. f \in DOMAIN t => Cut(t, empty)[f] = t[f] BY <1>3 DEF Cut
  <2> QED BY <1>1, <1>3, <2>1 DEF Text
<1> QED BY <1>2, <1>3

LEMMA UpstreamSound == \A u \in Trees : Sound(Upstream(u), u)
BY UpstreamIs DEF Sound

LEMMA WorkFiles ==
    ASSUME NEW i \in 1..28, NEW t, NEW u, Sound(t, u), NEW some \in SUBSET Work(Scripts[i], t, u)
    PROVE  FilesOf(Scripts[i], some) \subseteq Files(u) \cup NewFiles
<1> DEFINE s == Scripts[i]
<1>1. ScriptOK(s, i) BY AllOK
<1>2. \A k \in DOMAIN s.sites : s.sites[k] \in Sites BY SitesAre
<1> HIDE DEF s
<1>3. ASSUME NEW k \in some PROVE s.sites[k].file \in Files(u) \cup NewFiles
  <2>1. k \in DOMAIN s.sites /\ Writes(s.sites[k], t, u) BY <1>1, WorkIs DEF s
  <2>2. s.sites[k].creates => s.sites[k].file \in NewFiles
        BY <1>2, <2>1, SitesOK DEF SiteOK, FileOK
  <2> QED BY <2>1, <2>2 DEF Writes, Here, Sound
<1> QED BY <1>3 DEF FilesOf, s

LEMMA StepSound ==
    ASSUME NEW i \in 1..28, NEW t, NEW u, Sound(t, u), NEW some \in SUBSET Work(Scripts[i], t, u)
    PROVE  Sound(After(Scripts[i], some, t), u)
<1> DEFINE new == After(Scripts[i], some, t)
<1>1. Grew(t, new) /\ (Whole(t) => Whole(new)) BY AfterGrows
<1> HIDE DEF new
<1>2. DOMAIN new \ NewFiles = Files(u)
  <2>1. DOMAIN new \ NewFiles = DOMAIN t \ NewFiles BY <1>1 DEF Grew
  <2> QED BY <2>1 DEF Sound
<1>3. ASSUME NEW f, NEW y \in Text(new, f)
      PROVE  <<f, y>> \in Edited \/ y \in Text(Upstream(u), f)
      BY <1>1 DEF Grew, Sound
<1>4. Sound(new, u) BY <1>1, <1>2, <1>3 DEF Sound
<1> QED BY <1>4 DEF new

LEMMA CutSound ==
    ASSUME NEW t, NEW u, Sound(t, u), NEW empty, empty \subseteq Files(u) \cup NewFiles
    PROVE  Sound(Cut(t, empty), u)
<1>1. DOMAIN Cut(t, empty) \ NewFiles = Files(u) BY DEF Cut, Sound
<1>2. Whole(Cut(t, empty)) BY CutIs DEF Sound, Whole
<1>3. ASSUME NEW f, NEW y \in Text(Cut(t, empty), f)
      PROVE  <<f, y>> \in Edited \/ y \in Text(Upstream(u), f)
  <2>1. y \in Text(t, f) BY <1>3, CutIs
  <2> QED BY <2>1 DEF Sound
<1> QED BY <1>1, <1>2, <1>3 DEF Sound

\* A text comes into a file by the script that writes it.
LEMMA NewText ==
    ASSUME NEW i \in 1..28, NEW t, NEW u, NEW some \in SUBSET Work(Scripts[i], t, u),
           NEW f, NEW y \in Text(After(Scripts[i], some, t), f), y \notin Text(t, f)
    PROVE  Writer(y) \in {0, i}
<1> DEFINE s == Scripts[i]
           new == After(s, some, t)
<1>1. ScriptOK(s, i) BY AllOK
<1> HIDE DEF s
<1>2. some \subseteq DOMAIN s.sites BY <1>1, WorkIs DEF s
<1>3. f \in FilesOf(s, some) => \E k \in some : s.sites[k].file = f BY DEF FilesOf
<1>4. PICK k \in some : s.sites[k].file = f /\ Text(new, f) = Written(s.sites[k], t)
      BY <1>1, <1>2, <1>3, AfterIs DEF s
<1>5. k \in DOMAIN s.sites /\ SiteOK(s.sites[k]) BY <1>1, <1>2 DEF ScriptOK
<1>6. Has(s.sites[k], y) BY <1>4, <1>5, WrittenIs DEF s
<1> QED BY <1>1, <1>5, <1>6 DEF Has, ScriptOK, s

LEMMA CppIs ==
    /\ P54CppItfs \in Sites /\ Scripts[9].sites[3] = P54CppItfs /\ 3 \in DOMAIN Scripts[9].sites
    /\ P54CppItfs.file = "cpp_itfs/utils.py" /\ ~Excused(P54CppItfs) /\ ~P54CppItfs.creates
<1>1. P54.sites[3] = P54CppItfs /\ 3 \in DOMAIN P54.sites BY DEF P54, Script
<1>2. Scripts[9] = P54 BY ScriptsAre
<1>3. P54CppItfs \in Sites BY <1>1, <1>2, SitesAre
<1>4. P54CppItfs.file = "cpp_itfs/utils.py" /\ ~P54CppItfs.creates
      BY DEF P54CppItfs, Site
<1>5. ~Excused(P54CppItfs) BY DEF P54CppItfs, Site, Edit, Excused, PassedOver
<1> QED BY <1>1, <1>2, <1>3, <1>4, <1>5

\* No other site edits the file of this one, so no kill can undo it.
LEMMA CppKept ==
    ASSUME NEW i \in 1..28, NEW t, NEW u, NEW some \in SUBSET Work(Scripts[i], t, u),
           NEW cut \in SUBSET Work(Scripts[i], t, u), Settled(P54CppItfs, t, u)
    PROVE  Settled(P54CppItfs, Cut(After(Scripts[i], some, t), FilesOf(Scripts[i], cut)), u)
<1> DEFINE s == Scripts[i]
           new == After(s, some, t)
           end == Cut(new, FilesOf(s, cut))
           f == "cpp_itfs/utils.py"
<1>1. ScriptOK(s, i) BY AllOK
<1>2. Grew(t, new) BY AfterGrows
<1>3. \A k \in DOMAIN s.sites : s.sites[k] \in Sites BY SitesAre
<1> HIDE DEF s
<1>4. f \notin FilesOf(s, cut)
  <2> SUFFICES ASSUME NEW k \in cut, s.sites[k].file = f PROVE FALSE
      BY DEF FilesOf
  <2>1. k \in DOMAIN s.sites /\ Writes(s.sites[k], t, u) BY <1>1, WorkIs DEF s
  <2>2. s.sites[k] = P54CppItfs BY <1>3, <2>1, SitesOK DEF SiteOK, FileOK
  <2> QED BY <2>1, <2>2 DEF Writes, Settled
<1>5. Settled(P54CppItfs, new, u) BY <1>2, CppIs, SettledStays
<1> HIDE DEF new
<1>6. (f \in DOMAIN end <=> f \in DOMAIN new) /\ Text(end, f) = Text(new, f) BY <1>4, CutIs
<1> HIDE DEF end
<1>7. f \in DOMAIN new => end[f] = new[f] BY <1>6 DEF Text
<1>8. Here(P54CppItfs, end) => Here(P54CppItfs, new) BY <1>6, CppIs DEF Here
<1>9. InPlace(P54CppItfs, new) => InPlace(P54CppItfs, end)
      BY <1>6, <1>7, CppIs DEF InPlace, Here, Missing
<1>10. Settled(P54CppItfs, end, u) BY <1>5, <1>8, <1>9, CppIs DEF Settled
<1> QED BY <1>10 DEF end, new, s
-----------------------------------------------------------------------------
(***************************************************************************)
(* The invariant.                                                          *)
(***************************************************************************)
LayerType == /\ up \in Trees /\ at \in 1..29 /\ mode \in {"apply", "check"}
             /\ run \in {"idle", "apply", "check", "verify"}
             /\ run \in {"apply", "check"} => run = mode

\* Everything behind a run that goes on, or that ended well, is settled; but a
\* check has not asked about the architectures of cpp_itfs/utils.py.
Behind(n) ==
    \A j \in 1..28 : j < n =>
        \A k \in DOMAIN Scripts[j].sites :
            LET x == Scripts[j].sites[k]
            IN Excused(x) \/ (x = P54CppItfs /\ mode = "check") \/ Settled(x, tree, up)

Progress ==
    ~up.builder /\ (run # "idle" \/ last = "ok") =>
        /\ Behind(at)
        /\ at >= 11 => "56" \in Text(tree, "rocm.py")
        /\ run \in {"verify", "idle"} => at = 29

\* These have been seen to before patch 56 has left its marker in rocm.py.
CppFirst == ~up.builder /\ "56" \in Text(tree, "rocm.py") => Settled(P54CppItfs, tree, up)

\* In the builder patch 72 fails, and 73 has not run when the markers are looked for.
Stuck == up.builder => /\ mode = "apply" /\ at <= 24 /\ last # "ok"
                       /\ "73" \notin Text(tree, "qsa_cache.py")

LayerInv == LayerType /\ Sound(tree, up) /\ Progress /\ CppFirst /\ Stuck

LEMMA RocmIs ==
    /\ Scripts[10] = P56 /\ 1 \in DOMAIN P56.sites /\ P56.sites[1] = P56Rocm
    /\ ~Excused(P56Rocm) /\ P56Rocm # P54CppItfs /\ "rocm.py" \in P56.needs
    /\ ~P56.fixed
    /\ \A t, u : Settled(P56Rocm, t, u) /\ "rocm.py" \in DOMAIN t => "56" \in Text(t, "rocm.py")
<1>1. P56.sites[1] = P56Rocm /\ 1 \in DOMAIN P56.sites BY DEF P56, Script
<1>2. "rocm.py" \in P56.needs /\ ~P56.fixed BY DEF P56, Script
<1>3. P56Rocm.edits = {Edit("56", {"def_is_navi"}, {"total_memory_via_amdsmi"})}
      BY DEF P56Rocm, Site
<1>4. P56Rocm.seen = {"56"} /\ P56Rocm.file = "rocm.py" /\ P56Rocm.within = ""
      BY DEF P56Rocm, Site
<1>5. \A text, keeps, eats : Edit(text, keeps, eats).text = text BY DEF Edit
<1>6. ~Excused(P56Rocm) BY <1>3, <1>4, <1>5 DEF Excused, PassedOver
<1>7. P56Rocm # P54CppItfs BY <1>4, CppIs
<1>8. ASSUME NEW t, NEW u, Settled(P56Rocm, t, u), "rocm.py" \in DOMAIN t
      PROVE  "56" \in Text(t, "rocm.py")
  <2>1. InPlace(P56Rocm, t) BY <1>4, <1>8 DEF Settled, Inside, Here
  <2>2. Text(t, "rocm.py") = t["rocm.py"] BY <1>8 DEF Text
  <2>3. CASE P56Rocm.seen \cap t[P56Rocm.file] # {} BY <1>4, <2>2, <2>3
  <2>4. CASE \A e \in P56Rocm.edits : ~Missing(e, P56Rocm, t)
    <3>1. PICK e \in P56Rocm.edits : e.text = "56" BY <1>3, <1>5
    <3> QED BY <1>4, <2>4, <3>1 DEF Missing
  <2> QED BY <2>1, <2>3, <2>4 DEF InPlace
<1> QED BY <1>1, <1>2, <1>6, <1>7, <1>8, ScriptsAre

LEMMA LayerInitInv == LayerInit => LayerInv
<1> SUFFICES ASSUME LayerInit PROVE LayerInv
    OBVIOUS
<1>1. up \in Trees /\ tree = Upstream(up) /\ at = 1 /\ run = "idle" /\ last = "" /\ mode = "apply"
      BY DEF LayerInit
<1>9. at = 1 BY <1>1
<1>2. LayerType
  <2>1. at \in 1..29 BY <1>9
  <2>2. run \in {"idle", "apply", "check", "verify"} BY <1>1
  <2>3. run \in {"apply", "check"} => run = mode BY <1>1
  <2> QED BY <1>1, <2>1, <2>2, <2>3 DEF LayerType
<1>3. Sound(tree, up) BY <1>1, UpstreamSound
<1>4. Progress BY <1>1 DEF Progress
<1>5. <<"rocm.py", "56">> \in Edited
  <2>1. P56Rocm \in Sites BY RocmIs, SitesAre
  <2>2. P56Rocm.file = "rocm.py" /\ Has(P56Rocm, "56")
        BY DEF P56Rocm, Site, Edit, Has
  <2> QED BY <2>1, <2>2, EditedAre
<1>6. CppFirst BY <1>1, <1>5, UpstreamIs DEF CppFirst
<1>7. <<"qsa_cache.py", "73">> \in Edited
  <2>1. P73.sites[1] = P73Edit /\ 1 \in DOMAIN P73.sites BY DEF P73, Script
  <2>2. P73Edit \in Sites BY <2>1, ScriptsAre, SitesAre
  <2>3. P73Edit.file = "qsa_cache.py" /\ Has(P73Edit, "73")
        BY DEF P73Edit, Site, Edit, Has
  <2> QED BY <2>2, <2>3, EditedAre
<1>8. Stuck
  <2>1. at <= 24 BY <1>9
  <2>3. last # "ok" BY <1>1
  <2>2. "73" \notin Text(tree, "qsa_cache.py") BY <1>1, <1>7, UpstreamIs
  <2> QED BY <1>1, <2>1, <2>2, <2>3 DEF Stuck
<1> QED BY <1>2, <1>3, <1>4, <1>6, <1>8 DEF LayerInv

LEMMA BeginInv == LayerInv /\ (\E m \in {"apply", "check"} : Begin(m)) => LayerInv'
<1> SUFFICES ASSUME LayerInv, NEW m \in {"apply", "check"}, Begin(m) PROVE LayerInv'
    OBVIOUS
<1>1. /\ run' = m /\ mode' = m /\ at' = 1 /\ last' = "" /\ up' = up
      /\ (up.builder => m = "apply" /\ tree' = Upstream(up))
      /\ (~up.builder => tree' = tree)
      BY DEF Begin
<1>7. at' = 1 BY <1>1
<1>2. LayerType'
  <2>1. up' \in Trees BY <1>1 DEF LayerInv, LayerType
  <2>2. at' \in 1..29 BY <1>7
  <2>3. run' \in {"idle", "apply", "check", "verify"} /\ run' = mode' BY <1>1
  <2> QED BY <1>1, <2>1, <2>2, <2>3 DEF LayerType
<1>3. Sound(tree', up') BY <1>1, UpstreamSound DEF LayerInv, LayerType
<1>4. Progress'
  <2>1. Behind(at)' BY <1>7 DEF Behind
  <2>2. ~(at' >= 11) BY <1>7
  <2>3. run' \notin {"verify", "idle"} BY <1>1
  <2> QED BY <2>1, <2>2, <2>3 DEF Progress
<1>5. CppFirst' BY <1>1 DEF LayerInv, CppFirst
<1>6. Stuck'
  <2>1. ASSUME up.builder PROVE "73" \notin Text(Upstream(up), "qsa_cache.py")
    <3>1. P73.sites[1] = P73Edit /\ 1 \in DOMAIN P73.sites BY DEF P73, Script
    <3>2. P73Edit \in Sites BY <3>1, ScriptsAre, SitesAre
    <3>3. P73Edit.file = "qsa_cache.py" /\ Has(P73Edit, "73")
          BY DEF P73Edit, Site, Edit, Has
    <3> QED BY <3>2, <3>3, EditedAre, UpstreamIs DEF LayerInv, LayerType
  <2>2. at' <= 24 BY <1>7
  <2>3. last' # "ok" BY <1>1
  <2> QED BY <1>1, <2>1, <2>2, <2>3 DEF Stuck
<1> QED BY <1>2, <1>3, <1>4, <1>5, <1>6 DEF LayerInv

\* Where vLLM is not installed patch 72 fails.
LEMMA NotInstalled ==
    ASSUME NEW t, NEW u, Sound(t, u), "site-packages/vllm" \notin u.packages
    PROVE  Code(P72, t, u) # Done
<1>1. /\ P72Next.within = "" /\ ~P72Next.creates /\ P72Next.gone = Failed
      /\ P72Next.file = "installed/qwen3_next.py"
      BY DEF P72Next, Site
<1>2. P72Next.file \notin Files(u) /\ P72Next.file \notin NewFiles
      BY <1>1 DEF Files, PackageOf, NewFiles
<1>3. ~Here(P72Next, t) BY <1>2 DEF Here, Sound
<1>13. Inside(P72Next, u) BY <1>1 DEF Inside
<1>4. Answer(P72Next, t, u) = Failed
  <2>1. \A x : Inside(x, u) /\ ~x.creates /\ ~Here(x, t) /\ ~InPlace(x, t)
                  => Answer(x, t, u) = x.gone
        BY DEF Answer
  <2>2. ~InPlace(P72Next, t) BY <1>3 DEF InPlace
  <2> QED BY <1>1, <1>3, <1>13, <2>1, <2>2
<1>5. P72.sites[1] = P72Next /\ DOMAIN P72.sites = 1..2 /\ P72.needs = {} BY DEF P72, Script
<1>6. ScriptOK(P72, 24) /\ ~Lacking(P72, t) BY <1>5, P72OK DEF Lacking
<1>7. Failed # Pass /\ Failed # Done BY DEF Failed, Pass, Done
<1> DEFINE stop == Stop(P72, t, u)
<1>8. /\ Passed(P72, t, u, stop)
      /\ \/ stop \in DOMAIN P72.sites /\ Code(P72, t, u) = Answer(P72.sites[stop], t, u)
         \/ stop = Len(P72.sites) + 1
      BY <1>6, Stops
<1> HIDE DEF stop
<1>9. Len(P72.sites) \in Nat /\ DOMAIN P72.sites = 1..Len(P72.sites) BY <1>6, Places
<1>10. 1 \in DOMAIN P72.sites BY <1>5
<1>11. ~(1 < stop) BY <1>4, <1>5, <1>7, <1>8, <1>10 DEF Passed
<1>12. stop = 1 BY <1>8, <1>9, <1>10, <1>11
<1> QED BY <1>4, <1>5, <1>7, <1>8, <1>9, <1>10, <1>12

\* What a run leaves when it goes on to the next script.
LEMMA GoesOn ==
    ASSUME LayerInv, ~up.builder, run \in {"apply", "check"}, at \in 1..28,
           NEW new, Grew(tree, new),
           \/ Code(Scripts[at], tree, up) = Done /\ new = Applied(Scripts[at], tree, up)
              /\ (run = "apply" \/ Scripts[at].fixed)
           \/ CheckCode(Scripts[at], tree, up) = Done /\ new = tree /\ run = "check"
    PROVE  /\ \A j \in 1..28 : j < at + 1 =>
                \A k \in DOMAIN Scripts[j].sites :
                   LET x == Scripts[j].sites[k]
                   IN Excused(x) \/ (x = P54CppItfs /\ mode = "check") \/ Settled(x, new, up)
           /\ at + 1 >= 11 => "56" \in Text(new, "rocm.py")
<1>0. mode = run /\ Sound(tree, up) /\ run # "idle" BY DEF LayerInv, LayerType
<1>1. Behind(at) /\ (at >= 11 => "56" \in Text(tree, "rocm.py"))
      BY <1>0 DEF LayerInv, Progress
<1>2. ASSUME NEW j \in 1..28, j < at + 1, NEW k \in DOMAIN Scripts[j].sites
      PROVE  LET x == Scripts[j].sites[k]
             IN Excused(x) \/ (x = P54CppItfs /\ mode = "check") \/ Settled(x, new, up)
  <2> DEFINE x == Scripts[j].sites[k]
  <2>1. x \in Sites BY SitesAre
  <2>2. CASE j < at
    <3>1. Excused(x) \/ (x = P54CppItfs /\ mode = "check") \/ Settled(x, tree, up)
          BY <1>1, <2>2 DEF Behind
    <3> HIDE DEF x
    <3>2. Settled(x, tree, up) => Settled(x, new, up) BY <2>1, SettledStays
    <3> QED BY <3>1, <3>2 DEF x
  <2>3. CASE j = at
    <3>1. CASE Code(Scripts[j], tree, up) = Done /\ new = Applied(Scripts[j], tree, up)
          BY <3>1, ScriptSettles
    <3>2. CASE CheckCode(Scripts[j], tree, up) = Done /\ new = tree /\ run = "check"
          BY <1>0, <3>2, CheckSettles
    <3> QED BY <2>3, <3>1, <3>2
  <2> QED BY <1>2, <2>2, <2>3
<1>3. ASSUME at >= 10 PROVE "56" \in Text(new, "rocm.py")
  <2>1. CASE at >= 11
    <3>1. Stays("56") BY NamesStay DEF Names
    <3> QED BY <1>1, <2>1, <3>1 DEF Grew
  <2>2. CASE at = 10
    <3>1. Reaudit # Done BY DEF Reaudit, Done
    <3>2. ~Lacking(P56, tree)
      <4>1. ScriptOK(P56, 10) BY P56OK
      <4>2. 0 \notin DOMAIN P56.sites BY <4>1, Places
      <4>3. Lacking(P56, tree) => Stop(P56, tree, up) = 0 BY DEF Stop
      <4>4. Lacking(P56, tree) => Code(P56, tree, up) = Reaudit BY <4>2, <4>3 DEF Code
      <4>5. Lacking(P56, tree) => CheckCode(P56, tree, up) = Reaudit BY DEF CheckCode
      <4> QED BY <2>2, <3>1, <4>4, <4>5, RocmIs
    <3>3. "rocm.py" \in DOMAIN tree BY <3>2, RocmIs DEF Lacking
    <3>4. "rocm.py" \in DOMAIN new BY <3>3 DEF Grew
    <3>5. Settled(P56Rocm, new, up) BY <1>2, <2>2, RocmIs
    <3> QED BY <3>4, <3>5, RocmIs
  <2> QED BY <1>3, <2>1, <2>2
<1>4. at + 1 >= 11 => at >= 10 OBVIOUS
<1> QED BY <1>2, <1>3, <1>4

\* What a step that writes some files, and cuts others short, does to the rest.
LEMMA WritesInv ==
    ASSUME LayerInv, at \in 1..28, run \in {"apply", "check"},
           run = "apply" \/ Scripts[at].fixed,
           NEW some \in SUBSET Work(Scripts[at], tree, up),
           NEW cut \in SUBSET Work(Scripts[at], tree, up),
           NEW new, new = Cut(After(Scripts[at], some, tree), FilesOf(Scripts[at], cut))
    PROVE  /\ Sound(new, up)
           /\ ~up.builder /\ "56" \in Text(new, "rocm.py") => Settled(P54CppItfs, new, up)
           /\ up.builder => "73" \notin Text(new, "qsa_cache.py")
<1> DEFINE mid == After(Scripts[at], some, tree)
<1>1. Sound(tree, up) BY DEF LayerInv
<1>2. Sound(mid, up) BY <1>1, StepSound
<1>3. FilesOf(Scripts[at], cut) \subseteq Files(up) \cup NewFiles BY <1>1, WorkFiles
<1>4. \A f : \A y \in Text(new, f) : y \in Text(mid, f)
  <2> HIDE DEF mid
  <2> QED BY CutIs DEF mid
<1>5. Sound(new, up) BY <1>2, <1>3, CutSound
<1>6. \A f : \A y \in Text(mid, f) : y \in Text(tree, f) \/ Writer(y) \in {0, at} BY NewText
<1>7. Writer("56") = 10 /\ Writer("73") = 25 BY DEF Writer
<1>8. ASSUME ~up.builder, "56" \in Text(new, "rocm.py") PROVE Settled(P54CppItfs, new, up)
  <2>1. "56" \in Text(tree, "rocm.py") \/ at = 10 BY <1>4, <1>6, <1>7, <1>8
  <2>2. CASE "56" \in Text(tree, "rocm.py")
    <3>1. Settled(P54CppItfs, tree, up) BY <1>8, <2>2 DEF LayerInv, CppFirst
    <3> QED BY <3>1, CppKept
  <2>3. CASE at = 10
    <3>1. run = "apply" /\ mode = "apply" BY <2>3, RocmIs DEF LayerInv, LayerType
    <3>2. Behind(at) BY <1>8, <3>1 DEF LayerInv, Progress
    <3>3. Settled(P54CppItfs, tree, up) BY <2>3, <3>1, <3>2, CppIs DEF Behind
    <3> QED BY <3>3, CppKept
  <2> QED BY <2>1, <2>2, <2>3
<1>9. ASSUME up.builder PROVE "73" \notin Text(new, "qsa_cache.py")
  <2>1. at <= 24 /\ "73" \notin Text(tree, "qsa_cache.py") BY <1>9 DEF LayerInv, Stuck
  <2>2. Writer("73") \notin {0, at} BY <1>7, <2>1
  <2> QED BY <1>4, <1>6, <2>1, <2>2
<1> QED BY <1>5, <1>8, <1>9

\* A script that ends cuts no file short.
LEMMA CutNothing == \A t, s : t = [f \in DOMAIN t |-> t[f]] => Cut(t, FilesOf(s, {})) = t
BY DEF Cut, FilesOf

LEMMA RunScriptInv == LayerInv /\ RunScript => LayerInv'
<1> SUFFICES ASSUME LayerInv, RunScript PROVE LayerInv'
    OBVIOUS
<1> DEFINE s == Scripts[at]
           code == IF Edits(s) THEN Code(s, tree, up) ELSE CheckCode(s, tree, up)
<1>1. /\ run \in {"apply", "check"} /\ at \in 1..28 /\ up' = up /\ mode' = mode
      /\ (Edits(s) => tree' = Applied(s, tree, up)) /\ (~Edits(s) => tree' = tree)
      /\ (code = Done => at' = at + 1 /\ run' = run /\ last' = last)
      /\ (code # Done => /\ at' = at
                         /\ run' = (IF up.builder THEN "verify" ELSE "idle")
                         /\ last' = (IF up.builder THEN last ELSE "failed"))
      BY ScriptsAre DEF RunScript
<1>2. Grew(tree, tree') BY <1>1, AfterGrows, GrewNot DEF Applied
<1>3. /\ Sound(tree', up)
      /\ ~up.builder /\ "56" \in Text(tree', "rocm.py") => Settled(P54CppItfs, tree', up)
      /\ up.builder => "73" \notin Text(tree', "qsa_cache.py")
  <2>1. CASE Edits(s)
    <3> DEFINE work == Work(s, tree, up)
               mid == After(s, work, tree)
    <3>1. tree' = mid BY <1>1, <2>1 DEF Applied
    <3>2. mid = [f \in DOMAIN mid |-> mid[f]] BY DEF After
    <3>3. tree' = Cut(After(s, work, tree), FilesOf(s, {})) BY <3>1, <3>2, CutNothing
    <3>4. run = "apply" \/ s.fixed BY <2>1 DEF Edits
    <3> HIDE DEF s
    <3> QED BY <1>1, <3>3, <3>4, WritesInv DEF s
  <2>2. CASE ~Edits(s) BY <1>1, <2>2 DEF LayerInv, CppFirst, Stuck
  <2> QED BY <2>1, <2>2
<1>4. LayerType'
  <2>1. up \in Trees /\ mode \in {"apply", "check"} /\ run = mode
        BY <1>1 DEF LayerInv, LayerType
  <2>2. at' \in 1..29 BY <1>1
  <2> QED BY <1>1, <2>1, <2>2 DEF LayerType
<1>5. Progress'
  <2> SUFFICES ASSUME ~up.builder, run' # "idle" \/ last' = "ok"
               PROVE  Behind(at)' /\ (at' >= 11 => "56" \in Text(tree', "rocm.py"))
                      /\ (run' \in {"verify", "idle"} => at' = 29)
      BY <1>1 DEF Progress
  <2>1. code = Done BY <1>1
  <2>2. at' = at + 1 /\ run' = run BY <1>1, <2>1
  <2>3. \/ /\ Code(Scripts[at], tree, up) = Done /\ tree' = Applied(Scripts[at], tree, up)
           /\ (run = "apply" \/ Scripts[at].fixed)
        \/ CheckCode(Scripts[at], tree, up) = Done /\ tree' = tree /\ run = "check"
        BY <1>1, <2>1 DEF Edits
  <2>4. /\ \A j \in 1..28 : j < at + 1 =>
             \A k \in DOMAIN Scripts[j].sites :
                LET x == Scripts[j].sites[k]
                IN Excused(x) \/ (x = P54CppItfs /\ mode = "check") \/ Settled(x, tree', up)
        /\ at + 1 >= 11 => "56" \in Text(tree', "rocm.py")
        BY <1>1, <1>2, <2>3, GoesOn
  <2> QED BY <1>1, <2>2, <2>4 DEF Behind
<1>6. CppFirst' BY <1>1, <1>3 DEF CppFirst
<1>7. Stuck'
  <2> SUFFICES ASSUME up.builder
               PROVE  mode' = "apply" /\ at' <= 24 /\ last' # "ok"
                      /\ "73" \notin Text(tree', "qsa_cache.py")
      BY <1>1 DEF Stuck
  <2>1. mode = "apply" /\ at <= 24 /\ last # "ok" BY DEF LayerInv, Stuck
  <2>2. CASE at = 24
    <3>1. s = P72 BY <2>2, ScriptsAre
    <3>2. Edits(s) BY <1>1, <2>1 DEF Edits, LayerInv, LayerType
    <3>3. "site-packages/vllm" \notin up.packages
          BY TreesAssumption DEF LayerInv, LayerType
    <3>4. code # Done BY <3>1, <3>2, <3>3, NotInstalled DEF LayerInv
    <3> QED BY <1>1, <1>3, <2>1, <3>4
  <2>3. CASE at < 24 BY <1>1, <1>3, <2>1, <2>3
  <2> QED BY <1>1, <2>1, <2>2, <2>3
<1> QED BY <1>1, <1>3, <1>4, <1>5, <1>6, <1>7 DEF LayerInv

LEMMA AllRunInv == LayerInv /\ AllRun => LayerInv'
<1> SUFFICES ASSUME LayerInv, AllRun PROVE LayerInv'
    OBVIOUS
<1>1. /\ run \in {"apply", "check"} /\ at = 29 /\ run' = "verify"
      /\ up' = up /\ tree' = tree /\ mode' = mode /\ at' = at /\ last' = last
      BY ScriptsAre DEF AllRun
<1>2. LayerType' BY <1>1 DEF LayerInv, LayerType
<1>3. Progress' BY <1>1 DEF LayerInv, Progress, Behind
<1>4. CppFirst' BY <1>1 DEF LayerInv, CppFirst
<1>5. Stuck' BY <1>1 DEF LayerInv, Stuck
<1> QED BY <1>1, <1>2, <1>3, <1>4, <1>5 DEF LayerInv

\* The number of a script, and its marker.
LEMMA NumberOf ==
    /\ \A i \in 1..28 : Scripts[i].n = 69 => i = 23
    /\ \A i \in 1..28 : Scripts[i].n = 73 => i = 25
<1>1. \A i \in 1..14 : Scripts[i].n \notin {69, 73}
      BY ScriptsAre, Numbers, P10Checks, P20Checks, P30Checks, P40Checks, P50Checks,
         P51Checks, P52Checks, P53Checks, P56Checks, P57Checks, P58Checks, P59Checks, P60Checks
<1>2. \A i \in 15..28 : (Scripts[i].n = 69 => i = 23) /\ (Scripts[i].n = 73 => i = 25)
      BY ScriptsAre, Numbers, P61Checks, P62Checks, P63Checks, P64Checks, P65Checks,
         P66Checks, P67Checks, P68Checks, P69Checks, P73Checks, P74Checks, P75Checks, P76Checks
<1> QED BY <1>1, <1>2

LEMMA MarkersOf ==
    /\ \A t : Marked(69, t) => "69" \in Text(t, "amd/model.py")
    /\ \A t : Marked(73, t) => "73" \in Text(t, "qsa_cache.py")
<1>1. ScriptOf(69) = P69
  <2>1. Scripts[23] = P69 /\ P69.n = 69 /\ DOMAIN Scripts = 1..28 BY ScriptsAre, P69Checks
  <2>2. \A s \in {Scripts[i] : i \in DOMAIN Scripts} : s.n = 69 => s = P69
        BY <2>1, NumberOf
  <2>3. P69 \in {Scripts[i] : i \in DOMAIN Scripts} BY <2>1
  <2> QED BY <2>1, <2>2, <2>3 DEF ScriptOf
<1>2. ScriptOf(73) = P73
  <2>1. Scripts[25] = P73 /\ P73.n = 73 /\ DOMAIN Scripts = 1..28 BY ScriptsAre, P73Checks
  <2>2. \A s \in {Scripts[i] : i \in DOMAIN Scripts} : s.n = 73 => s = P73
        BY <2>1, NumberOf
  <2>3. P73 \in {Scripts[i] : i \in DOMAIN Scripts} BY <2>1
  <2> QED BY <2>1, <2>2, <2>3 DEF ScriptOf
<1>3. DOMAIN P69.sites = 1..1 /\ P69.sites[1] = P69Edit BY DEF P69, Script
<1>4. DOMAIN P73.sites = 1..1 /\ P73.sites[1] = P73Edit BY DEF P73, Script
<1>5. P69Edit.file = "amd/model.py" /\ \A e \in P69Edit.edits : e.text = "69"
      BY DEF P69Edit, Site, Edit
<1>6. P73Edit.file = "qsa_cache.py" /\ \A e \in P73Edit.edits : e.text = "73"
      BY DEF P73Edit, Site, Edit
<1>7. ASSUME NEW t, Marked(69, t) PROVE "69" \in Text(t, "amd/model.py")
  <2>1. PICK i \in DOMAIN P69.sites :
            \E e \in P69.sites[i].edits : e.text \in Text(t, P69.sites[i].file)
        BY <1>1, <1>7 DEF Marked
  <2>2. P69.sites[i] = P69Edit BY <1>3
  <2> QED BY <1>5, <2>1, <2>2
<1>8. ASSUME NEW t, Marked(73, t) PROVE "73" \in Text(t, "qsa_cache.py")
  <2>1. PICK i \in DOMAIN P73.sites :
            \E e \in P73.sites[i].edits : e.text \in Text(t, P73.sites[i].file)
        BY <1>2, <1>8 DEF Marked
  <2>2. P73.sites[i] = P73Edit BY <1>4
  <2> QED BY <1>6, <2>1, <2>2
<1> QED BY <1>7, <1>8

LEMMA VerifyInv == LayerInv /\ Verify => LayerInv'
<1> SUFFICES ASSUME LayerInv, Verify PROVE LayerInv'
    OBVIOUS
<1>1. /\ run = "verify" /\ run' = "idle"
      /\ last' = (IF Verified(tree, up) THEN "ok" ELSE "failed")
      /\ up' = up /\ tree' = tree /\ mode' = mode /\ at' = at
      BY DEF Verify
<1>2. LayerType' BY <1>1 DEF LayerInv, LayerType
<1>3. Progress'
  <2>1. ~up.builder => Behind(at) /\ (at >= 11 => "56" \in Text(tree, "rocm.py")) /\ at = 29
        BY <1>1 DEF LayerInv, Progress
  <2>2. Behind(at) => Behind(at)' BY <1>1 DEF Behind
  <2> QED BY <1>1, <2>1, <2>2 DEF Progress
<1>4. CppFirst' BY <1>1 DEF LayerInv, CppFirst
<1>5. Stuck'
  <2>1. ASSUME up.builder PROVE ~Verified(tree, up)
    <3> SUFFICES ASSUME Verified(tree, up) PROVE FALSE
        OBVIOUS
    <3>1. Marked(69, tree) BY DEF Verified, EXPECTED
    <3>2. "amd/model.py" \in DOMAIN tree BY <3>1, MarkersOf DEF Text
    <3>3. "amd/model.py" \in Files(up)
          BY <3>2 DEF LayerInv, Sound, NewFiles
    <3>4. PackageOf("amd/model.py") = "qwen4_exp" BY DEF PackageOf
    <3>5. "qwen4_exp" \in up.packages BY <3>3, <3>4 DEF Files
    <3>6. 73 \in CONDITIONAL(tree, up) BY <3>5 DEF CONDITIONAL
    <3>7. Marked(73, tree) BY <3>6 DEF Verified
    <3> QED BY <2>1, <3>7, MarkersOf DEF LayerInv, Stuck
  <2>2. last' = "ok" => Verified(tree, up) BY <1>1
  <2>3. up.builder => /\ mode = "apply" /\ at <= 24
                      /\ "73" \notin Text(tree, "qsa_cache.py")
        BY DEF LayerInv, Stuck
  <2> QED BY <1>1, <2>1, <2>2, <2>3 DEF Stuck
<1> QED BY <1>1, <1>2, <1>3, <1>4, <1>5 DEF LayerInv

LEMMA KillInv == LayerInv /\ Kill => LayerInv'
<1> SUFFICES ASSUME LayerInv, Kill PROVE LayerInv'
    OBVIOUS
<1> DEFINE s == Scripts[at]
           work == IF Edits(s) THEN Work(s, tree, up) ELSE {}
<1>1. /\ run \in {"apply", "check"} /\ at \in 1..28
      /\ run' = "idle" /\ last' = "killed" /\ up' = up /\ mode' = mode /\ at' = at
      BY ScriptsAre DEF Kill
<1>2. \E n \in 0..Len(s.sites) : \E cut \in SUBSET work :
          tree' = Cut(After(s, work \cap 1..n, tree), FilesOf(s, cut))
      BY DEF Kill, Cut
<1>3. PICK n \in 0..Len(s.sites), cut \in SUBSET work :
          tree' = Cut(After(s, work \cap 1..n, tree), FilesOf(s, cut))
      BY <1>2
<1>4. /\ Sound(tree', up)
      /\ ~up.builder /\ "56" \in Text(tree', "rocm.py") => Settled(P54CppItfs, tree', up)
      /\ up.builder => "73" \notin Text(tree', "qsa_cache.py")
  <2>1. CASE Edits(s)
    <3>1. work = Work(s, tree, up) BY <2>1
    <3>2. run = "apply" \/ s.fixed BY <2>1 DEF Edits
    <3> HIDE DEF work
    <3>3. work \cap 1..n \in SUBSET Work(s, tree, up) /\ cut \in SUBSET Work(s, tree, up)
          BY <3>1
    <3> HIDE DEF s
    <3> QED BY <1>1, <1>3, <3>2, <3>3, WritesInv DEF s
  <2>2. CASE ~Edits(s)
    <3>1. work = {} /\ cut = {} /\ work \cap 1..n = {} BY <1>3, <2>2
    <3>2. FilesOf(s, {}) = {} BY DEF FilesOf
    <3>3. tree' = Cut(After(s, {}, tree), {}) BY <1>3, <3>1, <3>2
    <3>4. \A f : /\ f \in DOMAIN tree' <=> f \in DOMAIN tree
                 /\ Text(tree', f) = Text(tree, f)
      <4>1. \A f : /\ f \in DOMAIN After(s, {}, tree) <=> f \in DOMAIN tree
                   /\ Text(After(s, {}, tree), f) = Text(tree, f)
            BY <3>2 DEF After, Text
      <4> QED BY <3>3, <4>1, CutIs
    <3>5. Sound(tree', up) BY <3>4 DEF LayerInv, Sound, Whole
    <3>6. Settled(P54CppItfs, tree, up) => Settled(P54CppItfs, tree', up)
      <4>1. Grew(tree, tree') BY <3>4 DEF Grew
      <4> QED BY <4>1, CppIs, SettledStays
    <3> QED BY <3>4, <3>5, <3>6 DEF LayerInv, CppFirst, Stuck
  <2> QED BY <2>1, <2>2
<1>5. LayerType' BY <1>1 DEF LayerInv, LayerType
<1>6. Progress' BY <1>1 DEF Progress
<1>7. CppFirst' BY <1>1, <1>4 DEF CppFirst
<1>8. Stuck' BY <1>1, <1>4 DEF LayerInv, Stuck
<1> QED BY <1>1, <1>4, <1>5, <1>6, <1>7, <1>8 DEF LayerInv

LEMMA LayerInvHolds == LayerSpec => []LayerInv
<1>1. LayerInv /\ [LayerNext]_layerVars => LayerInv'
  <2>1. LayerInv /\ UNCHANGED layerVars => LayerInv'
        BY DEF LayerInv, LayerType, Progress, Behind, CppFirst, Stuck, layerVars
  <2> QED BY <2>1, BeginInv, RunScriptInv, AllRunInv, VerifyInv, KillInv DEF LayerNext
<1> QED BY <1>1, LayerInitInv, PTL DEF LayerSpec

\* The image's builder cannot get through: of apply_all.sh nothing that is run
\* there, however often it is begun again, ends well, for patch 72 wants vLLM
\* installed.
THEOREM BuilderNeverPasses == LayerSpec => [](up.builder => last # "ok")
<1>1. LayerInv => (up.builder => last # "ok") BY DEF LayerInv, Stuck
<1> QED BY <1>1, LayerInvHolds, PTL
-----------------------------------------------------------------------------
(***************************************************************************)
(* Landed.                                                                 *)
(***************************************************************************)
LEMMA IdealGrows ==
    ASSUME NEW u \in Trees, NEW n \in 0..28
    PROVE  Grew(Upstream(u), IdealTree(u)[n]) /\ Sound(IdealTree(u)[n], u)
<1> DEFINE t(m) == IdealTree(u)[m]
           S == {m \in 0..28 : Grew(Upstream(u), t(m)) /\ Sound(t(m), u)}
<1>1. 0 \in S BY IdealIs, GrewNot, UpstreamSound
<1>2. ASSUME NEW m \in Nat, m \in S, m < 28 PROVE m + 1 \in S
  <2>1. m + 1 \in 1..28 /\ (m + 1) - 1 = m BY <1>2
  <2>2. t(m + 1) = After(Scripts[m + 1], Work(Scripts[m + 1], t(m), u), t(m))
        BY <2>1, IdealIs DEF Applied
  <2>3. Grew(t(m), t(m + 1)) BY <2>1, <2>2, AfterGrows
  <2>4. Grew(Upstream(u), t(m)) /\ Sound(t(m), u) BY <1>2
  <2>5. Sound(t(m + 1), u) BY <2>1, <2>2, <2>4, StepSound
  <2> HIDE DEF t
  <2>6. Grew(Upstream(u), t(m + 1)) BY <2>3, <2>4, GrewTransitive
  <2> QED BY <2>1, <2>5, <2>6
<1> HIDE DEF S
<1>3. n \in S BY <1>1, <1>2, Upwards
<1> QED BY <1>3 DEF S

\* What the uninterrupted run has put in, some site wrote into a tree without it.
LEMMA IdealWrote ==
    ASSUME NEW u \in Trees, NEW n \in 0..28, NEW f, NEW y \in Text(IdealTree(u)[n], f),
           y \notin Text(Upstream(u), f)
    PROVE  \E m \in 1..28, x \in Sites :
              /\ x.file = f /\ Has(x, y) /\ Writes(x, IdealTree(u)[m - 1], u)
              /\ y \notin Text(IdealTree(u)[m - 1], f)
<1> DEFINE t(m) == IdealTree(u)[m]
           Wrote == \E m \in 1..28, x \in Sites :
                       /\ x.file = f /\ Has(x, y) /\ Writes(x, t(m - 1), u)
                       /\ y \notin Text(t(m - 1), f)
           S == {m \in 0..28 : y \in Text(t(m), f) => Wrote}
<1>1. 0 \in S BY IdealIs
<1>2. ASSUME NEW m \in Nat, m \in S, m < 28 PROVE m + 1 \in S
  <2> DEFINE s == Scripts[m + 1]
             work == Work(s, t(m), u)
  <2>1. m + 1 \in 1..28 /\ (m + 1) - 1 = m BY <1>2
  <2>2. t(m + 1) = After(s, work, t(m)) BY <2>1, IdealIs DEF Applied
  <2>3. SUFFICES ASSUME y \in Text(t(m + 1), f), y \notin Text(t(m), f) PROVE Wrote
        BY <1>2, <2>1
  <2>4. ScriptOK(s, m + 1) BY <2>1, AllOK
  <2>5. \A k \in DOMAIN s.sites : s.sites[k] \in Sites BY <2>1, SitesAre
  <2> HIDE DEF s, t
  <2>6. \A k \in work : k \in DOMAIN s.sites /\ Writes(s.sites[k], t(m), u) BY <2>4, WorkIs
  <2>7. work \subseteq DOMAIN s.sites BY <2>6
  <2>8. f \in FilesOf(s, work) => \E k \in work : s.sites[k].file = f BY DEF FilesOf
  <2> HIDE DEF work
  <2>9. PICK k \in work : s.sites[k].file = f /\ Text(t(m + 1), f) = Written(s.sites[k], t(m))
        BY <2>2, <2>3, <2>4, <2>7, <2>8, AfterIs
  <2>10. Has(s.sites[k], y) BY <2>3, <2>5, <2>6, <2>9, SitesOK, WrittenIs
  <2>11. Writes(s.sites[k], t((m + 1) - 1), u) /\ y \notin Text(t((m + 1) - 1), f)
         BY <2>1, <2>3, <2>6
  <2> QED BY <2>1, <2>5, <2>6, <2>9, <2>10, <2>11
<1> HIDE DEF S, Wrote
<1>3. n \in S BY <1>1, <1>2, Upwards
<1>4. Wrote BY <1>3 DEF S
<1> QED BY <1>4 DEF Wrote

\* A tree in which every site is settled has all that the uninterrupted run puts in.
LEMMA SettledLands ==
    ASSUME NEW u \in Trees, NEW t, Sound(t, u),
           \A x \in Sites : Excused(x) \/ Settled(x, t, u),
           NEW f, NEW y, <<f, y>> \in Edited \ PassedOver, y \in Text(IdealEnd(u), f)
    PROVE  y \in Text(t, f)
<1>1. y \in Text(IdealTree(u)[28], f) BY ScriptsAre DEF IdealEnd
<1>2. y \notin Text(Upstream(u), f) BY UpstreamIs
<1>3. PICK m \in 1..28, x \in Sites :
          x.file = f /\ Has(x, y) /\ Writes(x, IdealTree(u)[m - 1], u)
      BY <1>1, <1>2, IdealWrote
<1> DEFINE old == IdealTree(u)[m - 1]
<1>4. m - 1 \in 0..28 BY <1>3
<1>5. Grew(Upstream(u), old) /\ Sound(old, u) BY <1>4, IdealGrows
<1> HIDE DEF old
<1>6. Writes(x, old, u) BY <1>3 DEF old
<1>7. SiteOK(x) BY SitesOK
<1>8. PICK e \in x.edits : e.text = y BY <1>3 DEF Has
<1>9. Settled(x, t, u) BY <1>3, <1>8 DEF Excused
<1>10. ~x.creates => Here(x, t)
  <2>1. ~x.creates => x.file \notin NewFiles BY <1>7 DEF SiteOK, FileOK
  <2> QED BY <1>5, <1>6, <2>1 DEF Writes, Here, Sound
<1>11. InPlace(x, t) BY <1>6, <1>9, <1>10 DEF Writes, Settled
<1>12. f \in DOMAIN t /\ Text(t, f) = t[f] BY <1>3, <1>11 DEF InPlace, Here, Text
<1>13. CASE \A d \in x.edits : ~Missing(d, x, t) BY <1>3, <1>8, <1>13 DEF Missing
<1>14. CASE x.seen \cap t[x.file] # {}
  <2>1. PICK z \in x.seen : z \in Text(t, f) BY <1>3, <1>12, <1>14
  <2>2. CASE z \in Names
    <3>1. \/ e.text = z
          \/ x.file = KernelFile /\ z \in {"51", "52"} /\ e.text = "import_os"
          BY <1>7, <2>1, <2>2 DEF SiteOK, TestsOK
    <3> QED BY <1>3, <1>8, <2>1, <3>1 DEF Sound, Whole
  <2>3. CASE z \notin Names
    <3>1. z \in Text(Upstream(u), f) BY <2>1, <2>3, EditedAre DEF Sound
    <3>2. Stays(z) BY <1>7, <2>1 DEF SiteOK, TestsOK
    <3>3. z \in Text(old, f) BY <1>5, <3>1, <3>2 DEF Grew
    <3>4. f \in DOMAIN old /\ z \in old[f] BY <3>3 DEF Text
    <3>5. InPlace(x, old) BY <1>3, <2>1, <3>4 DEF InPlace, Here
    <3> QED BY <1>6, <3>5 DEF Writes
  <2> QED BY <2>2, <2>3
<1> QED BY <1>11, <1>13, <1>14 DEF InPlace

LEMMA AllSettled ==
    ASSUME LayerInv, ~up.builder, run = "verify" \/ (run = "idle" /\ last = "ok")
    PROVE  \A x \in Sites : Excused(x) \/ Settled(x, tree, up)
<1>1. ~up.builder OBVIOUS
<1>2. Behind(at) /\ (at >= 11 => "56" \in Text(tree, "rocm.py")) /\ at = 29
      BY <1>1 DEF LayerInv, Progress
<1>3. Settled(P54CppItfs, tree, up) BY <1>1, <1>2 DEF LayerInv, CppFirst
<1>4. ASSUME NEW x \in Sites PROVE Excused(x) \/ Settled(x, tree, up)
  <2>1. PICK i \in 1..28 : \E k \in DOMAIN Scripts[i].sites : x = Scripts[i].sites[k]
        BY SitesAre
  <2>2. i < at BY <1>2
  <2> QED BY <1>2, <1>3, <2>1, <2>2 DEF Behind
<1> QED BY <1>4

\* A run of apply_all.sh that ends well leaves every edit in place that an
\* uninterrupted one makes (but those of PassedOver), however often and wherever
\* earlier runs were killed, and in whatever file they were writing.
THEOREM LandedHolds == LayerSpec => []Landed
<1>1. LayerInv => Landed
  <2> SUFFICES ASSUME LayerInv, run = "idle", last = "ok", NEW e \in Edited \ PassedOver,
                      e[2] \in Text(IdealEnd(up), e[1])
               PROVE  e[2] \in Text(tree, e[1])
      BY DEF Landed
  <2>1. PICK x \in Sites : e \in {<<x.file, d.text>> : d \in x.edits} BY DEF Edited
  <2>2. PICK d \in x.edits : e = <<x.file, d.text>> BY <2>1
  <2>3. e = <<e[1], e[2]>> BY <2>2
  <2>4. Sound(tree, up) /\ up \in Trees BY DEF LayerInv, LayerType
  <2>5. ~up.builder BY DEF LayerInv, Stuck
  <2> QED BY <2>3, <2>4, <2>5, AllSettled, SettledLands
<1> QED BY <1>1, LayerInvHolds, PTL
-----------------------------------------------------------------------------
(***************************************************************************)
(* Resumable.                                                              *)
(***************************************************************************)
\* A text is not in the uninterrupted run's tree before the script that writes it.
LEMMA IdealWriter ==
    ASSUME NEW u \in Trees, NEW n \in 0..28
    PROVE  \A f : \A y \in Text(IdealTree(u)[n], f) : <<f, y>> \in Edited => Writer(y) <= n
<1> DEFINE t(m) == IdealTree(u)[m]
           S == {m \in 0..28 : \A f : \A y \in Text(t(m), f) :
                                   <<f, y>> \in Edited => Writer(y) <= m}
<1>1. 0 \in S BY IdealIs, UpstreamIs
<1>2. ASSUME NEW m \in Nat, m \in S, m < 28 PROVE m + 1 \in S
  <2> DEFINE s == Scripts[m + 1]
             work == Work(s, t(m), u)
  <2>1. m + 1 \in 1..28 /\ (m + 1) - 1 = m BY <1>2
  <2>2. t(m + 1) = After(s, work, t(m)) BY <2>1, IdealIs DEF Applied
  <2>3. ASSUME NEW f, NEW y \in Text(t(m + 1), f), <<f, y>> \in Edited
        PROVE  Writer(y) <= m + 1
    <3>1. CASE y \in Text(t(m), f)
      <4>1. Writer(y) <= m BY <1>2, <2>3, <3>1
      <4>2. Writer(y) \in 0..28 BY DEF Writer
      <4> QED BY <1>2, <4>1, <4>2
    <3>2. CASE y \notin Text(t(m), f)
      <4>1. Writer(y) \in {0, m + 1} BY <2>1, <2>2, <2>3, <3>2, NewText
      <4> QED BY <1>2, <4>1
    <3> QED BY <3>1, <3>2
  <2> HIDE DEF t
  <2> QED BY <2>1, <2>3
<1> HIDE DEF S
<1>3. n \in S BY <1>1, <1>2, Upwards
<1> QED BY <1>3 DEF S

\* All that upstream has in a file is still there, or its replacement is.
Still(t, u, f) ==
    \A y \in Text(Upstream(u), f) :
        y \in Text(t, f) \/ (~Stays(y) /\ Eater(y) \in Text(t, f))

\* No text in a tree but those of the scripts is new.
LEMMA FromUpstream ==
    ASSUME NEW t, NEW u, Sound(t, u), NEW f, NEW y \in Text(t, f), y \notin Names
    PROVE  y \in Text(Upstream(u), f)
BY EditedAre DEF Sound

\* The texts that a site writes, other than the import, are those of its script.
LEMMA OwnText ==
    ASSUME NEW i \in 1..28, NEW k \in DOMAIN Scripts[i].sites,
           NEW e \in Scripts[i].sites[k].edits, ~Scripts[i].sites[k].creates,
           e.text # "import_os"
    PROVE  Writer(e.text) = i
<1> DEFINE x == Scripts[i].sites[k]
<1>1. SiteOK(x) /\ Writer(e.text) \in {0, i} BY AllOK DEF ScriptOK
<1>2. e.text \in Names /\ e.text # "copy" BY <1>1 DEF SiteOK, EditsOK, EditOK, TestsOK
<1>3. \A y \in Names : Writer(y) = 0 => y \in {"import_os", "copy"} BY DEF Names, Writer
<1> QED BY <1>1, <1>2, <1>3

\* The site of a script, before it has run in an uninterrupted run: only upstream
\* can have put its edit in place.
LEMMA IdealInPlace ==
    ASSUME NEW u \in Trees, NEW i \in 1..28, NEW k \in DOMAIN Scripts[i].sites,
           ~Scripts[i].sites[k].creates, InPlace(Scripts[i].sites[k], IdealTree(u)[i - 1])
    PROVE  LET x == Scripts[i].sites[k]
           IN \E z \in x.seen : Stays(z) /\ z \in Text(Upstream(u), x.file)
<1> DEFINE x == Scripts[i].sites[k]
           t == IdealTree(u)[i - 1]
<1>1. i - 1 \in 0..28 OBVIOUS
<1>2. Sound(t, u) BY <1>1, IdealGrows
<1>3. x \in Sites /\ SiteOK(x) BY SitesAre, SitesOK
<1>4. \A e \in x.edits : e.text # "import_os" => e.text \notin Text(t, x.file)
  <2> SUFFICES ASSUME NEW e \in x.edits, e.text # "import_os", e.text \in Text(t, x.file)
               PROVE  FALSE
      OBVIOUS
  <2>1. Writer(e.text) = i BY OwnText
  <2>2. Has(x, e.text) BY DEF Has
  <2> HIDE DEF x, t
  <2>3. <<x.file, e.text>> \in Edited BY <1>3, <2>2, EditedAre
  <2>4. Writer(e.text) <= i - 1 BY <1>1, <2>3, IdealWriter DEF t
  <2> QED BY <2>1, <2>4
<1>5. PICK e \in x.edits : e.text # "import_os" BY <1>3 DEF SiteOK, EditsOK
<1>9. InPlace(x, t) OBVIOUS
<1> HIDE DEF x, t
<1>6. x.file \in DOMAIN t /\ Text(t, x.file) = t[x.file] BY <1>9 DEF InPlace, Here, Text
<1>7. PICK z \in x.seen : z \in Text(t, x.file)
      BY <1>4, <1>5, <1>6, <1>9 DEF InPlace, Missing
<1>8. z \notin Names
  <2> SUFFICES ASSUME z \in Names PROVE FALSE
      OBVIOUS
  <2>1. e.text = z \/ e.text = "import_os" BY <1>3, <1>7 DEF SiteOK, TestsOK
  <2> QED BY <1>4, <1>5, <1>7, <2>1
<1>10. z \in Text(Upstream(u), x.file) BY <1>2, <1>7, <1>8, FromUpstream
<1>11. Stays(z) BY <1>3, <1>7 DEF SiteOK, TestsOK
<1> QED BY <1>7, <1>10, <1>11 DEF x

\* The two trees of a site: the uninterrupted run's before its script, and one
\* that has still got what upstream has.
LEMMA SameInPlace ==
    ASSUME NEW u \in Trees, NEW i \in 1..28, NEW k \in DOMAIN Scripts[i].sites,
           NEW t, Sound(t, u), Still(t, u, Scripts[i].sites[k].file),
           ~Scripts[i].sites[k].creates, InPlace(Scripts[i].sites[k], IdealTree(u)[i - 1])
    PROVE  InPlace(Scripts[i].sites[k], t)
<1> DEFINE x == Scripts[i].sites[k]
<1>1. PICK z \in x.seen : Stays(z) /\ z \in Text(Upstream(u), x.file) BY IdealInPlace
<1>2. z \in Text(t, x.file) BY <1>1 DEF Still
<1> HIDE DEF x
<1>3. x.file \in DOMAIN t /\ z \in t[x.file] BY <1>2 DEF Text
<1>4. InPlace(x, t) BY <1>1, <1>3 DEF InPlace, Here
<1> QED BY <1>4 DEF x

\* An anchor of the import is upstream's, too.
LEMMA IdealImport ==
    ASSUME NEW u \in Trees, NEW n \in 0..28, NEW f, "import_os" \in Text(IdealTree(u)[n], f),
           <<f, "import_os">> \in Edited
    PROVE  "stdlib_imports" \in Text(Upstream(u), f)
<1>1. "import_os" \notin Text(Upstream(u), f) BY UpstreamIs
<1>2. PICK m \in 1..28, x \in Sites :
          /\ x.file = f /\ Has(x, "import_os") /\ Writes(x, IdealTree(u)[m - 1], u)
          /\ "import_os" \notin Text(IdealTree(u)[m - 1], f)
      BY <1>1, IdealWrote
<1> DEFINE t == IdealTree(u)[m - 1]
<1>3. m - 1 \in 0..28 BY <1>2
<1>4. Sound(t, u) BY <1>3, IdealGrows
<1>5. PICK e \in x.edits : e.text = "import_os" BY <1>2 DEF Has
<1>6. SiteOK(x) BY SitesOK
<1>7. x.known = {} /\ ~x.creates BY <1>5, <1>6 DEF SiteOK, TestsOK
<1> HIDE DEF t
<1>8. Anchored(x, t) /\ Here(x, t) BY <1>2, <1>7 DEF Writes, Known, t
<1>9. e.keeps = {"stdlib_imports"} BY <1>5, <1>6 DEF SiteOK, EditsOK, EditOK
<1>10. "stdlib_imports" \in Text(t, f)
       BY <1>2, <1>5, <1>8, <1>9 DEF Anchored, Missing, Here, Text, t
<1>11. "stdlib_imports" \notin Names BY DEF Names
<1> QED BY <1>4, <1>10, <1>11, FromUpstream

LEMMA NotYet ==
    ASSUME NEW u \in Trees, NEW i \in 1..28, NEW k \in DOMAIN Scripts[i].sites,
           ~Scripts[i].sites[k].creates,
           NEW e \in Scripts[i].sites[k].edits, e.text # "import_os"
    PROVE  Missing(e, Scripts[i].sites[k], IdealTree(u)[i - 1])
<1> DEFINE x == Scripts[i].sites[k]
           t == IdealTree(u)[i - 1]
<1>1. i - 1 \in 0..28 OBVIOUS
<1>2. x \in Sites BY SitesAre
<1>3. Writer(e.text) = i BY OwnText
<1>4. Has(x, e.text) BY DEF Has
<1> SUFFICES ASSUME e.text \in Text(t, x.file) PROVE FALSE
    BY DEF Missing
<1> HIDE DEF x, t
<1>5. <<x.file, e.text>> \in Edited BY <1>2, <1>4, EditedAre
<1>6. Writer(e.text) <= i - 1 BY <1>1, <1>5, IdealWriter DEF t
<1> QED BY <1>3, <1>6

\* A tree that has still got what upstream has, but for the files that are only
\* copied and the header that is edited without an anchor.
Clean(t, u) == \A f : f \notin NewFiles \cup {"vec_convert.h"} => Still(t, u, f)

LEMMA SameKnown ==
    ASSUME NEW u \in Trees, NEW i \in 1..28, NEW x \in Sites, NEW t, Still(t, u, x.file),
           Known(x, IdealTree(u)[i - 1])
    PROVE  Known(x, t)
<1> DEFINE old == IdealTree(u)[i - 1]
<1>1. i - 1 \in 0..28 OBVIOUS
<1>2. Sound(old, u) BY <1>1, IdealGrows
<1>3. Known(x, old) OBVIOUS
<1> HIDE DEF old
<1>4. PICK z \in x.known : z \in Text(old, x.file) BY <1>3 DEF Known
<1>5. z \notin Names /\ Stays(z) BY <1>4, SitesOK DEF SiteOK, TestsOK
<1>6. z \in Text(Upstream(u), x.file) BY <1>2, <1>4, <1>5, FromUpstream
<1> QED BY <1>4, <1>5, <1>6 DEF Known, Still

LEMMA SameAnchored ==
    ASSUME NEW u \in Trees, NEW i \in 1..28, NEW k \in DOMAIN Scripts[i].sites,
           NEW t, Sound(t, u), Clean(t, u), ~Scripts[i].sites[k].creates,
           Scripts[i].sites[k].file # "vec_convert.h",
           Here(Scripts[i].sites[k], t), Here(Scripts[i].sites[k], IdealTree(u)[i - 1]),
           Anchored(Scripts[i].sites[k], IdealTree(u)[i - 1])
    PROVE  Anchored(Scripts[i].sites[k], t)
<1> DEFINE x == Scripts[i].sites[k]
           old == IdealTree(u)[i - 1]
<1>1. i - 1 \in 0..28 OBVIOUS
<1>2. Sound(old, u) /\ Grew(Upstream(u), old) BY <1>1, IdealGrows
<1>3. x \in Sites /\ SiteOK(x) BY SitesAre, SitesOK
<1>4. \A e \in x.edits : e.text # "import_os" => Missing(e, x, old) BY NotYet
<1>5. Here(x, t) /\ Here(x, old) /\ Anchored(x, old) /\ ~x.creates /\ x.file # "vec_convert.h"
      OBVIOUS
<1>6. \A e \in x.edits : e.text = "import_os" /\ ~Missing(e, x, old)
                            => "stdlib_imports" \in Text(Upstream(u), x.file)
  <2> SUFFICES ASSUME NEW e \in x.edits, e.text = "import_os", ~Missing(e, x, old)
               PROVE  "stdlib_imports" \in Text(Upstream(u), x.file)
      OBVIOUS
  <2>1. Has(x, "import_os") BY DEF Has
  <2>2. "import_os" \in Text(old, x.file) BY DEF Missing
  <2> HIDE DEF x
  <2>3. <<x.file, "import_os">> \in Edited BY <1>3, <2>1, EditedAre
  <2> QED BY <1>1, <2>2, <2>3, IdealImport
<1> HIDE DEF x, old
<1>7. Text(t, x.file) = t[x.file] /\ Text(old, x.file) = old[x.file] BY <1>5 DEF Here, Text
<1>8. Still(t, u, x.file) BY <1>3, <1>5 DEF Clean, SiteOK, FileOK
<1>9. x.bars \cap t[x.file] = {}
  <2> SUFFICES ASSUME NEW z \in x.bars, z \in Text(t, x.file) PROVE FALSE
      BY <1>7
  <2>1. z \notin Names /\ Stays(z) BY <1>3 DEF SiteOK, TestsOK
  <2>2. z \in Text(Upstream(u), x.file) BY <2>1, FromUpstream
  <2>3. z \in Text(old, x.file) BY <1>2, <2>1, <2>2 DEF Grew
  <2> QED BY <1>5, <1>7, <2>3 DEF Anchored
<1>10. ASSUME NEW e \in x.edits, Missing(e, x, t) PROVE e.keeps \cup e.eats \subseteq t[x.file]
  <2>1. EditOK(e) BY <1>3 DEF SiteOK, EditsOK
  <2>2. CASE Missing(e, x, old)
    <3> SUFFICES ASSUME NEW a \in e.keeps \cup e.eats PROVE a \in Text(t, x.file)
        BY <1>7
    <3>1. a \in Text(old, x.file) BY <1>5, <1>7, <2>2 DEF Anchored
    <3>2. a \notin Names BY <2>1, NamesStay DEF EditOK, Stays
    <3>3. a \in Text(Upstream(u), x.file) BY <1>2, <3>1, <3>2, FromUpstream
    <3>4. a \in Text(t, x.file) \/ (~Stays(a) /\ Eater(a) \in Text(t, x.file))
          BY <1>8, <3>3 DEF Still
    <3>5. Stays(a) \/ Eater(a) = e.text BY <2>1 DEF EditOK
    <3> QED BY <1>10, <3>4, <3>5 DEF Missing
  <2>3. CASE ~Missing(e, x, old)
    <3>1. e.text = "import_os" BY <1>4, <2>3
    <3>2. "stdlib_imports" \in Text(Upstream(u), x.file) BY <1>6, <2>3, <3>1
    <3>3. e.keeps = {"stdlib_imports"} /\ e.eats = {} /\ Stays("stdlib_imports")
          BY <2>1, <3>1 DEF EditOK
    <3>4. "stdlib_imports" \in Text(t, x.file) BY <1>8, <3>2, <3>3 DEF Still
    <3> QED BY <1>7, <3>3, <3>4
  <2> QED BY <2>2, <2>3
<1>11. ASSUME NEW g \in x.guards PROVE g[2] \in Text(t, g[1])
  <2>1. g[2] \notin Names /\ Stays(g[2]) /\ g[1] \in {x.file} \cup ReadOnly
        BY <1>3 DEF SiteOK, TestsOK
  <2>2. g[2] \in Text(old, g[1]) BY <1>5 DEF Anchored
  <2>3. g[2] \in Text(Upstream(u), g[1]) BY <1>2, <2>1, <2>2, FromUpstream
  <2>4. Still(t, u, g[1])
    <3>1. \A f \in ReadOnly : f \notin NewFiles \cup {"vec_convert.h"}
          BY DEF ReadOnly, NewFiles
    <3> QED BY <1>8, <2>1, <3>1 DEF Clean
  <2> QED BY <2>1, <2>3, <2>4 DEF Still
<1>12. Anchored(x, t) BY <1>9, <1>10, <1>11 DEF Anchored
<1> QED BY <1>12 DEF x

LEMMA VecIs ==
    /\ P54VecConvert.again = Pass
    /\ \A t : Anchored(P54VecConvert, t)
<1>1. /\ P54VecConvert.edits = {Edit("54", {}, {})} /\ P54VecConvert.bars = {}
      /\ P54VecConvert.guards = {} /\ P54VecConvert.again = Pass
      BY DEF P54VecConvert, Site
<1>2. Edit("54", {}, {}).keeps = {} /\ Edit("54", {}, {}).eats = {} BY DEF Edit
<1> QED BY <1>1, <1>2 DEF Anchored

\* Where a site does not stop the uninterrupted run, it does not stop this one.
LEMMA SiteAgain ==
    ASSUME NEW u \in Trees, NEW i \in 1..28, NEW k \in DOMAIN Scripts[i].sites,
           NEW t, Sound(t, u), Clean(t, u),
           Answer(Scripts[i].sites[k], IdealTree(u)[i - 1], u) \in {Pass, Done}
    PROVE  LET x == Scripts[i].sites[k] IN
           /\ Answer(x, t, u) \in {Pass, Done}
           /\ Answer(x, IdealTree(u)[i - 1], u) = Done => Answer(x, t, u) = Done
<1> DEFINE x == Scripts[i].sites[k]
           old == IdealTree(u)[i - 1]
<1>1. i - 1 \in 0..28 OBVIOUS
<1>2. Sound(old, u) BY <1>1, IdealGrows
<1>3. x \in Sites /\ SiteOK(x) BY SitesAre, SitesOK
<1>4. /\ x.again \in {Pass, Done} /\ x.moved \in {Pass, Failed, Reaudit}
      /\ x.creates <=> x.file \in NewFiles
      /\ x.file = "vec_convert.h" => x = P54VecConvert
      BY <1>3 DEF SiteOK, AnswersOK, FileOK
<1>5. Pass # Done /\ Failed # Done /\ Reaudit # Done BY DEF Pass, Done, Failed, Reaudit
<1>6. Answer(x, old, u) \in {Pass, Done} OBVIOUS
<1>7. ~x.creates => Still(t, u, x.file) \/ x.file = "vec_convert.h" BY <1>4 DEF Clean
<1>8. ~x.creates /\ x.file # "vec_convert.h" /\ InPlace(x, old) => InPlace(x, t)
      BY <1>7, SameInPlace
<1>9. /\ ~x.creates /\ x.file # "vec_convert.h" /\ Here(x, t) /\ Here(x, old)
      /\ Anchored(x, old)
      => Anchored(x, t)
      BY SameAnchored
<1>10. ~x.creates /\ x.file # "vec_convert.h" /\ Known(x, old) => Known(x, t)
       BY <1>3, <1>7, SameKnown
<1> HIDE DEF x, old
<1>11. ~x.creates => (Here(x, t) <=> Here(x, old)) BY <1>2, <1>4 DEF Here, Sound
<1>12. \A w : ~Here(x, w) => ~InPlace(x, w) BY DEF InPlace
<1>13. Answer(x, t, u) \in {Pass, Done} /\ (Answer(x, old, u) = Done => Answer(x, t, u) = Done)
  <2>1. CASE ~Inside(x, u) BY <2>1 DEF Answer
  <2>2. CASE Inside(x, u) /\ x.creates BY <1>5, <2>2 DEF Answer
  <2>3. CASE Inside(x, u) /\ ~x.creates /\ ~Here(x, t)
    <3>1. Answer(x, t, u) = x.gone BY <1>12, <2>3 DEF Answer
    <3>2. Answer(x, old, u) = x.gone BY <1>11, <1>12, <2>3 DEF Answer
    <3> QED BY <1>6, <3>1, <3>2
  <2>4. CASE Inside(x, u) /\ ~x.creates /\ Here(x, t) /\ InPlace(x, t)
    <3>1. Answer(x, t, u) = x.again BY <2>4 DEF Answer
    <3>2. CASE InPlace(x, old)
      <4>1. Answer(x, old, u) = x.again BY <1>11, <2>4, <3>2 DEF Answer
      <4> QED BY <1>4, <3>1, <4>1
    <3>3. CASE ~InPlace(x, old)
      <4>1. Answer(x, old, u) \in {Pass, x.moved} BY <1>11, <2>4, <3>3 DEF Answer
      <4> QED BY <1>4, <1>5, <3>1, <4>1
    <3> QED BY <3>2, <3>3
  <2>5. CASE Inside(x, u) /\ ~x.creates /\ Here(x, t) /\ ~InPlace(x, t)
    <3>1. Answer(x, t, u) = IF Known(x, t) \/ Anchored(x, t) THEN Pass ELSE x.moved
          BY <2>5 DEF Answer
    <3>2. CASE x.file = "vec_convert.h"
      <4>1. Answer(x, t, u) = Pass BY <1>4, <3>1, <3>2, VecIs
      <4>2. Answer(x, old, u) # Done
        <5>1. x.again = Pass /\ Anchored(x, old) BY <1>4, <3>2, VecIs
        <5>2. CASE InPlace(x, old)
          <6>1. Answer(x, old, u) = x.again BY <1>11, <2>5, <5>2 DEF Answer
          <6> QED BY <1>5, <5>1, <6>1
        <5>3. CASE ~InPlace(x, old)
          <6>1. Answer(x, old, u) = Pass BY <1>11, <2>5, <5>1, <5>3 DEF Answer
          <6> QED BY <1>5, <6>1
        <5> QED BY <5>2, <5>3
      <4> QED BY <4>1, <4>2
    <3>3. CASE x.file # "vec_convert.h"
      <4>1. ~InPlace(x, old) BY <1>8, <2>5, <3>3
      <4>2. Answer(x, old, u) = IF Known(x, old) \/ Anchored(x, old) THEN Pass ELSE x.moved
            BY <1>11, <2>5, <4>1 DEF Answer
      <4>3. CASE Known(x, old) \/ Anchored(x, old)
        <5>1. Known(x, t) \/ Anchored(x, t) BY <1>9, <1>10, <1>11, <2>5, <3>3, <4>3
        <5> QED BY <1>5, <3>1, <4>2, <4>3, <5>1
      <4>4. CASE ~(Known(x, old) \/ Anchored(x, old))
        <5>1. x.moved = Pass BY <1>4, <1>5, <1>6, <4>2, <4>4
        <5> QED BY <1>5, <3>1, <4>2, <4>4, <5>1
      <4> QED BY <4>3, <4>4
    <3> QED BY <3>2, <3>3
  <2> QED BY <2>1, <2>2, <2>3, <2>4, <2>5
<1> QED BY <1>13 DEF x, old

\* Where a script does not fail the uninterrupted run, it does not fail this one.
LEMMA CodeAgain ==
    ASSUME NEW u \in Trees, NEW i \in 1..28, NEW t, Sound(t, u), Clean(t, u),
           Code(Scripts[i], IdealTree(u)[i - 1], u) = Done
    PROVE  Code(Scripts[i], t, u) = Done
<1> DEFINE s == Scripts[i]
           old == IdealTree(u)[i - 1]
           stop == Stop(s, t, u)
           oldStop == Stop(s, old, u)
<1>1. i - 1 \in 0..28 OBVIOUS
<1>2. Sound(old, u) /\ Grew(Upstream(u), old) BY <1>1, IdealGrows
<1>3. ScriptOK(s, i) BY AllOK
<1>4. Pass # Done /\ Failed # Done /\ Reaudit # Done BY DEF Pass, Done, Failed, Reaudit
<1>5. Code(s, old, u) = Done OBVIOUS
<1>6. \A k \in DOMAIN s.sites :
          Answer(s.sites[k], old, u) \in {Pass, Done} =>
             /\ Answer(s.sites[k], t, u) \in {Pass, Done}
             /\ Answer(s.sites[k], old, u) = Done => Answer(s.sites[k], t, u) = Done
      BY SiteAgain
<1> HIDE DEF s, old
<1>7. Len(s.sites) \in Nat /\ DOMAIN s.sites = 1..Len(s.sites) /\ 0 \notin DOMAIN s.sites
      BY <1>3, Places
<1>8. ~Lacking(s, old)
  <2>1. Lacking(s, old) => oldStop = 0 BY DEF Stop
  <2>2. oldStop = 0 => Code(s, old, u) = Reaudit BY <1>7 DEF Code
  <2> QED BY <1>4, <1>5, <2>1, <2>2
<1>9. ~Lacking(s, t) BY <1>2, <1>3, <1>8 DEF Lacking, Sound, ScriptOK
<1>10. /\ Passed(s, t, u, stop)
       /\ \/ /\ stop \in DOMAIN s.sites /\ Answer(s.sites[stop], t, u) # Pass
             /\ Code(s, t, u) = Answer(s.sites[stop], t, u)
          \/ /\ stop = Len(s.sites) + 1
             /\ Code(s, t, u) = IF \E r \in s.refuses : r[2] \in Text(t, r[1])
                                THEN Failed ELSE Done
       BY <1>3, <1>9, Stops
<1>11. /\ Passed(s, old, u, oldStop)
       /\ \/ /\ oldStop \in DOMAIN s.sites /\ Answer(s.sites[oldStop], old, u) # Pass
             /\ Code(s, old, u) = Answer(s.sites[oldStop], old, u)
          \/ /\ oldStop = Len(s.sites) + 1
             /\ Code(s, old, u) = IF \E r \in s.refuses : r[2] \in Text(old, r[1])
                                  THEN Failed ELSE Done
       BY <1>3, <1>8, Stops
<1> HIDE DEF stop, oldStop
<1>12. ~(oldStop < stop)
  <2> SUFFICES ASSUME oldStop < stop PROVE FALSE
      OBVIOUS
  <2>1. oldStop \in DOMAIN s.sites BY <1>7, <1>10, <1>11
  <2>2. Answer(s.sites[oldStop], old, u) = Done BY <1>5, <1>7, <1>11, <2>1
  <2>3. Answer(s.sites[oldStop], t, u) = Done BY <1>6, <2>1, <2>2
  <2>4. Answer(s.sites[oldStop], t, u) = Pass BY <1>10, <2>1 DEF Passed
  <2> QED BY <1>4, <2>3, <2>4
<1>13. CASE stop \in DOMAIN s.sites
  <2>1. Answer(s.sites[stop], old, u) \in {Pass, Done}
    <3>1. CASE stop < oldStop BY <1>11, <1>13, <3>1 DEF Passed
    <3>2. CASE stop = oldStop BY <1>5, <1>7, <1>11, <1>13, <3>2
    <3> QED BY <1>7, <1>10, <1>11, <1>12, <3>1, <3>2
  <2>2. Answer(s.sites[stop], t, u) \in {Pass, Done} BY <1>6, <1>13, <2>1
  <2>3. Code(s, t, u) = Done BY <1>7, <1>10, <1>13, <2>2
  <2> QED BY <2>3 DEF s
<1>14. CASE stop = Len(s.sites) + 1
  <2>1. oldStop = Len(s.sites) + 1 BY <1>7, <1>11, <1>12, <1>14
  <2>2. \A r \in s.refuses : r[2] \notin Text(old, r[1])
        BY <1>4, <1>5, <1>7, <1>11, <2>1
  <2>3. ASSUME NEW r \in s.refuses, r[2] \in Text(t, r[1]) PROVE FALSE
    <3>1. Stays(r[2]) /\ r[2] \notin Names BY <1>3 DEF ScriptOK
    <3>2. r[2] \in Text(Upstream(u), r[1]) BY <2>3, <3>1, FromUpstream
    <3>3. r[2] \in Text(old, r[1]) BY <1>2, <3>1, <3>2 DEF Grew
    <3> QED BY <2>2, <3>3
  <2>4. Code(s, t, u) = Done BY <1>7, <1>10, <1>14, <2>3
  <2> QED BY <2>4 DEF s
<1> QED BY <1>10, <1>13, <1>14

\* The scripts whose markers are looked for.
MarkedScripts == EXPECTED \cup {30, 58, 63, 73}

LEMMA MarkerScripts ==
    ASSUME NEW n \in MarkedScripts
    PROVE  \E i \in 1..28 : i \notin {11, 24} /\ ScriptOf(n) = Scripts[i]
<1>1. \E i \in 1..28 : Scripts[i].n = n
  <2>1. CASE n \in {10, 20, 30, 40, 51, 52, 53, 54, 56, 58}
    <3>1. /\ Scripts[1].n = 10 /\ Scripts[2].n = 20 /\ Scripts[3].n = 30 /\ Scripts[4].n = 40
          /\ Scripts[6].n = 51 /\ Scripts[7].n = 52 /\ Scripts[8].n = 53 /\ Scripts[9].n = 54
          /\ Scripts[10].n = 56 /\ Scripts[12].n = 58
          BY ScriptsAre, Numbers, P10Checks, P20Checks, P30Checks, P40Checks,
             P51Checks, P52Checks, P53Checks, P56Checks, P58Checks
    <3> QED BY <2>1, <3>1
  <2>2. CASE n \in {59, 60, 63, 64, 65, 66, 67, 68, 69, 73}
    <3>1. /\ Scripts[13].n = 59 /\ Scripts[14].n = 60 /\ Scripts[17].n = 63
          /\ Scripts[18].n = 64 /\ Scripts[19].n = 65 /\ Scripts[20].n = 66
          /\ Scripts[21].n = 67 /\ Scripts[22].n = 68 /\ Scripts[23].n = 69
          /\ Scripts[25].n = 73
          BY ScriptsAre, P59Checks, P60Checks, P63Checks, P64Checks, P65Checks,
             P66Checks, P67Checks, P68Checks, P69Checks, P73Checks
    <3> QED BY <2>2, <3>1
  <2> QED BY <2>1, <2>2 DEF MarkedScripts, EXPECTED
<1>2. DOMAIN Scripts = 1..28 BY ScriptsAre
<1>3. \E s \in {Scripts[i] : i \in DOMAIN Scripts} : s.n = n BY <1>1, <1>2
<1>4. ScriptOf(n) \in {Scripts[i] : i \in DOMAIN Scripts} /\ ScriptOf(n).n = n
      BY <1>3 DEF ScriptOf
<1>5. PICK i \in 1..28 : ScriptOf(n) = Scripts[i] BY <1>2, <1>4
<1>6. Scripts[11].n = 57 /\ Scripts[24].n = 72 BY ScriptsAre, P57Checks, Numbers
<1>7. n \notin {57, 72} BY DEF MarkedScripts, EXPECTED
<1> QED BY <1>4, <1>5, <1>6, <1>7

\* Patch 57 replaces the table that its port is recognised by.
Ported(t) == "57" \in Text(t, "ple_layer.py") =>
                 "VocabParallelEmbedding" \notin Text(t, "ple_layer.py")

LEMMA PleIs ==
    /\ P57Ple \in Sites /\ P57Ple.file = "ple_layer.py" /\ P57Ple.known = {}
    /\ \A e \in P57Ple.edits : e.text = "57" /\ "VocabParallelEmbedding" \in e.eats
<1>1. P57.sites[1] = P57Ple /\ 1 \in DOMAIN P57.sites BY DEF P57, Script
<1>2. P57Ple \in Sites BY <1>1, ScriptsAre, SitesAre
<1>3. P57Ple.edits = {Edit("57", P57Table \cup {"static_forward_context"},
                           P57Calls \cup {"return_loaded"})}
      BY DEF P57Ple, Site
<1>4. \A text, keeps, eats : Edit(text, keeps, eats).text = text /\ Edit(text, keeps, eats).eats = eats
      BY DEF Edit
<1>5. "VocabParallelEmbedding" \in P57Calls \cup {"return_loaded"} BY DEF P57Calls
<1>6. P57Ple.file = "ple_layer.py" /\ P57Ple.known = {} BY DEF P57Ple, Site
<1> QED BY <1>2, <1>3, <1>4, <1>5, <1>6

LEMMA PortedStays ==
    ASSUME NEW i \in 1..28, NEW t, NEW u, NEW some \in SUBSET Work(Scripts[i], t, u), Ported(t)
    PROVE  Ported(After(Scripts[i], some, t))
<1> DEFINE s == Scripts[i]
           new == After(s, some, t)
           f == "ple_layer.py"
           v == "VocabParallelEmbedding"
<1>1. ScriptOK(s, i) BY AllOK
<1>2. \A k \in DOMAIN s.sites : s.sites[k] \in Sites BY SitesAre
<1> HIDE DEF s
<1>3. some \subseteq DOMAIN s.sites BY <1>1, WorkIs DEF s
<1>4. f \in FilesOf(s, some) => \E k \in some : s.sites[k].file = f BY DEF FilesOf
<1>5. CASE f \notin FilesOf(s, some)
  <2>1. Text(new, f) = Text(t, f) BY <1>1, <1>3, <1>5, AfterIs
  <2> QED BY <2>1 DEF Ported, s
<1>6. CASE f \in FilesOf(s, some)
  <2>1. PICK k \in some : s.sites[k].file = f BY <1>4, <1>6
  <2>2. Text(new, f) = Written(s.sites[k], t) BY <1>1, <1>3, <2>1, AfterIs
  <2>3. s.sites[k] = P57Ple BY <1>2, <1>3, <2>1, SitesOK DEF SiteOK, FileOK
  <2>4. Writes(P57Ple, t, u) BY <1>1, <2>3, WorkIs DEF s
  <2>5. ~Known(P57Ple, t) BY PleIs DEF Known
  <2> DEFINE fresh == {e \in P57Ple.edits : Missing(e, P57Ple, t)}
  <2>6. Here(P57Ple, t)
    <3>1. ~P57Ple.creates BY PleIs, SitesOK DEF SiteOK, FileOK, NewFiles
    <3> QED BY <2>4, <3>1 DEF Writes
  <2>7. PICK e \in P57Ple.edits : Missing(e, P57Ple, t) BY <2>4, <2>6 DEF Writes, InPlace
  <2>8. e \in fresh /\ v \in e.eats BY <2>7, PleIs
  <2>9. v \in UNION {d.eats : d \in fresh} BY <2>8
  <2>10. \A d \in fresh : d.text = "57" BY PleIs
  <2>11. Written(P57Ple, t)
            = (Text(t, f) \ UNION {d.eats : d \in fresh}) \cup {d.text : d \in fresh}
         BY <2>5, PleIs DEF Written
  <2> HIDE DEF fresh
  <2>12. v \notin {d.text : d \in fresh} BY <2>10
  <2>13. v \notin Text(new, f) BY <2>2, <2>3, <2>9, <2>11, <2>12
  <2> QED BY <2>13 DEF Ported, s
<1> QED BY <1>5, <1>6

LEMMA VerifiedAgain ==
    ASSUME NEW u \in Trees, NEW t, Sound(t, u), Ported(t),
           \A x \in Sites : Excused(x) \/ Settled(x, t, u), Verified(IdealEnd(u), u)
    PROVE  Verified(t, u)
<1> DEFINE end == IdealEnd(u)
<1>1. end = IdealTree(u)[28] BY ScriptsAre DEF IdealEnd
<1>2. Sound(end, u) /\ Grew(Upstream(u), end) BY <1>1, IdealGrows
<1>3. Verified(end, u) OBVIOUS
<1>4. \A f, y : <<f, y>> \in Edited \ PassedOver /\ y \in Text(end, f) => y \in Text(t, f)
      BY SettledLands
<1> HIDE DEF end
<1>5. CONDITIONAL(t, u) = CONDITIONAL(end, u)
  <2>1. "requirements" \in DOMAIN t <=> "requirements" \in DOMAIN end
        BY <1>2 DEF Sound, NewFiles
  <2> QED BY <2>1 DEF CONDITIONAL
<1>6. EXPECTED \cup CONDITIONAL(t, u) \subseteq MarkedScripts
      BY DEF CONDITIONAL, MarkedScripts
<1>7. ASSUME NEW n \in EXPECTED \cup CONDITIONAL(t, u) PROVE Marked(n, t)
  <2>1. Marked(n, end) BY <1>3, <1>5 DEF Verified
  <2>2. PICK i \in 1..28 : i \notin {11, 24} /\ ScriptOf(n) = Scripts[i]
        BY <1>6, MarkerScripts
  <2> DEFINE s == Scripts[i]
  <2>3. ScriptOK(s, i) /\ \A k \in DOMAIN s.sites : s.sites[k] \in Sites BY AllOK, SitesAre
  <2> HIDE DEF s
  <2>4. ScriptOf(n) = s BY <2>2 DEF s
  <2>5. PICK k \in DOMAIN s.sites : \E e \in s.sites[k].edits :
            e.marks /\ e.text \in Text(end, s.sites[k].file)
        BY <2>1, <2>4 DEF Marked
  <2>6. PICK e \in s.sites[k].edits : e.marks /\ e.text \in Text(end, s.sites[k].file)
        BY <2>5
  <2>7. Has(s.sites[k], e.text) BY DEF Has
  <2>8. <<s.sites[k].file, e.text>> \in Edited BY <2>3, <2>7, EditedAre
  <2>9. Writer(e.text) \in {0, i} BY <2>3 DEF ScriptOK
  <2>10. Writer("57") = 11 /\ Writer("72") = 24 BY DEF Writer
  <2>11. e.text \notin {"57", "72"} BY <2>2, <2>9, <2>10
  <2>12. <<s.sites[k].file, e.text>> \notin PassedOver BY <2>11 DEF PassedOver
  <2>13. e.text \in Text(t, s.sites[k].file) BY <1>4, <2>6, <2>8, <2>12
  <2> QED BY <2>4, <2>6, <2>13 DEF Marked
<1>8. ~Unported(t)
  <2> DEFINE f == "ple_layer.py"
             v == "VocabParallelEmbedding"
  <2> SUFFICES ASSUME v \in Text(t, f) PROVE FALSE
      BY DEF Unported
  <2>1. v \notin Names /\ Eater(v) = "57" BY DEF Names, Eater
  <2>2. v \in Text(Upstream(u), f) BY <2>1, FromUpstream
  <2>3. v \notin Text(end, f) BY <1>3 DEF Verified, Unported
  <2>4. "57" \in Text(end, f) BY <1>2, <2>1, <2>2, <2>3 DEF Grew
  <2>5. <<f, "57">> \in Edited
    <3>1. PICK e \in P57Ple.edits : TRUE BY PleIs, SitesOK DEF SiteOK, EditsOK
    <3>2. Has(P57Ple, "57") BY <3>1, PleIs DEF Has
    <3> QED BY <3>2, PleIs, EditedAre
  <2>6. <<f, "57">> \notin PassedOver BY DEF PassedOver
  <2>7. "57" \in Text(t, f) BY <1>4, <2>4, <2>5, <2>6
  <2> QED BY <2>7 DEF Ported
<1> QED BY <1>7, <1>8 DEF Verified
-----------------------------------------------------------------------------
(***************************************************************************)
(* The invariant behind Resumable.                                         *)
(***************************************************************************)
\* A file that a kill has cut short has nothing in it, and no script but 54
\* writes to such a file again; every other still has what upstream has.
TornOnes == \A f \in torn : Text(tree, f) = {} /\ \E x \in Sites : f = x.file
OthersStill == \A f : f \notin torn \cup {"vec_convert.h"} => Still(tree, up, f)

ResumeInv == TornOnes /\ OthersStill /\ Ported(tree) /\ Resumable

LEMMA TornUnwritten ==
    ASSUME NEW x \in Sites, NEW t, NEW u, Text(t, x.file) = {}, ~x.creates, Writes(x, t, u)
    PROVE  x.file = "vec_convert.h"
<1>1. SiteOK(x) BY SitesOK
<1>2. Here(x, t) BY DEF Writes
<1>3. t[x.file] = {} BY <1>2 DEF Here, Text
<1>4. ~Known(x, t) BY DEF Known
<1>5. Anchored(x, t) BY <1>4 DEF Writes
<1>6. \A e \in x.edits : Missing(e, x, t) BY DEF Missing
<1>7. \A e \in x.edits : e.keeps \cup e.eats = {} BY <1>3, <1>5, <1>6 DEF Anchored
<1> QED BY <1>1, <1>7 DEF SiteOK, FileOK

\* An interrupted run is only in the way of another by a file that it cut short.
LEMMA CleanNow ==
    ASSUME LayerInv, ResumeInv,
           torn \cap {s.file : s \in {x \in Sites : ~x.creates}} \subseteq {"vec_convert.h"}
    PROVE  Clean(tree, up)
<1>1. \A f \in torn : f \in NewFiles \cup {"vec_convert.h"}
  <2> SUFFICES ASSUME NEW f \in torn, f \notin NewFiles PROVE f = "vec_convert.h"
      OBVIOUS
  <2>1. PICK x \in Sites : f = x.file BY DEF ResumeInv, TornOnes
  <2>2. ~x.creates BY <2>1, SitesOK DEF SiteOK, FileOK
  <2> QED BY <2>1, <2>2
<1> QED BY <1>1 DEF ResumeInv, OthersStill, Clean

LEMMA IdealFails == \A u \in Trees : u.builder => ~IdealPasses(u)
<1> SUFFICES ASSUME NEW u \in Trees, u.builder, IdealPasses(u) PROVE FALSE
    OBVIOUS
<1>1. 23 \in 0..28 /\ 24 - 1 = 23 OBVIOUS
<1>2. Sound(IdealTree(u)[23], u) BY <1>1, IdealGrows
<1>3. "site-packages/vllm" \notin u.packages BY TreesAssumption
<1>4. Code(P72, IdealTree(u)[23], u) # Done BY <1>2, <1>3, NotInstalled
<1>5. Scripts[24] = P72 /\ 24 \in DOMAIN Scripts BY ScriptsAre
<1>6. Code(Scripts[24], IdealTree(u)[24 - 1], u) = Done BY <1>5 DEF IdealPasses
<1> QED BY <1>1, <1>4, <1>5, <1>6

LEMMA UpstreamPorted == \A u \in Trees : Ported(Upstream(u))
<1>1. PICK e \in P57Ple.edits : TRUE BY PleIs, SitesOK DEF SiteOK, EditsOK
<1>2. Has(P57Ple, "57") BY <1>1, PleIs DEF Has
<1>3. <<"ple_layer.py", "57">> \in Edited BY <1>2, PleIs, EditedAre
<1> QED BY <1>3, UpstreamIs DEF Ported

LEMMA InitResume == LayerInit => ResumeInv
<1> SUFFICES ASSUME LayerInit PROVE ResumeInv
    OBVIOUS
<1>1. up \in Trees /\ tree = Upstream(up) /\ torn = {} /\ last = "" BY DEF LayerInit
<1>2. OthersStill BY <1>1 DEF OthersStill, Still
<1>3. Ported(tree) BY <1>1, UpstreamPorted
<1>4. Resumable BY <1>1 DEF Resumable
<1> QED BY <1>1, <1>2, <1>3, <1>4 DEF ResumeInv, TornOnes

LEMMA BeginResume == LayerInv /\ ResumeInv /\ (\E m \in {"apply", "check"} : Begin(m)) => ResumeInv'
<1> SUFFICES ASSUME LayerInv, ResumeInv, NEW m \in {"apply", "check"}, Begin(m) PROVE ResumeInv'
    OBVIOUS
<1>1. /\ run' = m /\ up' = up
      /\ (up.builder => tree' = Upstream(up) /\ torn' = {})
      /\ (~up.builder => tree' = tree /\ torn' = torn)
      BY DEF Begin
<1>2. Resumable' BY <1>1 DEF Resumable
<1>3. CASE up.builder
  <2>1. OthersStill' BY <1>1, <1>3 DEF OthersStill, Still
  <2>2. Ported(tree)' BY <1>1, <1>3, UpstreamPorted DEF LayerInv, LayerType
  <2> QED BY <1>1, <1>2, <1>3, <2>1, <2>2 DEF ResumeInv, TornOnes
<1>4. CASE ~up.builder
  <2>1. TornOnes' /\ OthersStill' BY <1>1, <1>4 DEF ResumeInv, TornOnes, OthersStill
  <2> QED BY <1>1, <1>2, <1>4, <2>1 DEF ResumeInv
<1> QED BY <1>3, <1>4

\* What is still there after some of the sites have been written.
LEMMA StillThere ==
    ASSUME LayerInv, ResumeInv, at \in 1..28, NEW some \in SUBSET Work(Scripts[at], tree, up)
    PROVE  LET mid == After(Scripts[at], some, tree)
               left == torn \ FilesOf(Scripts[at], some)
           IN  /\ \A f \in left : Text(mid, f) = {}
               /\ \A f : f \notin left \cup {"vec_convert.h"} => Still(mid, up, f)
               /\ \A f \in torn \ left : f \in NewFiles \cup {"vec_convert.h"}
<1> DEFINE s == Scripts[at]
           mid == After(s, some, tree)
           left == torn \ FilesOf(s, some)
<1>1. ScriptOK(s, at) BY AllOK
<1>2. Grew(tree, mid) BY AfterGrows
<1>3. \A k \in DOMAIN s.sites : s.sites[k] \in Sites BY SitesAre
<1> HIDE DEF s
<1>4. some \subseteq DOMAIN s.sites BY <1>1, WorkIs DEF s
<1>5. TornOnes /\ OthersStill /\ up \in Trees BY DEF ResumeInv, LayerInv, LayerType
<1>6. ASSUME NEW f \in left PROVE Text(mid, f) = {}
  <2>1. Text(mid, f) = Text(tree, f) BY <1>1, <1>4, <1>6, AfterIs
  <2> QED BY <1>5, <1>6, <2>1 DEF TornOnes
<1>7. ASSUME NEW f \in torn, f \in FilesOf(s, some) PROVE f \in NewFiles \cup {"vec_convert.h"}
  <2>1. PICK k \in some : s.sites[k].file = f BY <1>7 DEF FilesOf
  <2>2. Writes(s.sites[k], tree, up) BY <1>1, WorkIs DEF s
  <2>3. Text(tree, f) = {} BY <1>5, <1>7 DEF TornOnes
  <2>4. s.sites[k] \in Sites BY <1>3, <1>4
  <2>5. s.sites[k].creates => f \in NewFiles BY <2>1, <2>4, SitesOK DEF SiteOK, FileOK
  <2> QED BY <2>1, <2>2, <2>3, <2>4, <2>5, TornUnwritten
<1>8. ASSUME NEW f, f \notin left \cup {"vec_convert.h"} PROVE Still(mid, up, f)
  <2>1. CASE f \in NewFiles
    <3>1. Text(Upstream(up), f) = {} BY <1>5, <2>1, UpstreamIs DEF Text
    <3> QED BY <3>1 DEF Still
  <2>2. CASE f \notin NewFiles
    <3>1. f \notin torn BY <1>7, <1>8, <2>2
    <3>2. Still(tree, up, f) BY <1>5, <1>8, <3>1 DEF OthersStill
    <3>3. \A y : ~Stays(y) => Stays(Eater(y)) BY NamesEnough, NamesStay DEF Stays
    <3> HIDE DEF mid
    <3> QED BY <1>2, <3>2, <3>3 DEF Grew, Still
  <2> QED BY <2>1, <2>2
<1> QED BY <1>6, <1>7, <1>8 DEF s

LEMMA RunScriptResume == LayerInv /\ ResumeInv /\ RunScript => ResumeInv'
<1> SUFFICES ASSUME LayerInv, ResumeInv, RunScript PROVE ResumeInv'
    OBVIOUS
<1> DEFINE s == Scripts[at]
           work == Work(s, tree, up)
           code == IF Edits(s) THEN Code(s, tree, up) ELSE CheckCode(s, tree, up)
<1>1. /\ run \in {"apply", "check"} /\ at \in 1..28 /\ up' = up /\ mode' = mode
      /\ (Edits(s) => tree' = Applied(s, tree, up) /\ torn' = torn \ FilesOf(s, work))
      /\ (~Edits(s) => tree' = tree /\ torn' = torn)
      /\ (code = Done => run' = run)
      /\ (code # Done => run' = (IF up.builder THEN "verify" ELSE "idle"))
      BY ScriptsAre DEF RunScript
<1>2. /\ TornOnes' /\ OthersStill' /\ Ported(tree)'
      /\ \A f \in torn \ torn' : f \in NewFiles \cup {"vec_convert.h"}
  <2>1. CASE Edits(s)
    <3> DEFINE mid == After(s, work, tree)
               left == torn \ FilesOf(s, work)
    <3>1. /\ \A f \in left : Text(mid, f) = {}
          /\ \A f : f \notin left \cup {"vec_convert.h"} => Still(mid, up, f)
          /\ \A f \in torn \ left : f \in NewFiles \cup {"vec_convert.h"}
          BY <1>1, StillThere
    <3>2. Ported(mid) BY <1>1, PortedStays DEF ResumeInv
    <3>3. tree' = mid /\ torn' = left BY <1>1, <2>1 DEF Applied
    <3> HIDE DEF mid, left
    <3>4. left \subseteq torn BY DEF left
    <3>5. TornOnes' BY <3>1, <3>3, <3>4 DEF ResumeInv, TornOnes
    <3>6. OthersStill' BY <1>1, <3>1, <3>3 DEF OthersStill
    <3> QED BY <3>1, <3>2, <3>3, <3>5, <3>6
  <2>2. CASE ~Edits(s) BY <1>1, <2>2 DEF ResumeInv, TornOnes, OthersStill
  <2> QED BY <2>1, <2>2
<1>3. Resumable'
  <2> SUFFICES ASSUME run' = "idle", mode' = "apply", IdealPasses(up),
                      torn' \cap {x.file : x \in {y \in Sites : ~y.creates}} = {}
               PROVE  FALSE
      BY <1>1 DEF Resumable
  <2>1. run = "apply" BY <1>1 DEF LayerInv, LayerType
  <2>2. code # Done /\ ~up.builder BY <1>1, <2>1
  <2>3. code = Code(s, tree, up) BY <2>1 DEF Edits
  <2>4. torn \cap {x.file : x \in {y \in Sites : ~y.creates}} \subseteq {"vec_convert.h"}
    <3>1. \A x \in Sites : ~x.creates => x.file \notin NewFiles
          BY SitesOK DEF SiteOK, FileOK
    <3> QED BY <1>2, <3>1
  <2>5. Clean(tree, up) BY <2>4, CleanNow
  <2>6. Sound(tree, up) /\ up \in Trees BY DEF LayerInv, LayerType
  <2>7. Code(s, IdealTree(up)[at - 1], up) = Done BY <1>1, ScriptsAre DEF IdealPasses
  <2>8. Code(s, tree, up) = Done BY <1>1, <2>5, <2>6, <2>7, CodeAgain
  <2> QED BY <2>2, <2>3, <2>8
<1> QED BY <1>2, <1>3 DEF ResumeInv

LEMMA VerifyResume == LayerInv /\ ResumeInv /\ Verify => ResumeInv'
<1> SUFFICES ASSUME LayerInv, ResumeInv, Verify PROVE ResumeInv'
    OBVIOUS
<1>1. /\ run = "verify" /\ up' = up /\ tree' = tree /\ torn' = torn
      /\ last' = (IF Verified(tree, up) THEN "ok" ELSE "failed")
      BY DEF Verify
<1>2. Resumable'
  <2> SUFFICES ASSUME last' = "failed", IdealPasses(up) PROVE FALSE
      BY <1>1 DEF Resumable
  <2>1. up \in Trees /\ Sound(tree, up) /\ Ported(tree)
        BY DEF LayerInv, LayerType, ResumeInv
  <2>2. ~up.builder BY <2>1, IdealFails
  <2>3. \A x \in Sites : Excused(x) \/ Settled(x, tree, up) BY <1>1, <2>2, AllSettled
  <2>4. Verified(IdealEnd(up), up) BY DEF IdealPasses, IdealEnd
  <2>5. Verified(tree, up) BY <2>1, <2>3, <2>4, VerifiedAgain
  <2> QED BY <1>1, <2>5
<1> QED BY <1>1, <1>2 DEF ResumeInv, TornOnes, OthersStill

LEMMA KillResume == LayerInv /\ ResumeInv /\ Kill => ResumeInv'
<1> SUFFICES ASSUME LayerInv, ResumeInv, Kill PROVE ResumeInv'
    OBVIOUS
<1> DEFINE s == Scripts[at]
           work == IF Edits(s) THEN Work(s, tree, up) ELSE {}
<1>1. at \in 1..28 /\ last' = "killed" /\ up' = up BY ScriptsAre DEF Kill
<1>2. \E n \in 0..Len(s.sites) : \E cut \in SUBSET work :
          /\ tree' = Cut(After(s, work \cap 1..n, tree), FilesOf(s, cut))
          /\ torn' = (torn \ FilesOf(s, work \cap 1..n)) \cup FilesOf(s, cut)
      BY DEF Kill, Cut
<1>3. PICK n \in 0..Len(s.sites), cut \in SUBSET work :
          /\ tree' = Cut(After(s, work \cap 1..n, tree), FilesOf(s, cut))
          /\ torn' = (torn \ FilesOf(s, work \cap 1..n)) \cup FilesOf(s, cut)
      BY <1>2
<1> DEFINE some == work \cap 1..n
           mid == After(s, some, tree)
           left == torn \ FilesOf(s, some)
           empty == FilesOf(s, cut)
<1>4. some \in SUBSET Work(s, tree, up) /\ cut \in SUBSET Work(s, tree, up) OBVIOUS
<1>5. \A k \in DOMAIN s.sites : s.sites[k] \in Sites BY <1>1, SitesAre
<1>6. ScriptOK(s, at) BY <1>1, AllOK
<1>12. tree' = Cut(mid, empty) /\ torn' = left \cup empty BY <1>3
<1> HIDE DEF some
<1>7. /\ \A f \in left : Text(mid, f) = {}
      /\ \A f : f \notin left \cup {"vec_convert.h"} => Still(mid, up, f)
      BY <1>1, <1>4, StillThere
<1>8. Ported(mid) BY <1>1, <1>4, PortedStays DEF ResumeInv
<1>9. \A f \in empty : \E x \in Sites : f = x.file
  <2> HIDE DEF s
  <2>1. cut \subseteq DOMAIN s.sites BY <1>4, <1>6, WorkIs DEF s
  <2> QED BY <1>5, <2>1 DEF FilesOf
<1>10. \A f \in left : f \in torn OBVIOUS
<1> HIDE DEF mid, left, empty
<1>11. TornOnes'
  <2> SUFFICES ASSUME NEW f \in left \cup empty
               PROVE  Text(Cut(mid, empty), f) = {} /\ \E x \in Sites : f = x.file
      BY <1>12 DEF TornOnes
  <2>1. Text(Cut(mid, empty), f) = {} BY <1>7, CutIs
  <2>2. \E x \in Sites : f = x.file BY <1>9, <1>10 DEF ResumeInv, TornOnes
  <2> QED BY <2>1, <2>2
<1>13. OthersStill'
  <2> SUFFICES ASSUME NEW f, f \notin (left \cup empty) \cup {"vec_convert.h"}
               PROVE  Still(Cut(mid, empty), up, f)
      BY <1>1, <1>12 DEF OthersStill
  <2>1. Text(Cut(mid, empty), f) = Text(mid, f) BY CutIs
  <2> QED BY <1>7, <2>1 DEF Still
<1>14. Ported(tree)'
  <2>1. \A f : \A y \in Text(Cut(mid, empty), f) : y \in Text(mid, f) BY CutIs
  <2> QED BY <1>8, <1>12, <2>1 DEF Ported
<1>15. Resumable' BY <1>1 DEF Resumable
<1> QED BY <1>11, <1>13, <1>14, <1>15 DEF ResumeInv

LEMMA ResumeInvHolds == LayerSpec => [](LayerInv /\ ResumeInv)
<1> DEFINE Inv == LayerInv /\ ResumeInv
<1>1. Inv /\ [LayerNext]_layerVars => ResumeInv'
  <2>1. Inv /\ UNCHANGED layerVars => ResumeInv'
        BY DEF ResumeInv, TornOnes, OthersStill, Resumable, layerVars
  <2>2. Inv /\ AllRun => ResumeInv'
        BY DEF AllRun, ResumeInv, TornOnes, OthersStill, Resumable
  <2> QED
        BY <2>1, <2>2, BeginResume, RunScriptResume, VerifyResume, KillResume DEF LayerNext
<1>2. LayerInit => ResumeInv BY InitResume
<1> QED BY <1>1, <1>2, LayerInvHolds, PTL DEF LayerSpec

\* Killing apply_all.sh does not stand in the way of running it again: a run
\* that fails does so because an uninterrupted one would, or because a kill has
\* cut a file short that only upstream has.
THEOREM ResumableHolds == LayerSpec => []Resumable
<1>1. LayerInv /\ ResumeInv => Resumable BY DEF ResumeInv
<1> QED BY <1>1, ResumeInvHolds, PTL
=============================================================================
