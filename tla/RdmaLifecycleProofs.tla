------------------------ MODULE RdmaLifecycleProofs ------------------------
(***************************************************************************)
(* Proofs about RdmaLifecycle, for any ranks and any processes that share  *)
(* the address of the master.                                              *)
(*                                                                         *)
(* A process is named by its run and its rank, so the checks of a table    *)
(* leave one possible table for each run: whoever connects has that one.   *)
(* The barrier then carries from rank to rank that all are connected.      *)
(***************************************************************************)
EXTENDS RdmaLifecycle, TLAPS

States == Creating \union {"ready", "retained", "gone"}

\* Steps of a process with connected queue pairs.
After == {"barrier", "release", "check", "ready"}

\* Every rank of the run of p is connected.
Whole(p) == \A r \in Ranks : <<RunOf(p), r>> \in connected

\* What a connected process knows of its group.
Grouped(p) ==
    /\ p \in connected => pc[p] \in After \union {"retained", "gone"}
    /\ pc[p] \in After => p \in connected
    /\ p \in connected \/ pc[p] = "connect" => \A r \in Ranks : table[p][r] = <<RunOf(p), r>>
    /\ pc[p] = "table" => conn[p] # Nobody

\* How far the barrier is where p is.
Barred(p) ==
    /\ p \in arrived => p \in connected
    /\ p \in released => Whole(p)
    /\ IsMaster(p) /\ pc[p] \in {"release", "check", "ready"} => Whole(p)
    /\ ~IsMaster(p) /\ pc[p] \in {"check", "ready"} => p \in released

\* What p holds was taken in order and is given back from the end.
Held(p) == \E n \in 0..5 : held[p] = Taken(n)
Clean(p) == pc[p] = "gone" => held[p] = {} /\ listening # p

IInv == /\ TypeOK
        /\ \A p \in Procs : Grouped(p)
        /\ \A p \in Procs : Barred(p)
        /\ \A p \in Procs : Held(p) /\ Clean(p)
-----------------------------------------------------------------------------
(* Helpers.                                                                *)

LEMMA SameTcp ==
    ASSUME UNCHANGED tcpVars
    PROVE  /\ listening' = listening /\ conn' = conn /\ table' = table /\ sent' = sent
           /\ arrived' = arrived /\ released' = released /\ orderly' = orderly
BY DEF tcpVars

LEMMA Moved ==
    ASSUME IInv, NEW p \in Procs, NEW there \in States, pc' = [pc EXCEPT ![p] = there]
    PROVE  /\ pc' \in [Procs -> States] /\ pc'[p] = there
           /\ \A q \in Procs : q # p => pc'[q] = pc[q]
BY DEF IInv, TypeOK, States

LEMMA TakenSome ==
    /\ Taken(0) = {}
    /\ \A n \in 0..5 : Taken(n) \subseteq Taken(5)
    /\ \A n \in 0..5 : "qp" \in Taken(n) => "mr" \in Taken(n)
<1>1. \A k \in 1..5 : Resources[k] = "qp" => k = 5 BY DEF Resources
<1>2. Resources[4] = "mr" BY DEF Resources
<1>3. \A n \in 0..5 : "qp" \in Taken(n) => "mr" \in Taken(n)
  <2> SUFFICES ASSUME NEW n \in 0..5, "qp" \in Taken(n) PROVE "mr" \in Taken(n)
      OBVIOUS
  <2>1. PICK k \in 1..n : Resources[k] = "qp" BY DEF Taken
  <2>2. 4 \in 1..n BY <1>1, <2>1
  <2> QED BY <1>2, <2>2 DEF Taken
<1>4. \A n \in 0..5 : Taken(n) \subseteq Taken(5) BY DEF Taken
<1>5. Taken(0) = {} BY DEF Taken
<1> QED BY <1>3, <1>4, <1>5

\* A table that was checked is the one of the run.
LEMMA OneTable ==
    ASSUME NEW p \in Procs, NEW t, Checked(p, t), \A r \in Ranks : t[r] \in Procs \union {Nobody}
    PROVE  \A r \in Ranks : t[r] = <<RunOf(p), r>>
<1> SUFFICES ASSUME NEW r \in Ranks PROVE t[r] = <<RunOf(p), r>>
    OBVIOUS
<1>1. t[r] \in Procs /\ RankOf(t[r]) = r /\ RunOf(t[r]) = RunOf(p)
      BY DEF Checked, Valid
<1>2. t[r] = <<t[r][1], t[r][2]>> BY <1>1, ProcsAssumption
<1> QED BY <1>1, <1>2 DEF RankOf, RunOf

\* The workers of a master that is connected are the other ranks of its run.
LEMMA WorkersOf ==
    ASSUME IInv, NEW m \in Procs, m \in connected, IsMaster(m)
    PROVE  /\ m = <<RunOf(m), 0>>
           /\ \A p \in Workers(m) : RunOf(p) = RunOf(m)
           /\ \A r \in Ranks : r # 0 => <<RunOf(m), r>> \in Workers(m)
<1>1. \A r \in Ranks : table[m][r] = <<RunOf(m), r>> BY DEF IInv, Grouped
<1>2. m = <<RunOf(m), 0>> BY ProcsAssumption DEF IsMaster, RankOf, RunOf
<1>3. \A p \in Workers(m) : RunOf(p) = RunOf(m)
  <2> SUFFICES ASSUME NEW p \in Workers(m) PROVE RunOf(p) = RunOf(m)
      OBVIOUS
  <2>1. PICK r \in Ranks : p = table[m][r] BY DEF Workers
  <2>2. p = <<RunOf(m), r>> BY <1>1, <2>1
  <2> QED BY <2>2 DEF RunOf
<1>4. ASSUME NEW r \in Ranks, r # 0 PROVE <<RunOf(m), r>> \in Workers(m)
  <2>1. table[m][r] = <<RunOf(m), r>> BY <1>1
  <2>2. <<RunOf(m), r>> # <<RunOf(m), 0>> BY <1>4
  <2>3. table[m][r] # m BY <1>2, <2>1, <2>2
  <2>4. table[m][r] \in Workers(m) BY <2>3 DEF Workers
  <2> QED BY <2>1, <2>4
<1> QED BY <1>2, <1>3, <1>4
-----------------------------------------------------------------------------
(* The actions.                                                            *)

\* A step of p that does not end it: what the others have is kept.
LEMMA StepOf ==
    ASSUME IInv, NEW p \in Procs, TypeOK',
           \A q \in Procs : q # p => /\ pc'[q] = pc[q] /\ held'[q] = held[q]
                                     /\ table'[q] = table[q] /\ conn'[q] = conn[q],
           connected \subseteq connected', connected' \subseteq connected \union {p},
           arrived' \subseteq arrived \union {p}, released \subseteq released',
           \A q \in Procs : q \in released' => q \in released \/ Whole(q),
           listening' \in {listening, Nobody, p}, pc'[p] # "gone",
           Grouped(p)', p \in arrived' => p \in connected', Held(p)',
           IsMaster(p) /\ pc'[p] \in {"release", "check", "ready"} => Whole(p),
           ~IsMaster(p) /\ pc'[p] \in {"check", "ready"} => p \in released
    PROVE  IInv'
<1>1. \A q \in Procs : Whole(q) => Whole(q)' BY DEF Whole
<1>2. ASSUME NEW q \in Procs PROVE Grouped(q)'
  <2>1. CASE q = p BY <2>1
  <2>2. CASE q # p BY <2>2 DEF IInv, Grouped
  <2> QED BY <2>1, <2>2
<1>3. ASSUME NEW q \in Procs PROVE Barred(q)'
  <2>1. Barred(q) BY DEF IInv
  <2>2. q \in released' => Whole(q)' BY <1>1, <2>1 DEF Barred
  <2>3. CASE q = p BY <1>1, <2>2, <2>3 DEF Barred
  <2>4. CASE q # p BY <1>1, <2>1, <2>2, <2>4 DEF Barred
  <2> QED BY <2>3, <2>4
<1>4. ASSUME NEW q \in Procs PROVE Held(q)' /\ Clean(q)'
  <2>1. CASE q = p BY <2>1 DEF Clean
  <2>2. CASE q # p
    <3>1. Held(q) /\ Clean(q) BY DEF IInv
    <3>2. Held(q)' BY <2>2, <3>1 DEF Held, Taken
    <3>3. listening' = q => listening = q BY <2>2, ProcsAssumption
    <3> QED BY <2>2, <3>1, <3>2, <3>3 DEF Clean
  <2> QED BY <2>1, <2>2
<1> QED BY <1>2, <1>3, <1>4 DEF IInv

\* Part of it is given back, or all.
LEMMA GiveBackPart ==
    ASSUME IInv, NEW p \in Procs, NEW left, NEW there \in {"gone", "retained"},
           held' = [held EXCEPT ![p] = left], pc' = [pc EXCEPT ![p] = there],
           \E n \in 0..5 : left = Taken(n),
           there = "gone" => left = {} /\ listening' # p,
           listening' \in {listening, Nobody}, connected' = connected,
           UNCHANGED <<conn, table, sent, arrived, released, orderly>>
    PROVE  IInv'
<1>1. /\ conn' = conn /\ table' = table /\ sent' = sent /\ connected' = connected
      /\ arrived' = arrived /\ released' = released /\ orderly' = orderly
      OBVIOUS
<1>3. /\ pc' \in [Procs -> States] /\ pc'[p] = there /\ \A q \in Procs : q # p => pc'[q] = pc[q]
      BY Moved DEF States
<1>4. /\ held' \in [Procs -> SUBSET Taken(5)] /\ held'[p] = left
      /\ \A q \in Procs : q # p => held'[q] = held[q]
      BY TakenSome DEF IInv, TypeOK
<1>5. TypeOK' BY <1>1, <1>3, <1>4 DEF IInv, TypeOK, States
<1>6. ASSUME NEW q \in Procs PROVE Grouped(q)' /\ Barred(q)'
  <2>1. Grouped(q) /\ Barred(q) BY DEF IInv
  <2>2. Whole(q)' = Whole(q) BY <1>1 DEF Whole
  <2>3. Grouped(q)' BY <1>1, <1>3, <2>1 DEF Grouped, After
  <2>4. Barred(q)' BY <1>1, <1>3, <2>1, <2>2 DEF Barred
  <2> QED BY <2>3, <2>4
<1>7. ASSUME NEW q \in Procs PROVE Held(q)' /\ Clean(q)'
  <2>1. Held(q) /\ Clean(q) BY DEF IInv
  <2>2. CASE q = p
    <3>1. \E n \in 0..5 : held'[q] = Taken(n) BY <1>4, <2>2
    <3>2. Held(q)' BY <3>1 DEF Held, Taken
    <3> QED BY <1>3, <1>4, <2>2, <3>2 DEF Clean
  <2>3. CASE q # p
    <3>1. listening' = q => listening = q BY ProcsAssumption
    <3>2. Held(q)' BY <1>4, <2>1, <2>3 DEF Held, Taken
    <3> QED BY <1>3, <1>4, <2>1, <2>3, <3>1, <3>2 DEF Clean
  <2> QED BY <2>2, <2>3
<1> QED BY <1>5, <1>6, <1>7 DEF IInv

LEMMA GiveBackStep ==
    ASSUME IInv, NEW p \in Procs, NEW some, GiveBack(p, some)
    PROVE  IInv'
<1>1. CASE Vanish(p)
  <2>1. listening' # p /\ listening' \in {listening, Nobody}
        BY <1>1, ProcsAssumption DEF Vanish, ClosePort
  <2>2. \E n \in 0..5 : {} = Taken(n) BY TakenSome
  <2> QED BY <1>1, <2>1, <2>2, GiveBackPart DEF Vanish
<1>2. CASE ~Vanish(p)
  <2>1. PICK n \in 1..5 : Retain(p, Taken(n)) BY <1>2 DEF GiveBack
  <2>2. \E k \in 0..5 : Taken(n) = Taken(k) OBVIOUS
  <2>3. listening' = listening /\ UNCHANGED <<conn, table, sent, arrived, released, orderly>>
        BY <2>1, SameTcp DEF Retain
  <2> QED BY <2>1, <2>2, <2>3, GiveBackPart DEF Retain
<1> QED BY <1>1, <1>2

\* A process goes on, and takes nothing but a place in the barrier or the port.
LEMMA Goes ==
    ASSUME IInv, NEW p \in Procs, NEW here \in Creating, NEW there \in States \ {"gone", "table"},
           Goto(p, here, there),
           UNCHANGED <<held, conn, table, sent, connected, released, orderly>>,
           listening' \in {listening, Nobody, p},
           arrived' \subseteq arrived \union {p}, p \in arrived' => p \in connected,
           here \in After <=> there \in After,
           there = "connect" => \A r \in Ranks : table[p][r] = <<RunOf(p), r>>,
           IsMaster(p) /\ there \in {"release", "check", "ready"} => Whole(p),
           ~IsMaster(p) /\ there \in {"check", "ready"} => p \in released
    PROVE  IInv'
<1>1. /\ pc[p] = here /\ pc'[p] = there /\ \A q \in Procs : q # p => pc'[q] = pc[q]
      /\ pc' \in [Procs -> States]
      BY Moved DEF Goto
<1>2. TypeOK' BY <1>1 DEF IInv, TypeOK, States
<1>3. Grouped(p) /\ Held(p) BY DEF IInv
<1>4. Grouped(p)' BY <1>1, <1>3 DEF Grouped, After, Creating
<1>5. Held(p)' BY <1>3 DEF Held, Taken
<1> QED BY <1>1, <1>2, <1>4, <1>5, StepOf

LEMMA PlainSteps ==
    ASSUME IInv, NEW p \in Procs,
           \/ Listen(p) \/ AllAccepted(p) \/ SpreadDone(p) \/ Arrive(p) \/ Collect(p)
           \/ Released(p) \/ Ready(p)
    PROVE  IInv'
<1>1. Grouped(p) /\ Barred(p) /\ \A q \in Procs : q \in arrived => q \in connected
      BY DEF IInv, Barred
<1>2. CASE Listen(p) BY <1>1, <1>2, Goes DEF Listen, States, Creating, After, Barred
<1>3. CASE AllAccepted(p)
      BY <1>1, <1>3, SameTcp, Goes DEF AllAccepted, States, Creating, After, Barred
<1>4. CASE SpreadDone(p)
  <2>1. \A r \in Ranks : table[p][r] \in Procs \union {Nobody} BY DEF IInv, TypeOK
  <2>2. \A r \in Ranks : table[p][r] = <<RunOf(p), r>>
        BY <1>4, <2>1, OneTable DEF SpreadDone
  <2> QED BY <1>1, <1>4, <2>2, Goes DEF SpreadDone, States, Creating, After, Barred
<1>5. CASE Arrive(p)
  <2>1. p \in connected BY <1>1, <1>5 DEF Arrive, Goto, Grouped, After
  <2> QED BY <1>5, <2>1, Goes DEF Arrive, States, Creating, After
<1>6. CASE Collect(p)
  <2>1. p \in connected BY <1>1, <1>6 DEF Collect, Goto, Grouped, After
  <2>2. Whole(p)
    <3>1. \A q \in Workers(p) : q \in connected BY <1>1, <1>6 DEF Collect, IInv, TypeOK
    <3>2. ASSUME NEW r \in Ranks PROVE <<RunOf(p), r>> \in connected
          BY <1>6, <2>1, <3>1, WorkersOf DEF Collect
    <3> QED BY <3>2 DEF Whole
  <2> QED BY <1>1, <1>6, <2>2, SameTcp, Goes DEF Collect, States, Creating, After, Barred
<1>7. CASE Released(p)
  <2>1. pc[p] = "release" BY <1>7 DEF Released, Goto
  <2>2. IsMaster(p) => Whole(p) BY <1>1, <2>1 DEF Barred
  <2>3. ~IsMaster(p) => p \in released BY <1>7 DEF Released
  <2> QED BY <1>1, <1>7, <2>2, <2>3, SameTcp, Goes DEF Released, States, Creating, After, Barred
<1>8. CASE Ready(p)
  <2>1. pc[p] = "check" BY <1>8 DEF Ready, Goto
  <2>2. IsMaster(p) => Whole(p) BY <1>1, <2>1 DEF Barred
  <2>3. ~IsMaster(p) => p \in released BY <1>1, <2>1 DEF Barred
  <2> QED BY <1>1, <1>8, <2>2, <2>3, SameTcp, Goes DEF Ready, States, Creating, After, Barred
<1> QED BY <1>2, <1>3, <1>4, <1>5, <1>6, <1>7, <1>8

\* Resources, the connection to the master, the table, the queue pairs.
LEMMA SetupStep ==
    ASSUME IInv, NEW p \in Procs, Setup(p)
    PROVE  IInv'
<1>1. UNCHANGED <<conn, table, sent, connected, arrived, released, orderly, listening>>
      BY SameTcp DEF Setup
<1>2. /\ pc[p] = "setup" /\ pc'[p] = "bootstrap" /\ \A q \in Procs : q # p => pc'[q] = pc[q]
      /\ pc' \in [Procs -> States]
      BY Moved DEF Setup, Goto, States, Creating
<1>3. /\ held' \in [Procs -> SUBSET Taken(5)] /\ held'[p] = Taken(5)
      /\ \A q \in Procs : q # p => held'[q] = held[q]
      BY DEF Setup, IInv, TypeOK
<1>4. TypeOK' BY <1>1, <1>2, <1>3 DEF IInv, TypeOK, States
<1>5. Grouped(p) /\ Barred(p) BY DEF IInv
<1>6. Grouped(p)' BY <1>1, <1>2, <1>5 DEF Grouped, After
<1>7. Held(p)'
  <2>1. \E n \in 0..5 : held'[p] = Taken(n) BY <1>3
  <2> QED BY <2>1 DEF Held, Taken
<1> QED BY <1>1, <1>2, <1>3, <1>4, <1>5, <1>6, <1>7, StepOf DEF Barred

LEMMA ConnectStep ==
    ASSUME IInv, NEW p \in Procs, Connect(p)
    PROVE  IInv'
<1>1. UNCHANGED <<held, listening, table, sent, connected, arrived, released, orderly>>
      BY DEF Connect
<1>2. /\ pc[p] = "bootstrap" /\ pc'[p] = "table" /\ \A q \in Procs : q # p => pc'[q] = pc[q]
      /\ pc' \in [Procs -> States]
      BY Moved DEF Connect, Goto, States, Creating
<1>3. /\ conn' \in [Procs -> Procs \union {Nobody}] /\ conn'[p] # Nobody
      /\ \A q \in Procs : q # p => conn'[q] = conn[q]
      BY DEF Connect, IInv, TypeOK
<1>4. TypeOK' BY <1>1, <1>2, <1>3 DEF IInv, TypeOK, States
<1>5. Grouped(p) /\ Barred(p) /\ Held(p) BY DEF IInv
<1>6. Grouped(p)' BY <1>1, <1>2, <1>3, <1>5 DEF Grouped, After
<1>7. Held(p)' BY <1>1, <1>5 DEF Held, Taken
<1> QED BY <1>1, <1>2, <1>3, <1>4, <1>5, <1>6, <1>7, StepOf DEF Barred

LEMMA ReceiveTableStep ==
    ASSUME IInv, NEW p \in Procs, ReceiveTable(p)
    PROVE  IInv'
<1>1. UNCHANGED <<held, listening, conn, sent, connected, arrived, released, orderly>>
      BY DEF ReceiveTable
<1>2. /\ pc[p] = "table" /\ pc'[p] = "connect" /\ \A q \in Procs : q # p => pc'[q] = pc[q]
      /\ pc' \in [Procs -> States]
      BY Moved DEF ReceiveTable, Goto, States, Creating
<1>3. conn[p] \in Procs BY <1>2 DEF IInv, Grouped, TypeOK
<1>4. table[conn[p]] \in [Ranks -> Procs \union {Nobody}] BY <1>3 DEF IInv, TypeOK
<1>5. \A r \in Ranks : table[conn[p]][r] = <<RunOf(p), r>>
      BY <1>4, OneTable DEF ReceiveTable
<1>6. /\ table' \in [Procs -> [Ranks -> Procs \union {Nobody}]] /\ table'[p] = table[conn[p]]
      /\ \A q \in Procs : q # p => table'[q] = table[q]
      BY <1>4 DEF ReceiveTable, IInv, TypeOK
<1>7. TypeOK' BY <1>1, <1>2, <1>6 DEF IInv, TypeOK, States
<1>8. Grouped(p) /\ Barred(p) /\ Held(p) BY DEF IInv
<1>9. Grouped(p)' BY <1>1, <1>2, <1>5, <1>6, <1>8 DEF Grouped, After
<1>10. Held(p)' BY <1>1, <1>8 DEF Held, Taken
<1> QED BY <1>1, <1>2, <1>6, <1>7, <1>8, <1>9, <1>10, StepOf DEF Barred

LEMMA ConnectQueuePairsStep ==
    ASSUME IInv, NEW p \in Procs, ConnectQueuePairs(p)
    PROVE  IInv'
<1>1. /\ UNCHANGED <<conn, table, sent, arrived, released, orderly, listening, held>>
      /\ connected' = connected \union {p}
      BY SameTcp DEF ConnectQueuePairs
<1>2. /\ pc[p] = "connect" /\ pc'[p] = "barrier" /\ \A q \in Procs : q # p => pc'[q] = pc[q]
      /\ pc' \in [Procs -> States]
      BY Moved DEF ConnectQueuePairs, Goto, States, Creating
<1>3. TypeOK' BY <1>1, <1>2 DEF IInv, TypeOK, States
<1>4. Grouped(p) /\ Barred(p) /\ Held(p) BY DEF IInv
<1>5. Grouped(p)' BY <1>1, <1>2, <1>4 DEF Grouped, After
<1>6. Held(p)' BY <1>1, <1>4 DEF Held, Taken
<1> QED BY <1>1, <1>2, <1>3, <1>4, <1>5, <1>6, StepOf DEF Barred

\* What the master does for a worker.
LEMMA AcceptStep ==
    ASSUME IInv, NEW m \in Procs, NEW p \in Procs, Accept(m, p)
    PROVE  IInv'
<1>1. UNCHANGED <<held, listening, conn, sent, connected, arrived, released, orderly>>
      BY DEF Accept
<1>2. /\ pc[m] = "accept" /\ pc'[m] = "accept" /\ \A q \in Procs : q # m => pc'[q] = pc[q]
      /\ pc' \in [Procs -> States]
      BY Moved DEF Accept, Goto, States, Creating
<1>3. RankOf(p) \in Ranks BY ProcsAssumption DEF RankOf
<1>4. /\ table' \in [Procs -> [Ranks -> Procs \union {Nobody}]]
      /\ \A q \in Procs : q # m => table'[q] = table[q]
      BY <1>3 DEF Accept, IInv, TypeOK
<1>5. TypeOK' BY <1>1, <1>2, <1>4 DEF IInv, TypeOK, States
<1>6. Grouped(m) /\ Barred(m) /\ Held(m) BY DEF IInv
<1>7. Grouped(m)' BY <1>1, <1>2, <1>6 DEF Grouped, After
<1>8. Held(m)' BY <1>1, <1>6 DEF Held, Taken
<1> QED BY <1>1, <1>2, <1>4, <1>5, <1>6, <1>7, <1>8, StepOf DEF Barred

LEMMA AnswerSteps ==
    ASSUME IInv, NEW m \in Procs, NEW p \in Procs, Spread(m, p) \/ Release(m, p)
    PROVE  IInv'
<1>1. /\ UNCHANGED <<pc, held, listening, conn, table, connected, arrived, orderly>>
      /\ sent' \subseteq Procs /\ released' \subseteq Procs
      BY DEF Spread, Release, IInv, TypeOK
<1>2. TypeOK' BY <1>1 DEF IInv, TypeOK
<1>3. Grouped(m) /\ Barred(m) /\ Held(m) /\ pc[m] # "gone"
      BY DEF IInv, Spread, Release
<1>4. released \subseteq released' /\ \A q \in Procs : q \in released' => q \in released \/ Whole(q)
  <2>1. CASE Spread(m, p) BY <2>1 DEF Spread
  <2>2. CASE Release(m, p)
    <3>1. /\ IsMaster(m) /\ pc[m] = "release" /\ p \in Workers(m)
          /\ released' = released \union {p}
          BY <2>2 DEF Release
    <3>2. m \in connected /\ Whole(m) BY <1>3, <3>1 DEF Grouped, Barred, After
    <3>3. RunOf(p) = RunOf(m) BY <3>1, <3>2, WorkersOf
    <3>4. Whole(p) BY <3>2, <3>3 DEF Whole
    <3> QED BY <3>1, <3>4
  <2> QED BY <2>1, <2>2
<1>5. Grouped(m)' BY <1>1, <1>3 DEF Grouped
<1>6. Held(m)' BY <1>1, <1>3 DEF Held, Taken
<1> QED BY <1>1, <1>2, <1>3, <1>4, <1>5, <1>6, StepOf DEF Barred
-----------------------------------------------------------------------------
(* The invariant, and the properties.                                      *)

LEMMA InitInv == Init => IInv
<1> SUFFICES ASSUME Init PROVE IInv
    OBVIOUS
<1>1. TypeOK
  <2>1. held \in [Procs -> SUBSET Taken(5)] BY DEF Init
  <2>2. table \in [Procs -> [Ranks -> Procs \union {Nobody}]] BY DEF Init
  <2>3. conn \in [Procs -> Procs \union {Nobody}] BY DEF Init
  <2>4. pc \in [Procs -> Creating \union {"ready", "retained", "gone"}]
        BY DEF Init, Creating
  <2> QED BY <2>1, <2>2, <2>3, <2>4 DEF Init, TypeOK
<1>2. \A p \in Procs : Grouped(p) BY DEF Init, Grouped, After
<1>3. \A p \in Procs : Barred(p) BY DEF Init, Barred
<1>4. \A p \in Procs : Held(p) /\ Clean(p)
  <2>1. \E n \in 0..5 : {} = Taken(n) BY TakenSome
  <2>2. \A p \in Procs : held[p] = {} /\ listening # p BY ProcsAssumption DEF Init
  <2> QED BY <2>1, <2>2 DEF Held, Clean
<1> QED BY <1>1, <1>2, <1>3, <1>4 DEF IInv

LEMMA NextInv == IInv /\ [Next]_vars => IInv'
<1> SUFFICES ASSUME IInv, [Next]_vars PROVE IInv'
    OBVIOUS
<1>1. CASE UNCHANGED vars
  <2>1. /\ pc' = pc /\ held' = held /\ connected' = connected
        /\ listening' = listening /\ conn' = conn /\ table' = table /\ sent' = sent
        /\ arrived' = arrived /\ released' = released /\ orderly' = orderly
        BY <1>1, SameTcp DEF vars
  <2>2. TypeOK' BY <2>1 DEF IInv, TypeOK
  <2>3. ASSUME NEW p \in Procs PROVE Grouped(p)' /\ Barred(p)' /\ Held(p)' /\ Clean(p)'
        BY <2>1 DEF IInv, Grouped, Barred, Whole, Held, Taken, Clean
  <2> QED BY <2>2, <2>3 DEF IInv
<1>2. ASSUME NEW p \in Procs, Create(p) PROVE IInv'
      BY <1>2, SetupStep, ConnectStep, PlainSteps, ReceiveTableStep, ConnectQueuePairsStep,
         AcceptStep, AnswerSteps, GiveBackStep DEF Create, Reject
<1>3. ASSUME NEW p \in Procs, SetupFails(p) \/ Fail(p) \/ Destroy(p) \/ Exit(p) PROVE IInv'
  <2>1. PICK some : GiveBack(p, some)
        BY <1>3 DEF SetupFails, Fail, Destroy, Exit, GiveBack
  <2> QED BY <2>1, GiveBackStep
<1> QED BY <1>1, <1>2, <1>3 DEF Next

\* Every behaviour keeps the invariant.
THEOREM Invariance == Spec => []IInv
<1> QED BY InitInv, NextInv, PTL DEF Spec

\* Only one group per run, whoever else is at the port of the master.
THEOREM OneGroupHolds == Spec => []OneGroup
<1>1. ASSUME IInv PROVE OneGroup
  <2>1. ASSUME NEW p \in connected
        PROVE  \A r \in Ranks : table[p][r] = <<RunOf(p), r>>
        BY <1>1 DEF IInv, TypeOK, Grouped
  <2>2. ASSUME NEW p \in connected, NEW r \in Ranks
        PROVE  RankOf(table[p][r]) = r /\ RunOf(table[p][r]) = RunOf(p)
        BY <2>1 DEF RankOf, RunOf
  <2>3. ASSUME NEW p \in connected, NEW q \in connected, RunOf(q) = RunOf(p)
        PROVE  table[q] = table[p]
    <3>1. /\ table[p] \in [Ranks -> Procs \union {Nobody}]
          /\ table[q] \in [Ranks -> Procs \union {Nobody}]
          BY <1>1 DEF IInv, TypeOK
    <3>2. \A r \in Ranks : table[q][r] = table[p][r] BY <2>1, <2>3
    <3> QED BY <3>1, <3>2
  <2> QED BY <1>1, <2>2, <2>3 DEF OneGroup, IInv
<1> QED BY <1>1, Invariance, PTL

\* When create returns on one rank, all ranks of its run can receive.
THEOREM ReadyMeansConnectedHolds == Spec => []ReadyMeansConnected
<1>1. ASSUME IInv, NEW p \in Procs, pc[p] = "ready", NEW r \in Ranks
      PROVE  table[p][r] \in connected
  <2>1. Grouped(p) /\ Barred(p) BY <1>1 DEF IInv
  <2>2. table[p][r] = <<RunOf(p), r>> BY <1>1, <2>1 DEF Grouped, After
  <2>3. Whole(p) BY <1>1, <2>1 DEF Barred
  <2> QED BY <2>2, <2>3 DEF Whole
<1>2. IInv => ReadyMeansConnected BY <1>1 DEF ReadyMeansConnected
<1> QED BY <1>2, Invariance, PTL

\* Memory outlives the queue pairs, and a process without a context holds nothing.
THEOREM NothingLeakedHolds == Spec => []NothingLeaked
<1>1. ASSUME IInv, NEW p \in Procs
      PROVE  /\ "qp" \in held[p] => "mr" \in held[p]
             /\ pc[p] = "gone" => held[p] = {} /\ listening # p
  <2>1. Held(p) /\ Clean(p) BY <1>1 DEF IInv
  <2>2. PICK n \in 0..5 : held[p] = Taken(n) BY <2>1 DEF Held
  <2> QED BY <2>1, <2>2, TakenSome DEF Clean
<1>2. IInv => NothingLeaked BY <1>1 DEF NothingLeaked
<1> QED BY <1>2, Invariance, PTL
=============================================================================
