------------------------ MODULE RdmaTransportProofs ------------------------
(***************************************************************************)
(* Proofs about RdmaTransport, for any set of ranks, any width of the      *)
(* sequence numbers, any receive depth of at least two, and both orders of *)
(* the reduction.                                                          *)
(*                                                                         *)
(* The argument: a sender's log holds 0, 1, 2, ... (LogInv).  A round is   *)
(* completed only with a receive from every peer, so the cursor of a       *)
(* receiver is at least its round (WindowInv) and no more than what the    *)
(* peer has entered (CursorInv, RoundInv); hence no write is ever more     *)
(* than one round ahead of its receiver, and of two consecutive rounds     *)
(* the slots differ.  On the sending side, a round ends with all its send  *)
(* completions (AckInv), so only the operand of the current round can be   *)
(* in flight when the next one is staged (StagedInv).                      *)
(***************************************************************************)
EXTENDS RdmaTransport, TLAPS

\* Rounds entered and rounds completed differ by the one in progress.
RoundOK(r) ==
    /\ input[r] \in {sequence[r], sequence[r] + 1}
    /\ sequence[r] <= UintMax - 1
    /\ pc[r] # "idle" => /\ input[r] = sequence[r] + 1
                         /\ sequence[r] < UintMax - 1
                         /\ r \notin poisoned
    /\ pc[r] = "idle" /\ r \notin poisoned => input[r] = sequence[r]
    /\ pc[r] = "poll" \/ (pc[r] = "idle" /\ r \notin poisoned) => to_post[r] = {}
RoundInv == \A r \in Ranks : RoundOK(r)

\* The k-th write of a pair carries k - 1, and a round posts one write.
LogOK(s, d) ==
    /\ Len(wr[s][d]) = IF d \in to_post[s] THEN input[s] - 1 ELSE input[s]
    /\ \A k \in 1..Len(wr[s][d]) : wr[s][d][k] = k - 1
LogInv == \A s \in Ranks : \A d \in Peers(s) : LogOK(s, d)

\* Completions never run ahead of the writes they report.
CursorOK(d, s) == /\ recv_next[d][s] <= landed[d][s]
                  /\ landed[d][s] <= Len(wr[s][d])
CursorInv == \A d \in Ranks : \A s \in Peers(d) : CursorOK(d, s)

\* The masks are the receives of this round and of the next one.
WindowOK(r, p) ==
    /\ sequence[r] <= recv_next[r][p]
    /\ p \in recv_mask[r][SlotOf(sequence[r])]
          <=> recv_next[r][p] >= sequence[r] + 1
    /\ p \in recv_mask[r][SlotOf(sequence[r] + 1)]
          <=> recv_next[r][p] >= sequence[r] + 2
WindowInv == \A r \in Ranks : \A p \in Peers(r) : WindowOK(r, p)

\* A round that has been reduced has received everything, and a round that is
\* still being posted has not been reduced.
ReducedOK(r) == /\ pc[r] = "post" => r \notin reduced
                /\ pc[r] = "poll" /\ r \in reduced => AllReceived(r)
ReducedInv == \A r \in Ranks : ReducedOK(r)

\* The send completions taken are those of the past rounds and of this one.
AckOK(s, d) ==
    /\ acked[s][d] <= landed[d][s]
    /\ pc[s] = "idle" /\ s \notin poisoned => acked[s][d] = sequence[s]
    /\ pc[s] # "idle" =>
          acked[s][d] = IF d \in sent[s] THEN sequence[s] + 1 ELSE sequence[s]
AckInv == \A s \in Ranks : \A d \in Peers(s) : AckOK(s, d)

\* Only a write of the current round can still be in flight.
StagedOK(s, d) == input[s] <= landed[d][s] + 1
StagedInv == \A s \in Ranks : \A d \in Peers(s) : StagedOK(s, d)

\* A landed operand that is still to be summed is in its slot.
SlotOK(d, s) == \A k \in 1..landed[d][s] :
                   k > sequence[d] => memory[d][SlotOf(k - 1)][s] = k
SlotInv == \A d \in Ranks : \A s \in Peers(d) : SlotOK(d, s)

\* The sum in the output buffer is made of the operands of the last round.
OutputOK(r) ==
    /\ pc[r] = "poll" /\ r \in reduced =>
          output[r] = [p \in Ranks |-> sequence[r] + 1]
    /\ pc[r] = "idle" /\ r \notin poisoned /\ sequence[r] > 0 =>
          output[r] = [p \in Ranks |-> sequence[r]]
    /\ pc[r] = "idle" /\ r \notin poisoned /\ sequence[r] = 0 =>
          output[r] = NoResult
OutputInv == \A r \in Ranks : OutputOK(r)

IInv == /\ TypeOK
        /\ RoundInv
        /\ LogInv
        /\ CursorInv
        /\ WindowInv
        /\ ReducedInv
        /\ AckInv
        /\ StagedInv
        /\ SlotInv
        /\ OutputInv
-----------------------------------------------------------------------------
\* The slots of consecutive rounds differ and those of every second one agree.
LEMMA SlotFacts ==
    ASSUME NEW n \in Nat
    PROVE  /\ SlotOf(n) \in Slots
           /\ SlotOf(n + 1) \in Slots
           /\ SlotOf(n + 1) # SlotOf(n)
           /\ SlotOf(n + 2) = SlotOf(n)
           /\ \A b \in Slots : b = SlotOf(n) \/ b = SlotOf(n + 1)
BY DEF SlotOf, Slots

\* No rank is more than one round behind another, so no write is more than
\* one round ahead of its receiver.
LEMMA Bounds ==
    ASSUME IInv, NEW d \in Ranks, NEW s \in Peers(d)
    PROVE  /\ s \in Ranks /\ d \in Peers(s) /\ s # d
           /\ sequence[d] \in Nat /\ sequence[s] \in Nat
           /\ input[d] \in Nat /\ input[s] \in Nat
           /\ recv_next[d][s] \in Nat /\ landed[d][s] \in Nat
           /\ Len(wr[s][d]) \in Nat
           /\ Len(wr[s][d]) <= input[s]
           /\ input[s] <= Len(wr[s][d]) + 1
           /\ sequence[s] <= input[d]
           /\ sequence[d] <= recv_next[d][s]
           /\ recv_next[d][s] <= landed[d][s]
           /\ landed[d][s] <= Len(wr[s][d])
           /\ Len(wr[s][d]) <= sequence[d] + 2
           /\ Len(wr[s][d]) <= UintMax
<1>1. s \in Ranks /\ d \in Peers(s) /\ s # d
  BY DEF Peers
<1>2. /\ sequence[d] \in Nat /\ sequence[s] \in Nat
      /\ input[d] \in Nat /\ input[s] \in Nat
      /\ recv_next[d][s] \in Nat /\ landed[d][s] \in Nat
      /\ recv_next[s][d] \in Nat /\ landed[s][d] \in Nat
  BY <1>1 DEF IInv, TypeOK, StateTypeOK
<1>3. Len(wr[s][d]) \in Nat /\ Len(wr[d][s]) \in Nat
  BY <1>1 DEF IInv, TypeOK, LogTypeOK
<1>4. LogOK(s, d) /\ LogOK(d, s)
  BY <1>1 DEF IInv, LogInv
<1>5. /\ Len(wr[s][d]) <= input[s] /\ Len(wr[d][s]) <= input[d]
      /\ input[s] <= Len(wr[s][d]) + 1
  BY <1>2, <1>3, <1>4 DEF LogOK
<1>6. CursorOK(d, s) /\ CursorOK(s, d) /\ WindowOK(d, s) /\ WindowOK(s, d)
  BY <1>1 DEF IInv, CursorInv, WindowInv
<1>7. /\ sequence[d] <= recv_next[d][s] /\ sequence[s] <= recv_next[s][d]
      /\ recv_next[d][s] <= landed[d][s] /\ recv_next[s][d] <= landed[s][d]
      /\ landed[d][s] <= Len(wr[s][d]) /\ landed[s][d] <= Len(wr[d][s])
  BY <1>6 DEF CursorOK, WindowOK
<1>8. RoundOK(d) /\ RoundOK(s)
  BY <1>1 DEF IInv, RoundInv
<1>9. input[d] <= sequence[d] + 1 /\ input[s] <= sequence[s] + 1 /\ input[s] <= UintMax
  BY <1>2, <1>8, UintMaxAssumption DEF RoundOK
<1>10. sequence[s] <= input[d]
  BY <1>2, <1>3, <1>5, <1>7
<1>11. input[s] <= sequence[d] + 2
  BY <1>2, <1>9, <1>10
<1>12. Len(wr[s][d]) <= sequence[d] + 2 /\ Len(wr[s][d]) <= UintMax
  <2>1. ASSUME NEW n \in Nat, n <= input[s]
        PROVE  n <= sequence[d] + 2 /\ n <= UintMax
    BY <1>2, <1>9, <1>11, <2>1, UintMaxAssumption
  <2>q. QED  BY <1>3, <1>5, <2>1, Zenon
<1>q. QED  BY <1>1, <1>2, <1>3, <1>5, <1>7, <1>10, <1>12

THEOREM InitIInv == Init => IInv
<1> SUFFICES ASSUME Init PROVE IInv
  OBVIOUS
<1>1. TypeOK
  BY DEF Init, TypeOK, StateTypeOK, LogTypeOK, Slots
<1>2. ASSUME NEW r \in Ranks PROVE RoundOK(r) /\ OutputOK(r)
  <2>1. /\ input[r] = 0 /\ sequence[r] = 0 /\ pc[r] = "idle" /\ to_post[r] = {}
        /\ output[r] = NoResult
    BY DEF Init
  <2>q. QED  BY <2>1, UintMaxAssumption DEF RoundOK, OutputOK
<1>3. ASSUME NEW r \in Ranks, NEW p \in Peers(r)
      PROVE  LogOK(r, p) /\ CursorOK(r, p) /\ AckOK(r, p) /\ StagedOK(r, p)
  <2>1. /\ wr[r][p] = <<>> /\ wr[p][r] = <<>> /\ input[r] = 0 /\ to_post[r] = {}
        /\ landed[r][p] = 0 /\ landed[p][r] = 0 /\ recv_next[r][p] = 0
        /\ acked[r][p] = 0 /\ sequence[r] = 0 /\ pc[r] = "idle"
    BY DEF Init, Peers
  <2>q. QED  BY <2>1 DEF LogOK, CursorOK, AckOK, StagedOK
<1>4. ASSUME NEW r \in Ranks, NEW p \in Peers(r)
      PROVE  WindowOK(r, p) /\ SlotOK(r, p)
  <2>1. /\ sequence[r] = 0 /\ recv_next[r][p] = 0 /\ landed[r][p] = 0
        /\ \A b \in Slots : recv_mask[r][b] = {}
    BY DEF Init, Peers
  <2>2. SlotOf(0) \in Slots /\ SlotOf(0 + 1) \in Slots
    BY SlotFacts
  <2>q. QED  BY <2>1, <2>2 DEF WindowOK, SlotOK
<1>5. ReducedInv
  BY DEF Init, ReducedInv, ReducedOK
<1>q. QED
  BY <1>1, <1>2, <1>3, <1>4, <1>5
  DEF IInv, RoundInv, OutputInv, LogInv, CursorInv, WindowInv, AckInv, StagedInv, SlotInv

\* A new round is staged: all writes of the last one have been executed.
LEMMA RunStep ==
    ASSUME IInv, NEW r \in Ranks, Run(r)
    PROVE  IInv'
<1>1. TypeOK'
  BY DEF IInv, TypeOK, StateTypeOK, LogTypeOK, Run, nicVars, Generation, Peers
<1>2. /\ RoundOK(r)
      /\ pc[r] = "idle" /\ r \notin poisoned
      /\ sequence[r] < UintMax - 1
      /\ sequence[r] \in Nat
  BY UintMaxAssumption DEF IInv, TypeOK, StateTypeOK, RoundInv, Run, Exhausted
<1>3. /\ \A x \in Ranks : /\ input'[x] = IF x = r THEN sequence[r] + 1 ELSE input[x]
                          /\ pc'[x] = IF x = r THEN "post" ELSE pc[x]
                          /\ to_post'[x] = IF x = r THEN Peers(r) ELSE to_post[x]
                          /\ sent'[x] = IF x = r THEN {} ELSE sent[x]
      /\ reduced' = reduced \ {r}
      /\ UNCHANGED <<poisoned, up, sequence, recv_next, recv_mask, output, wr,
                     acked, memory, landed>>
  BY DEF IInv, TypeOK, StateTypeOK, Run, Generation, nicVars
<1>4. ASSUME NEW x \in Ranks PROVE RoundOK(x)' /\ OutputOK(x)'
  <2>1. RoundOK(x) /\ OutputOK(x)
    BY DEF IInv, RoundInv, OutputInv
  <2>q. QED  BY <1>2, <1>3, <2>1 DEF RoundOK, OutputOK
<1>5. ASSUME NEW s \in Ranks, NEW d \in Peers(s)
      PROVE  LogOK(s, d)' /\ AckOK(s, d)' /\ StagedOK(s, d)'
  <2>1. LogOK(s, d) /\ AckOK(s, d) /\ StagedOK(s, d)
    BY DEF IInv, LogInv, AckInv, StagedInv
  <2>2. LogOK(s, d)'
    <3>1. CASE s = r
      BY <1>2, <1>3, <2>1, <3>1 DEF LogOK, RoundOK
    <3>2. CASE s # r
      BY <1>3, <2>1, <3>2 DEF LogOK
    <3>q. QED  BY <3>1, <3>2
  <2>3. AckOK(s, d)'
    BY <1>2, <1>3, <2>1 DEF AckOK
  <2>4. StagedOK(s, d)'
    <3>1. acked[s][d] \in Nat /\ landed[d][s] \in Nat
      BY DEF Peers, IInv, TypeOK, StateTypeOK
    <3>q. QED  BY <1>2, <1>3, <2>1, <3>1 DEF StagedOK, AckOK
  <2>q. QED  BY <2>2, <2>3, <2>4
<1>6. CursorInv' /\ WindowInv' /\ SlotInv'
  BY <1>3 DEF IInv, CursorInv, CursorOK, WindowInv, WindowOK, SlotInv, SlotOK
<1>7. ASSUME NEW x \in Ranks PROVE ReducedOK(x)'
  BY <1>3 DEF IInv, ReducedInv, ReducedOK, AllReceived
<1>q. QED
  BY <1>1, <1>4, <1>5, <1>6, <1>7
  DEF IInv, RoundInv, OutputInv, LogInv, AckInv, StagedInv, ReducedInv
\* A rank gives up: it is poisoned and out of its call, all else is as it was.
LEMMA AbortStep ==
    ASSUME IInv, NEW r \in Ranks,
           poisoned' = poisoned \union {r},
           pc' = [pc EXCEPT ![r] = "idle"],
           up' \subseteq up,
           UNCHANGED <<sequence, to_post, sent, recv_next, recv_mask, reduced,
                       input, output, wr, acked, memory, landed>>
    PROVE  IInv'
<1>1. TypeOK'
  BY DEF IInv, TypeOK, StateTypeOK, LogTypeOK
<1>2. \A x \in Ranks : pc'[x] = IF x = r THEN "idle" ELSE pc[x]
  BY DEF IInv, TypeOK, StateTypeOK
<1>3. ASSUME NEW x \in Ranks PROVE RoundOK(x)' /\ OutputOK(x)'
  <2>1. RoundOK(x) /\ OutputOK(x)
    BY DEF IInv, RoundInv, OutputInv
  <2>q. QED  BY <1>2, <2>1 DEF RoundOK, OutputOK
<1>4. ASSUME NEW s \in Ranks, NEW d \in Peers(s) PROVE AckOK(s, d)'
  <2>1. AckOK(s, d)
    BY DEF IInv, AckInv
  <2>q. QED  BY <1>2, <2>1 DEF AckOK
<1>5. LogInv' /\ CursorInv' /\ WindowInv' /\ StagedInv' /\ SlotInv'
  BY DEF IInv, LogInv, LogOK, CursorInv, CursorOK, WindowInv, WindowOK,
         StagedInv, StagedOK, SlotInv, SlotOK
<1>6. ASSUME NEW x \in Ranks PROVE ReducedOK(x)'
  BY <1>2 DEF IInv, ReducedInv, ReducedOK, AllReceived
<1>q. QED
  BY <1>1, <1>3, <1>4, <1>5, <1>6 DEF IInv, RoundInv, OutputInv, AckInv, ReducedInv

LEMMA FaultStep ==
    ASSUME IInv, NEW r \in Ranks,
           Refuse(r) \/ PostFails(r) \/ PollFails(r) \/ Close(r)
    PROVE  IInv'
<1>1. CASE Refuse(r) \/ Close(r)
  <2>1. pc' = [pc EXCEPT ![r] = "idle"]
    BY <1>1 DEF Refuse, Close, IInv, TypeOK, StateTypeOK
  <2>q. QED  BY <1>1, <2>1, AbortStep DEF Refuse, Close, nicVars
<1>2. CASE PostFails(r) \/ PollFails(r)
  BY <1>2, AbortStep DEF PostFails, PollFails, Fail, nicVars
<1>q. QED  BY <1>1, <1>2

\* A write is posted: it is the round's one write to that peer.
LEMMA PostStep ==
    ASSUME IInv, NEW r \in Ranks, NEW p \in Ranks, PostSend(r, p)
    PROVE  IInv'
<1>1. /\ pc[r] = "post" /\ p \in to_post[r]
      /\ \A x \in Ranks : /\ to_post'[x] = IF x = r THEN to_post[r] \ {p} ELSE to_post[x]
                          /\ pc'[x] \in {"idle", "post", "poll"}
                          /\ x # r => pc'[x] = pc[x]
      /\ pc'[r] = IF to_post[r] = {p} THEN "poll" ELSE "post"
      /\ UNCHANGED <<poisoned, up, sequence, sent, recv_next, recv_mask, reduced,
                     input, output, acked, memory, landed>>
  BY DEF IInv, TypeOK, StateTypeOK, PostSend, nicVars
<1>2. \A s, d \in Ranks :
         wr'[s][d] = IF s = r /\ d = p THEN Append(wr[s][d], sequence[r]) ELSE wr[s][d]
  BY DEF PostSend, IInv, TypeOK, LogTypeOK
<1>3. TypeOK'
  <2>1. StateTypeOK'
    BY <1>1 DEF PostSend, IInv, TypeOK, StateTypeOK, nicVars
  <2>2. LogTypeOK'
    <3>1. sequence[r] \in Nat
      BY DEF IInv, TypeOK, StateTypeOK
    <3>2. \A q \in Seq(Nat), n \in Nat : Append(q, n) \in Seq(Nat)
      OBVIOUS
    <3>q. QED  BY <3>1, <3>2 DEF PostSend, IInv, TypeOK, LogTypeOK
  <2>q. QED  BY <2>1, <2>2 DEF TypeOK
<1>4. ASSUME NEW x \in Ranks PROVE RoundOK(x)' /\ OutputOK(x)'
  <2>1. RoundOK(x) /\ OutputOK(x) /\ ReducedOK(x)
    BY DEF IInv, RoundInv, OutputInv, ReducedInv
  <2>2. CASE x = r
    <3>1. r \notin reduced /\ pc'[r] \in {"post", "poll"}
      BY <1>1, <2>1, <2>2 DEF ReducedOK
    <3>2. pc'[r] = "poll" => to_post'[r] = {}
      BY <1>1
    <3>q. QED  BY <1>1, <2>1, <2>2, <3>1, <3>2 DEF RoundOK, OutputOK
  <2>3. CASE x # r
    BY <1>1, <2>1, <2>3 DEF RoundOK, OutputOK
  <2>q. QED  BY <2>2, <2>3
<1>5. ASSUME NEW s \in Ranks, NEW d \in Peers(s) PROVE LogOK(s, d)' /\ CursorOK(d, s)'
  <2>1. LogOK(s, d) /\ CursorOK(d, s) /\ RoundOK(r) /\ d \in Ranks
    BY DEF IInv, LogInv, CursorInv, RoundInv, Peers
  <2>2. CASE s = r /\ d = p
    <3>1. /\ sequence[r] \in Nat /\ input[r] = sequence[r] + 1
          /\ Len(wr[r][p]) = sequence[r] /\ wr[r][p] \in Seq(Nat)
      <4>1. sequence[r] \in Nat /\ input[r] \in Nat
        BY DEF IInv, TypeOK, StateTypeOK
      <4>2. input[r] = sequence[r] + 1
        BY <1>1, <2>1 DEF RoundOK
      <4>3. Len(wr[r][p]) = input[r] - 1
        BY <1>1, <2>1, <2>2 DEF LogOK
      <4>4. wr[r][p] \in Seq(Nat)
        BY DEF IInv, TypeOK, LogTypeOK
      <4>q. QED  BY <4>1, <4>2, <4>3, <4>4
    <3>2. ASSUME NEW q \in Seq(Nat), NEW n \in Nat, Len(q) = n
          PROVE  /\ Len(Append(q, n)) = n + 1
                 /\ \A k \in 1..(n + 1) :
                       Append(q, n)[k] = IF k = n + 1 THEN n ELSE q[k]
      BY <3>2
    <3>3. /\ Len(wr'[r][p]) = sequence[r] + 1
          /\ \A k \in 1..(sequence[r] + 1) :
                wr'[r][p][k] = IF k = sequence[r] + 1 THEN sequence[r] ELSE wr[r][p][k]
      <4>1. wr'[r][p] = Append(wr[r][p], sequence[r])
        BY <1>2
      <4>2. /\ Len(Append(wr[r][p], sequence[r])) = sequence[r] + 1
            /\ \A k \in 1..(sequence[r] + 1) :
                  Append(wr[r][p], sequence[r])[k] =
                     IF k = sequence[r] + 1 THEN sequence[r] ELSE wr[r][p][k]
        BY <3>1, <3>2, Zenon
      <4>q. QED  BY <4>1, <4>2, Zenon
    <3>4. \A k \in 1..sequence[r] : wr[r][p][k] = k - 1
      BY <2>1, <2>2, <3>1 DEF LogOK
    <3>5. ASSUME NEW k \in 1..(sequence[r] + 1) PROVE wr'[r][p][k] = k - 1
      <4>1. wr'[r][p][k] = IF k = sequence[r] + 1 THEN sequence[r] ELSE wr[r][p][k]
        BY <3>3
      <4>2. CASE k = sequence[r] + 1
        BY <3>1, <4>1, <4>2
      <4>3. CASE k # sequence[r] + 1
        <5>1. k \in 1..sequence[r]
          BY <3>1, <4>3
        <5>q. QED  BY <3>4, <4>1, <4>3, <5>1, Zenon
      <4>q. QED  BY <4>2, <4>3
    <3>6. p \notin to_post'[r]
      BY <1>1
    <3>7. LogOK(r, p)'
      BY <1>1, <3>1, <3>3, <3>5, <3>6 DEF LogOK
    <3>8. CursorOK(p, r)'
      <4>1. landed[p][r] \in Nat
        BY DEF IInv, TypeOK, StateTypeOK
      <4>2. recv_next[p][r] <= landed[p][r] /\ landed[p][r] <= sequence[r]
        BY <2>1, <2>2, <3>1 DEF CursorOK
      <4>3. landed[p][r] <= sequence[r] + 1
        BY <3>1, <4>1, <4>2
      <4>4. Len(wr'[r][p]) = sequence[r] + 1
        BY <3>3
      <4>q. QED  BY <1>1, <4>2, <4>3, <4>4 DEF CursorOK
    <3>q. QED  BY <2>2, <3>7, <3>8
  <2>3. CASE ~(s = r /\ d = p)
    <3>1. wr'[s][d] = wr[s][d] /\ (d \in to_post'[s] <=> d \in to_post[s])
      BY <1>1, <1>2, <2>1, <2>3
    <3>q. QED  BY <1>1, <2>1, <3>1 DEF LogOK, CursorOK
  <2>q. QED  BY <2>2, <2>3
<1>6. ASSUME NEW s \in Ranks, NEW d \in Peers(s) PROVE AckOK(s, d)'
  <2>1. AckOK(s, d) /\ pc'[r] # "idle"
    BY <1>1 DEF IInv, AckInv
  <2>q. QED  BY <1>1, <2>1 DEF AckOK
<1>7. WindowInv' /\ StagedInv' /\ SlotInv'
  BY <1>1 DEF IInv, WindowInv, WindowOK, StagedInv, StagedOK, SlotInv, SlotOK
<1>8. ASSUME NEW x \in Ranks PROVE ReducedOK(x)'
  <2>1. ReducedOK(x)
    BY DEF IInv, ReducedInv
  <2>2. AllReceived(x)' = AllReceived(x)
    BY <1>1 DEF AllReceived
  <2>q. QED  BY <1>1, <2>1, <2>2 DEF ReducedOK
<1>q. QED
  BY <1>3, <1>4, <1>5, <1>6, <1>7, <1>8
  DEF IInv, RoundInv, OutputInv, LogInv, CursorInv, AckInv, ReducedInv, Peers

\* A send completion: there is at most one for a peer in a round.
LEMMA SendIsNew ==
    ASSUME IInv, NEW r \in Ranks, NEW p \in Ranks, SendCompletion(r, p)
    PROVE  /\ p \in Peers(r) /\ pc[r] = "poll" /\ p \notin sent[r]
           /\ acked[r][p] \in Nat /\ landed[p][r] \in Nat /\ sequence[r] \in Nat
           /\ acked[r][p] < landed[p][r] /\ acked[r][p] = sequence[r]
<1>1. /\ p \in Peers(r) /\ pc[r] = "poll" /\ acked[r][p] < landed[p][r]
      /\ r \in Peers(p)
  BY DEF SendCompletion, Polling, Peers
<1>2. AckOK(r, p) /\ RoundOK(r)
  BY <1>1 DEF IInv, AckInv, RoundInv
<1>3. /\ acked[r][p] \in Nat /\ landed[p][r] \in Nat /\ sequence[r] \in Nat
      /\ landed[p][r] <= sequence[r] + 1
  <2>1. acked[r][p] \in Nat /\ landed[p][r] \in Nat /\ sequence[r] \in Nat
    BY DEF IInv, TypeOK, StateTypeOK
  <2>2. landed[p][r] <= Len(wr[r][p]) /\ Len(wr[r][p]) <= input[r] /\ Len(wr[r][p]) \in Nat
    BY <1>1, Bounds
  <2>3. input[r] = sequence[r] + 1
    BY <1>1, <1>2 DEF RoundOK
  <2>4. ASSUME NEW n \in Nat, landed[p][r] <= n, n <= sequence[r] + 1
        PROVE  landed[p][r] <= sequence[r] + 1
    BY <2>1, <2>4
  <2>q. QED  BY <2>1, <2>2, <2>3, <2>4, Zenon
<1>4. p \notin sent[r] /\ acked[r][p] = sequence[r]
  BY <1>1, <1>2, <1>3 DEF AckOK
<1>q. QED  BY <1>1, <1>3, <1>4

LEMMA SendCompletionStep ==
    ASSUME IInv, NEW r \in Ranks, NEW p \in Ranks, SendCompletion(r, p)
    PROVE  IInv'
<1>1. /\ p \in Peers(r) /\ pc[r] = "poll" /\ p \notin sent[r]
      /\ acked[r][p] \in Nat /\ landed[p][r] \in Nat /\ sequence[r] \in Nat
      /\ acked[r][p] < landed[p][r] /\ acked[r][p] = sequence[r]
  BY SendIsNew
<1>5. /\ acked' = [acked EXCEPT ![r][p] = @ + 1]
      /\ sent' = [sent EXCEPT ![r] = @ \union {p}]
      /\ UNCHANGED <<pc, poisoned, up, sequence, to_post, recv_next, recv_mask,
                     reduced, input, output, wr, memory, landed>>
  BY <1>1 DEF SendCompletion, nicVars
<1>6. /\ \A s, d \in Ranks :
            acked'[s][d] = IF s = r /\ d = p THEN acked[r][p] + 1 ELSE acked[s][d]
      /\ \A s \in Ranks : sent'[s] = IF s = r THEN sent[r] \union {p} ELSE sent[s]
  BY <1>5 DEF IInv, TypeOK, StateTypeOK
<1>7. TypeOK'
  <2>1. acked' \in [Ranks -> [Ranks -> Nat]]
    BY <1>1, <1>5 DEF IInv, TypeOK, StateTypeOK
  <2>2. sent' \in [Ranks -> SUBSET Ranks]
    BY <1>5 DEF IInv, TypeOK, StateTypeOK
  <2>q. QED  BY <1>5, <2>1, <2>2 DEF IInv, TypeOK, StateTypeOK, LogTypeOK
<1>8. ASSUME NEW s \in Ranks, NEW d \in Peers(s) PROVE AckOK(s, d)'
  <2>1. AckOK(s, d) /\ d \in Ranks
    BY DEF IInv, AckInv, Peers
  <2>2. CASE s = r /\ d = p
    BY <1>1, <1>5, <1>6, <2>2 DEF AckOK
  <2>3. CASE ~(s = r /\ d = p)
    <3>1. acked'[s][d] = acked[s][d] /\ (d \in sent'[s] <=> d \in sent[s])
      BY <1>6, <2>1, <2>3
    <3>q. QED  BY <1>5, <2>1, <3>1 DEF AckOK
  <2>q. QED  BY <2>2, <2>3
<1>9. RoundInv' /\ LogInv' /\ CursorInv' /\ WindowInv' /\ StagedInv' /\ SlotInv' /\ OutputInv'
  BY <1>5 DEF IInv, RoundInv, RoundOK, LogInv, LogOK, CursorInv, CursorOK, WindowInv,
              WindowOK, StagedInv, StagedOK, SlotInv, SlotOK, OutputInv, OutputOK
<1>10. ReducedInv'
  BY <1>5 DEF IInv, ReducedInv, ReducedOK, AllReceived
<1>q. QED  BY <1>7, <1>8, <1>9, <1>10 DEF IInv, AckInv

\* A receive completion: it is in the window, the next one of its peer.
LEMMA Window ==
    ASSUME IInv, NEW r \in Ranks, NEW p \in Ranks, pc[r] = "poll", Received(r, p)
    PROVE  /\ p \in Peers(r)
           /\ Got(r, p) = recv_next[r][p]
           /\ recv_next[r][p] \in Nat /\ sequence[r] \in Nat
           /\ recv_next[r][p] \in {sequence[r], sequence[r] + 1}
           /\ recv_next[r][p] < landed[r][p]
           /\ Inc(recv_next[r][p]) = recv_next[r][p] + 1
           /\ InWindow(r, p, recv_next[r][p])
<1>1. /\ p \in Peers(r) /\ recv_next[r][p] < landed[r][p]
      /\ r \in Ranks /\ r \in Peers(p)
  BY DEF Received, Peers
<1>2. WindowOK(r, p) /\ RoundOK(r) /\ LogOK(p, r)
  BY <1>1 DEF IInv, WindowInv, RoundInv, LogInv
<1>3. /\ recv_next[r][p] \in Nat /\ landed[r][p] \in Nat /\ sequence[r] \in Nat
      /\ sequence[r] <= recv_next[r][p]
      /\ landed[r][p] <= sequence[r] + 2 /\ landed[r][p] <= UintMax
      /\ landed[r][p] <= Len(wr[p][r]) /\ Len(wr[p][r]) \in Nat
  <2>1. /\ recv_next[r][p] \in Nat /\ landed[r][p] \in Nat /\ sequence[r] \in Nat
        /\ sequence[r] <= recv_next[r][p]
        /\ landed[r][p] <= Len(wr[p][r]) /\ Len(wr[p][r]) \in Nat
        /\ Len(wr[p][r]) <= sequence[r] + 2 /\ Len(wr[p][r]) <= UintMax
    BY <1>1, Bounds
  <2>2. ASSUME NEW n \in Nat, landed[r][p] <= n, n <= sequence[r] + 2, n <= UintMax
        PROVE  landed[r][p] <= sequence[r] + 2 /\ landed[r][p] <= UintMax
    BY <2>1, <2>2, UintMaxAssumption
  <2>q. QED  BY <2>1, <2>2, Zenon
<1>4. recv_next[r][p] \in {sequence[r], sequence[r] + 1}
  BY <1>1, <1>3
<1>5. Inc(recv_next[r][p]) = recv_next[r][p] + 1
  BY <1>1, <1>3, UintMaxAssumption DEF Inc
<1>6. Got(r, p) = recv_next[r][p]
  <2>1. recv_next[r][p] + 1 \in 1..Len(wr[p][r])
    BY <1>1, <1>3
  <2>2. wr[p][r][recv_next[r][p] + 1] = (recv_next[r][p] + 1) - 1
    BY <1>2, <2>1 DEF LogOK
  <2>q. QED  BY <1>3, <2>2 DEF Got
<1>7. InWindow(r, p, recv_next[r][p])
  <2>1. Inc(sequence[r]) = sequence[r] + 1
    BY <1>2, <1>3, UintMaxAssumption DEF Inc, RoundOK
  <2>2. p \notin recv_mask[r][SlotOf(recv_next[r][p])]
    BY <1>2, <1>3, <1>4 DEF WindowOK
  <2>q. QED  BY <1>3, <1>4, <2>1, <2>2 DEF InWindow
<1>q. QED  BY <1>1, <1>3, <1>4, <1>5, <1>6, <1>7

LEMMA RecvCompletionStep ==
    ASSUME IInv, NEW r \in Ranks, NEW p \in Ranks, RecvCompletion(r, p)
    PROVE  IInv'
<1> DEFINE n == recv_next[r][p]
<1>1. pc[r] = "poll" /\ Received(r, p)
  BY DEF RecvCompletion, Polling
<1>2. /\ p \in Peers(r) /\ Got(r, p) = n /\ n \in Nat /\ sequence[r] \in Nat
      /\ n \in {sequence[r], sequence[r] + 1} /\ n < landed[r][p]
      /\ Inc(n) = n + 1 /\ InWindow(r, p, n)
  BY <1>1, Window
<1>3. /\ recv_next' = [recv_next EXCEPT ![r][p] = Inc(@)]
      /\ recv_mask' = [recv_mask EXCEPT ![r][SlotOf(n)] = @ \union {p}]
      /\ UNCHANGED <<pc, poisoned, up, sequence, to_post, sent, reduced, input,
                     output, wr, acked, memory, landed>>
  BY <1>2 DEF RecvCompletion, nicVars
<1>4. SlotOf(n) \in Slots
  BY <1>2, SlotFacts
<1>5. /\ \A d, s \in Ranks :
            recv_next'[d][s] = IF d = r /\ s = p THEN n + 1 ELSE recv_next[d][s]
      /\ \A d \in Ranks : \A b \in Slots :
            recv_mask'[d][b] = IF d = r /\ b = SlotOf(n) THEN recv_mask[d][b] \union {p}
                               ELSE recv_mask[d][b]
  BY <1>2, <1>3, <1>4 DEF IInv, TypeOK, StateTypeOK
<1>6. TypeOK'
  <2>1. recv_next' \in [Ranks -> [Ranks -> Nat]]
    BY <1>2, <1>3 DEF IInv, TypeOK, StateTypeOK
  <2>2. recv_mask' \in [Ranks -> [Slots -> SUBSET Ranks]]
    <3>1. recv_mask[r][SlotOf(n)] \union {p} \in SUBSET Ranks
      BY <1>4 DEF IInv, TypeOK, StateTypeOK
    <3>q. QED  BY <1>3, <1>4, <3>1 DEF IInv, TypeOK, StateTypeOK
  <2>q. QED  BY <1>3, <2>1, <2>2 DEF IInv, TypeOK, StateTypeOK, LogTypeOK
<1>7. ASSUME NEW d \in Ranks, NEW s \in Peers(d) PROVE WindowOK(d, s)' /\ CursorOK(d, s)'
  <2>1. /\ WindowOK(d, s) /\ CursorOK(d, s) /\ s \in Ranks
        /\ sequence[d] \in Nat /\ landed[d][s] \in Nat /\ recv_next[d][s] \in Nat
    BY DEF IInv, WindowInv, CursorInv, Peers, TypeOK, StateTypeOK
  <2>2. /\ SlotOf(sequence[d]) \in Slots /\ SlotOf(sequence[d] + 1) \in Slots
        /\ SlotOf(sequence[d]) # SlotOf(sequence[d] + 1)
    BY <2>1, SlotFacts
  <2>3. CASE d = r /\ s = p
    <3>1. recv_next'[d][s] = n + 1
      BY <1>5, <2>3
    <3>2. CursorOK(d, s)'
      BY <1>2, <1>3, <2>1, <2>3, <3>1 DEF CursorOK
    <3>3. /\ p \in recv_mask'[r][SlotOf(sequence[r])]
                <=> p \in recv_mask[r][SlotOf(sequence[r])] \/ n = sequence[r]
          /\ p \in recv_mask'[r][SlotOf(sequence[r] + 1)]
                <=> p \in recv_mask[r][SlotOf(sequence[r] + 1)] \/ n = sequence[r] + 1
      BY <1>2, <1>5, <2>2, <2>3
    <3>q. QED  BY <1>2, <1>3, <2>1, <2>3, <3>1, <3>2, <3>3 DEF WindowOK
  <2>4. CASE ~(d = r /\ s = p)
    <3>1. recv_next'[d][s] = recv_next[d][s]
      BY <1>5, <2>1, <2>4
    <3>2. \A b \in Slots : s \in recv_mask'[d][b] <=> s \in recv_mask[d][b]
      BY <1>5, <2>4
    <3>q. QED  BY <1>3, <2>1, <2>2, <3>1, <3>2 DEF WindowOK, CursorOK
  <2>q. QED  BY <2>3, <2>4
<1>8. ASSUME NEW x \in Ranks PROVE ReducedOK(x)'
  <2>1. ReducedOK(x) /\ sequence[x] \in Nat /\ (x = r => pc[x] = "poll")
    BY <1>1 DEF IInv, ReducedInv, TypeOK, StateTypeOK
  <2>2. SlotOf(sequence[x]) \in Slots
    BY <2>1, SlotFacts
  <2>3. AllReceived(x) => AllReceived(x)'
    BY <1>2, <1>3, <1>5, <2>2 DEF AllReceived, Peers
  <2>q. QED  BY <1>3, <2>1, <2>3 DEF ReducedOK
<1>9. RoundInv' /\ LogInv' /\ AckInv' /\ StagedInv' /\ SlotInv' /\ OutputInv'
  BY <1>3 DEF IInv, RoundInv, RoundOK, LogInv, LogOK, AckInv, AckOK, StagedInv,
              StagedOK, SlotInv, SlotOK, OutputInv, OutputOK
<1>q. QED  BY <1>6, <1>7, <1>8, <1>9 DEF IInv, WindowInv, CursorInv, ReducedInv

\* The reduction reads the operands of its round, which are all in their slots.
LEMMA ReduceStep ==
    ASSUME IInv, NEW r \in Ranks, Reduce(r)
    PROVE  IInv'
<1>1. /\ pc[r] = "poll" /\ AllReceived(r)
      /\ output' = [output EXCEPT ![r] =
                      [p \in Ranks |-> IF p = r THEN input[r]
                                       ELSE memory[r][SlotOf(sequence[r])][p]]]
      /\ reduced' = reduced \union {r}
      /\ UNCHANGED <<pc, poisoned, up, sequence, to_post, sent, recv_next,
                     recv_mask, input, wr, acked, memory, landed>>
  BY DEF Reduce, nicVars
<1>2. sequence[r] \in Nat /\ input[r] = sequence[r] + 1
  BY <1>1 DEF IInv, TypeOK, StateTypeOK, RoundInv, RoundOK
<1>3. ASSUME NEW p \in Peers(r)
      PROVE  memory[r][SlotOf(sequence[r])][p] = sequence[r] + 1
  <2>1. WindowOK(r, p) /\ SlotOK(r, p)
    BY DEF IInv, WindowInv, SlotInv
  <2>2. recv_next[r][p] >= sequence[r] + 1
    BY <1>1, <2>1 DEF AllReceived, WindowOK
  <2>3. /\ landed[r][p] \in Nat /\ recv_next[r][p] \in Nat
        /\ recv_next[r][p] <= landed[r][p]
    BY Bounds
  <2>4. sequence[r] + 1 \in 1..landed[r][p] /\ sequence[r] + 1 > sequence[r]
    BY <1>2, <2>2, <2>3
  <2>5. memory[r][SlotOf((sequence[r] + 1) - 1)][p] = sequence[r] + 1
    BY <2>1, <2>4 DEF SlotOK
  <2>q. QED  BY <1>2, <2>5
<1>4. /\ output'[r] = [p \in Ranks |-> sequence[r] + 1]
      /\ \A x \in Ranks : x # r => output'[x] = output[x]
  <2>1. [p \in Ranks |-> IF p = r THEN input[r] ELSE memory[r][SlotOf(sequence[r])][p]]
          = [p \in Ranks |-> sequence[r] + 1]
    BY <1>2, <1>3 DEF Peers
  <2>q. QED  BY <1>1, <2>1 DEF IInv, TypeOK, StateTypeOK
<1>5. TypeOK'
  <2>1. [p \in Ranks |-> sequence[r] + 1] \in [Ranks -> Nat]
    BY <1>2
  <2>2. output' = [output EXCEPT ![r] = [p \in Ranks |-> sequence[r] + 1]]
    BY <1>1, <1>4 DEF IInv, TypeOK, StateTypeOK
  <2>3. output' \in [Ranks -> [Ranks -> Nat] \union {NoResult}]
    BY <2>1, <2>2 DEF IInv, TypeOK, StateTypeOK
  <2>q. QED  BY <1>1, <2>3 DEF IInv, TypeOK, StateTypeOK, LogTypeOK
<1>6. ASSUME NEW x \in Ranks PROVE OutputOK(x)'
  <2>1. OutputOK(x)
    BY DEF IInv, OutputInv
  <2>q. QED  BY <1>1, <1>4, <2>1 DEF OutputOK
<1>7. ASSUME NEW x \in Ranks PROVE ReducedOK(x)'
  <2>1. ReducedOK(x) /\ AllReceived(x)' = AllReceived(x)
    BY <1>1 DEF IInv, ReducedInv, AllReceived
  <2>q. QED  BY <1>1, <2>1 DEF ReducedOK
<1>8. /\ RoundInv' /\ LogInv' /\ CursorInv' /\ WindowInv' /\ AckInv'
      /\ StagedInv' /\ SlotInv'
  BY <1>1 DEF IInv, RoundInv, RoundOK, LogInv, LogOK, CursorInv, CursorOK, WindowInv,
              WindowOK, AckInv, AckOK, StagedInv, StagedOK, SlotInv, SlotOK
<1>q. QED  BY <1>5, <1>6, <1>7, <1>8 DEF IInv, OutputInv, ReducedInv

\* A round ends: its slot is empty, the next round's receives stay recorded.
LEMMA RoundOverStep ==
    ASSUME IInv, NEW r \in Ranks, Return(r) \/ ReturnExpired(r)
    PROVE  IInv'
<1>1. /\ pc[r] = "poll" /\ r \in reduced /\ sent[r] = Peers(r)
      /\ pc' = [pc EXCEPT ![r] = "idle"]
      /\ recv_mask' = [recv_mask EXCEPT ![r][SlotOf(sequence[r])] = {}]
      /\ sequence' = [sequence EXCEPT ![r] = Inc(@)]
      /\ UNCHANGED <<up, to_post, sent, recv_next, reduced, input, output, wr,
                     acked, memory, landed>>
      /\ poisoned' \in {poisoned, poisoned \union {r}}
  BY DEF Return, ReturnExpired, RoundOver, AllSent, nicVars
<1>2. /\ RoundOK(r) /\ OutputOK(r) /\ ReducedOK(r)
      /\ sequence[r] \in Nat
  BY DEF IInv, RoundInv, OutputInv, ReducedInv, TypeOK, StateTypeOK
<1>3. /\ input[r] = sequence[r] + 1 /\ sequence[r] < UintMax - 1
      /\ Inc(sequence[r]) = sequence[r] + 1
      /\ SlotOf(sequence[r]) \in Slots
      /\ AllReceived(r)
  BY <1>1, <1>2, UintMaxAssumption, SlotFacts DEF RoundOK, ReducedOK, Inc
<1>4. /\ \A x \in Ranks : /\ sequence'[x] = IF x = r THEN sequence[r] + 1 ELSE sequence[x]
                          /\ pc'[x] = IF x = r THEN "idle" ELSE pc[x]
                          /\ x # r => (x \in poisoned' <=> x \in poisoned)
      /\ \A x \in Ranks : \A b \in Slots :
            recv_mask'[x][b] = IF x = r /\ b = SlotOf(sequence[r]) THEN {}
                               ELSE recv_mask[x][b]
  BY <1>1, <1>3 DEF IInv, TypeOK, StateTypeOK
<1>5. TypeOK'
  <2>1. sequence' \in [Ranks -> Nat] /\ pc' \in [Ranks -> {"idle", "post", "poll"}]
    BY <1>1, <1>2, <1>3 DEF IInv, TypeOK, StateTypeOK
  <2>2. recv_mask' \in [Ranks -> [Slots -> SUBSET Ranks]]
    BY <1>1, <1>3 DEF IInv, TypeOK, StateTypeOK
  <2>q. QED  BY <1>1, <2>1, <2>2 DEF IInv, TypeOK, StateTypeOK, LogTypeOK
<1>6. ASSUME NEW x \in Ranks PROVE RoundOK(x)' /\ OutputOK(x)' /\ ReducedOK(x)'
  <2>1. RoundOK(x) /\ OutputOK(x) /\ ReducedOK(x)
    BY DEF IInv, RoundInv, OutputInv, ReducedInv
  <2>2. CASE x = r
    <3>1. RoundOK(r)'
      BY <1>1, <1>2, <1>3, <1>4, UintMaxAssumption DEF RoundOK
    <3>2. OutputOK(r)'
      BY <1>1, <1>2, <1>3, <1>4 DEF OutputOK
    <3>3. ReducedOK(r)'
      BY <1>4 DEF ReducedOK
    <3>q. QED  BY <2>2, <3>1, <3>2, <3>3
  <2>3. CASE x # r
    <3>1. RoundOK(x)' /\ OutputOK(x)'
      BY <1>1, <1>4, <2>1, <2>3 DEF RoundOK, OutputOK
    <3>2. AllReceived(x)' = AllReceived(x)
      <4>1. SlotOf(sequence[x]) \in Slots
        BY SlotFacts DEF IInv, TypeOK, StateTypeOK
      <4>q. QED  BY <1>4, <2>3, <4>1 DEF AllReceived
    <3>q. QED  BY <1>1, <1>4, <2>1, <2>3, <3>1, <3>2 DEF ReducedOK
  <2>q. QED  BY <2>2, <2>3
<1>7. ASSUME NEW s \in Ranks, NEW d \in Peers(s) PROVE AckOK(s, d)'
  <2>1. AckOK(s, d)
    BY DEF IInv, AckInv
  <2>2. CASE s = r
    BY <1>1, <1>2, <1>4, <2>1, <2>2 DEF AckOK
  <2>3. CASE s # r
    BY <1>1, <1>4, <2>1, <2>3 DEF AckOK
  <2>q. QED  BY <2>2, <2>3
<1>8. ASSUME NEW d \in Ranks, NEW s \in Peers(d) PROVE WindowOK(d, s)' /\ SlotOK(d, s)'
  <2>1. /\ WindowOK(d, s) /\ SlotOK(d, s)
        /\ sequence[d] \in Nat /\ landed[d][s] \in Nat /\ recv_next[d][s] \in Nat
        /\ recv_next[d][s] <= landed[d][s]
    BY Bounds DEF IInv, WindowInv, SlotInv
  <2>2. CASE d = r
    <3>1. /\ SlotOf(sequence[r] + 1) \in Slots
          /\ SlotOf(sequence[r] + 1) # SlotOf(sequence[r])
          /\ SlotOf((sequence[r] + 1) + 1) = SlotOf(sequence[r])
      <4>1. (sequence[r] + 1) + 1 = sequence[r] + 2
        BY <1>2
      <4>q. QED  BY <1>2, <4>1, SlotFacts
    <3>2. s \in recv_mask[r][SlotOf(sequence[r])]
      BY <1>3, <2>2 DEF AllReceived
    <3>3. recv_next[r][s] <= sequence[r] + 2
      <4>1. /\ landed[r][s] \in Nat /\ recv_next[r][s] \in Nat
            /\ Len(wr[s][r]) \in Nat
            /\ recv_next[r][s] <= landed[r][s] /\ landed[r][s] <= Len(wr[s][r])
            /\ Len(wr[s][r]) <= sequence[r] + 2
        BY <2>2, Bounds
      <4>2. ASSUME NEW n \in Nat, landed[r][s] <= n, n <= sequence[r] + 2
            PROVE  recv_next[r][s] <= sequence[r] + 2
        BY <1>2, <2>1, <2>2, <4>2
      <4>q. QED  BY <4>1, <4>2, Zenon
    <3>4. /\ s \in recv_mask'[r][SlotOf(sequence[r] + 1)]
                <=> s \in recv_mask[r][SlotOf(sequence[r] + 1)]
          /\ s \notin recv_mask'[r][SlotOf((sequence[r] + 1) + 1)]
      BY <1>3, <1>4, <3>1
    <3>5. sequence'[r] = sequence[r] + 1 /\ recv_next' = recv_next
      BY <1>1, <1>4
    <3>6. WindowOK(r, s)'
      BY <1>2, <2>1, <2>2, <3>2, <3>3, <3>4, <3>5 DEF WindowOK
    <3>7. SlotOK(r, s)'
      BY <1>1, <1>2, <2>1, <2>2, <3>5 DEF SlotOK
    <3>q. QED  BY <2>2, <3>6, <3>7
  <2>3. CASE d # r
    <3>1. SlotOf(sequence[d]) \in Slots /\ SlotOf(sequence[d] + 1) \in Slots
      BY <2>1, SlotFacts
    <3>q. QED  BY <1>1, <1>4, <2>1, <2>3, <3>1 DEF WindowOK, SlotOK
  <2>q. QED  BY <2>2, <2>3
<1>9. LogInv' /\ CursorInv' /\ StagedInv'
  BY <1>1 DEF IInv, LogInv, LogOK, CursorInv, CursorOK, StagedInv, StagedOK
<1>q. QED
  BY <1>5, <1>6, <1>7, <1>8, <1>9
  DEF IInv, RoundInv, OutputInv, ReducedInv, AckInv, WindowInv, SlotInv

\* A write lands: it is at most one round ahead of the receiver, so the slot it
\* replaces has been summed, and it carries the operand of its own round.
LEMMA LandStep ==
    ASSUME IInv, NEW p \in Ranks, NEW r \in Ranks, Land(p, r)
    PROVE  IInv'
<1> DEFINE n == landed[r][p]
<1>0. p \in Peers(r) /\ r \in Peers(p) /\ n < Len(wr[p][r])
  BY DEF Land, Peers
<1>1. /\ landed' = [landed EXCEPT ![r][p] = @ + 1]
      /\ UNCHANGED <<pc, poisoned, up, sequence, to_post, sent, recv_next, recv_mask,
                     reduced, input, output, wr, acked>>
  BY DEF Land
<1>m. memory' = [memory EXCEPT ![r][SlotOf(wr[p][r][n + 1])][p] = input[p]]
  BY DEF Land
<1>2. LogOK(p, r) /\ StagedOK(p, r) /\ SlotOK(r, p)
  BY <1>0 DEF IInv, LogInv, StagedInv, SlotInv
<1>3. /\ n \in Nat /\ input[p] \in Nat /\ sequence[r] \in Nat
      /\ n + 1 \in 1..Len(wr[p][r])
      /\ n + 1 <= input[p] /\ n + 1 <= sequence[r] + 2
  <2>1. /\ n \in Nat /\ input[p] \in Nat /\ sequence[r] \in Nat /\ Len(wr[p][r]) \in Nat
        /\ Len(wr[p][r]) <= input[p] /\ Len(wr[p][r]) <= sequence[r] + 2
    BY <1>0, Bounds
  <2>2. ASSUME NEW m \in Nat, n < m, m <= input[p], m <= sequence[r] + 2
        PROVE  n + 1 \in 1..m /\ n + 1 <= input[p] /\ n + 1 <= sequence[r] + 2
    BY <2>1, <2>2
  <2>q. QED  BY <1>0, <2>1, <2>2, Zenon
<1>4. wr[p][r][n + 1] = n /\ input[p] = n + 1
  <2>1. wr[p][r][n + 1] = (n + 1) - 1
    BY <1>2, <1>3 DEF LogOK
  <2>q. QED  BY <1>2, <1>3, <2>1 DEF StagedOK
<1>5. SlotOf(n) \in Slots
  BY <1>3, SlotFacts
<1>6. /\ \A d, s \in Ranks : landed'[d][s] = IF d = r /\ s = p THEN n + 1 ELSE landed[d][s]
      /\ \A d, s \in Ranks : \A b \in Slots :
            memory'[d][b][s] = IF d = r /\ s = p /\ b = SlotOf(n) THEN n + 1
                               ELSE memory[d][b][s]
  <2>1. memory' = [memory EXCEPT ![r][SlotOf(n)][p] = n + 1]
    BY <1>m, <1>4
  <2>q. QED  BY <1>1, <1>5, <2>1 DEF IInv, TypeOK, StateTypeOK
<1>7. TypeOK'
  <2>1. landed' \in [Ranks -> [Ranks -> Nat]]
    <3>1. n + 1 \in Nat /\ landed \in [Ranks -> [Ranks -> Nat]]
      BY <1>0 DEF IInv, TypeOK, StateTypeOK, Peers
    <3>2. landed' = [landed EXCEPT ![r] = [landed[r] EXCEPT ![p] = n + 1]]
      BY <1>1
    <3>q. QED  BY <3>1, <3>2
  <2>2. memory' \in [Ranks -> [Slots -> [Ranks -> Nat]]]
    BY <1>m, <1>3, <1>4, <1>5 DEF IInv, TypeOK, StateTypeOK
  <2>q. QED  BY <1>1, <2>1, <2>2 DEF IInv, TypeOK, StateTypeOK, LogTypeOK
<1>8. ASSUME NEW d \in Ranks, NEW s \in Peers(d) PROVE CursorOK(d, s)' /\ SlotOK(d, s)'
  <2>1. CursorOK(d, s) /\ SlotOK(d, s) /\ s \in Ranks
        /\ recv_next[d][s] \in Nat /\ landed[d][s] \in Nat /\ sequence[d] \in Nat
    BY DEF IInv, CursorInv, SlotInv, Peers, TypeOK, StateTypeOK
  <2>2. CASE d = r /\ s = p
    <3>1. CursorOK(r, p)'
      <4>1. recv_next[r][p] <= n + 1
        BY <1>3, <2>1, <2>2 DEF CursorOK
      <4>2. ASSUME NEW m, n + 1 \in 1..m PROVE n + 1 <= m
        BY <4>2
      <4>3. n + 1 <= Len(wr[p][r])
        BY <1>3, <4>2, Zenon
      <4>q. QED  BY <1>1, <1>6, <4>1, <4>3 DEF CursorOK
    <3>2. ASSUME NEW k \in 1..(n + 1), k > sequence[r]
          PROVE  memory'[r][SlotOf(k - 1)][p] = k
      <4>1. k - 1 \in Nat /\ k \in Nat
        BY <1>3
      <4>2. CASE k = n + 1
        <5>1. k - 1 = n
          BY <1>3, <4>2
        <5>q. QED  BY <1>5, <1>6, <4>2, <5>1
      <4>3. CASE k # n + 1
        <5>1. k \in 1..n /\ n = (k - 1) + 1
          BY <1>3, <2>1, <2>2, <3>2, <4>3
        <5>2. memory[r][SlotOf(k - 1)][p] = k
          BY <1>2, <3>2, <5>1 DEF SlotOK
        <5>3. SlotOf(k - 1) # SlotOf(n) /\ SlotOf(k - 1) \in Slots
          BY <4>1, <5>1, SlotFacts
        <5>q. QED  BY <1>6, <5>2, <5>3
      <4>q. QED  BY <4>2, <4>3
    <3>3. SlotOK(r, p)'
      BY <1>1, <1>6, <3>2 DEF SlotOK
    <3>q. QED  BY <2>2, <3>1, <3>3
  <2>3. CASE ~(d = r /\ s = p)
    <3>1. landed'[d][s] = landed[d][s] /\ wr'[s][d] = wr[s][d]
      BY <1>1, <1>6, <2>1, <2>3
    <3>2. ASSUME NEW k \in 1..landed[d][s], k > sequence[d]
          PROVE  memory'[d][SlotOf(k - 1)][s] = k
      <4>1. SlotOf(k - 1) \in Slots
        <5>1. k - 1 \in Nat
          BY <2>1
        <5>q. QED  BY <5>1, SlotFacts
      <4>2. memory[d][SlotOf(k - 1)][s] = k
        BY <2>1, <3>2 DEF SlotOK
      <4>q. QED  BY <1>6, <2>1, <2>3, <4>1, <4>2
    <3>q. QED  BY <1>1, <2>1, <3>1, <3>2 DEF CursorOK, SlotOK
  <2>q. QED  BY <2>2, <2>3
<1>9. ASSUME NEW s \in Ranks, NEW d \in Peers(s) PROVE AckOK(s, d)' /\ StagedOK(s, d)'
  <2>1. /\ AckOK(s, d) /\ StagedOK(s, d) /\ d \in Ranks
        /\ acked[s][d] \in Nat /\ landed[d][s] \in Nat /\ input[s] \in Nat
    BY DEF IInv, AckInv, StagedInv, Peers, TypeOK, StateTypeOK
  <2>2. landed'[d][s] \in {landed[d][s], landed[d][s] + 1}
    BY <1>6, <2>1
  <2>q. QED  BY <1>1, <2>1, <2>2 DEF AckOK, StagedOK
<1>10. ASSUME NEW x \in Ranks PROVE ReducedOK(x)'
  BY <1>1 DEF IInv, ReducedInv, ReducedOK, AllReceived
<1>11. RoundInv' /\ LogInv' /\ WindowInv' /\ OutputInv'
  BY <1>1 DEF IInv, RoundInv, RoundOK, LogInv, LogOK, WindowInv, WindowOK, OutputInv, OutputOK
<1>q. QED
  BY <1>7, <1>8, <1>9, <1>10, <1>11
  DEF IInv, CursorInv, SlotInv, AckInv, StagedInv, ReducedInv

LEMMA StutterStep == ASSUME IInv, UNCHANGED vars PROVE IInv'
<1>1. TypeOK'
  BY DEF vars, IInv, TypeOK, StateTypeOK, LogTypeOK
<1>2. RoundInv' /\ LogInv' /\ CursorInv' /\ WindowInv' /\ AckInv'
      /\ StagedInv' /\ SlotInv' /\ OutputInv'
  BY DEF vars, IInv, RoundInv, RoundOK, LogInv, LogOK, CursorInv, CursorOK, WindowInv, WindowOK,
         AckInv, AckOK, StagedInv, StagedOK, SlotInv, SlotOK, OutputInv, OutputOK
<1>3. ASSUME NEW x \in Ranks PROVE ReducedOK(x)'
  BY DEF vars, IInv, ReducedInv, ReducedOK, AllReceived
<1>q. QED  BY <1>1, <1>2, <1>3 DEF IInv, ReducedInv

\* The invariant is inductive.
THEOREM NextIInv == IInv /\ [Next]_vars => IInv'
<1> SUFFICES ASSUME IInv, [Next]_vars PROVE IInv'
  OBVIOUS
<1>1. ASSUME NEW s \in Ranks, NEW d \in Ranks, Land(s, d) PROVE IInv'
  BY <1>1, LandStep
<1>2. ASSUME NEW r \in Ranks, Work(r) PROVE IInv'
  BY <1>2, RunStep, ReduceStep, RoundOverStep, PostStep, SendCompletionStep,
     RecvCompletionStep DEF Work
<1>3. ASSUME NEW r \in Ranks, Fault(r) PROVE IInv'
  BY <1>3, FaultStep, RoundOverStep DEF Fault
<1>4. CASE UNCHANGED vars
  BY <1>4, StutterStep
<1>q. QED  BY <1>1, <1>2, <1>3, <1>4 DEF Next, HealthyNext, Fabric

\* The inductive invariant holds in every behaviour of the transport.
THEOREM Invariance == Spec => []IInv
BY InitIInv, NextIInv, PTL DEF Spec
-----------------------------------------------------------------------------
\* Every variable keeps its type, for any number of ranks.
THEOREM TypeCorrect == Spec => []TypeOK
<1>1. IInv => TypeOK
  BY DEF IInv
<1>q. QED  BY Invariance, <1>1, PTL

\* No rank completes a round that some rank has not entered, whoever fails.
THEOREM LockstepHolds == Spec => []Lockstep
<1>1. ASSUME IInv PROVE Lockstep
  <2>1. ASSUME NEW r \in Ranks, NEW p \in Ranks
        PROVE  sequence[r] <= input[p] /\ sequence[p] <= input[p]
    <3>1. RoundOK(p) /\ sequence[p] \in Nat /\ input[p] \in Nat
      BY <1>1 DEF IInv, RoundInv, TypeOK, StateTypeOK
    <3>2. sequence[p] <= input[p]
      BY <3>1 DEF RoundOK
    <3>3. CASE r # p
      BY <1>1, <3>2, <3>3, Bounds DEF Peers
    <3>q. QED  BY <3>2, <3>3
  <2>q. QED  BY <2>1 DEF Lockstep
<1>q. QED  BY Invariance, <1>1, PTL

\* Two slots suffice: no operand is overwritten before it has been summed.
THEOREM OperandIntactHolds == Spec => []OperandIntact
<1>1. ASSUME IInv PROVE OperandIntact
  <2>1. ASSUME NEW d \in Ranks, NEW s \in Peers(d), NEW k \in 1..landed[d][s],
               wr[s][d][k] >= sequence[d]
        PROVE  memory[d][SlotOf(wr[s][d][k])][s] = Generation(wr[s][d][k])
    <3>1. s \in Ranks /\ d \in Peers(s) /\ LogOK(s, d) /\ SlotOK(d, s)
      BY <1>1 DEF Peers, IInv, LogInv, SlotInv
    <3>2. /\ landed[d][s] \in Nat /\ Len(wr[s][d]) \in Nat /\ sequence[d] \in Nat
          /\ landed[d][s] <= Len(wr[s][d])
      BY <1>1, Bounds
    <3>3. ASSUME NEW m \in Nat, landed[d][s] <= m PROVE k \in 1..m
      BY <3>2, <3>3
    <3>4. k \in 1..Len(wr[s][d])
      BY <3>2, <3>3, Zenon
    <3>5. wr[s][d][k] = k - 1 /\ k \in Nat
      BY <3>1, <3>2, <3>4 DEF LogOK
    <3>6. k > sequence[d]
      BY <2>1, <3>2, <3>5
    <3>7. memory[d][SlotOf(k - 1)][s] = k
      BY <3>1, <3>6 DEF SlotOK
    <3>q. QED  BY <3>5, <3>7 DEF Generation
  <2>q. QED  BY <2>1 DEF OperandIntact
<1>q. QED  BY Invariance, <1>1, PTL

\* The input buffer holds a posted operand until its write has been executed.
THEOREM InputHeldHolds == Spec => []InputHeld
<1>1. ASSUME IInv PROVE InputHeld
  <2>1. ASSUME NEW s \in Ranks, NEW d \in Peers(s),
               NEW k \in (landed[d][s] + 1)..Len(wr[s][d])
        PROVE  input[s] = Generation(wr[s][d][k])
    <3>1. d \in Ranks /\ s \in Peers(d) /\ LogOK(s, d) /\ StagedOK(s, d)
      BY <1>1 DEF Peers, IInv, LogInv, StagedInv
    <3>2. /\ landed[d][s] \in Nat /\ Len(wr[s][d]) \in Nat /\ input[s] \in Nat
          /\ Len(wr[s][d]) <= input[s]
      BY <1>1, <3>1, Bounds
    <3>3. ASSUME NEW m \in Nat, m <= input[s], NEW j \in (landed[d][s] + 1)..m
          PROVE  j \in 1..m /\ j - 1 + 1 = input[s]
      BY <3>1, <3>2, <3>3 DEF StagedOK
    <3>4. k \in 1..Len(wr[s][d]) /\ k - 1 + 1 = input[s]
      BY <3>2, <3>3, Zenon
    <3>5. wr[s][d][k] = k - 1
      BY <3>1, <3>4 DEF LogOK
    <3>q. QED  BY <3>4, <3>5 DEF Generation
  <2>q. QED  BY <2>1 DEF InputHeld
<1>q. QED  BY Invariance, <1>1, PTL

\* The completion loop never takes a correct peer for a broken one.
THEOREM NoFalseAlarmHolds == Spec => []NoFalseAlarm
<1>1. IInv => NoFalseAlarm
  BY Window, Zenon DEF NoFalseAlarm
<1>q. QED  BY Invariance, <1>1, PTL

\* Receives never run out and no send completion outlives its round.
THEOREM QueuesBoundedHolds == Spec => []QueuesBounded
<1>1. ASSUME IInv PROVE QueuesBounded
  <2>1. ASSUME NEW r \in Ranks, NEW p \in Peers(r)
        PROVE  /\ landed[r][p] < Len(wr[p][r]) => Credits(r, p) > 0
               /\ pc[r] = "idle" /\ r \notin poisoned => acked[r][p] = Len(wr[r][p])
    <3>1. /\ landed[r][p] \in Nat /\ recv_next[r][p] \in Nat /\ sequence[r] \in Nat
          /\ Len(wr[p][r]) \in Nat /\ Len(wr[p][r]) <= sequence[r] + 2
          /\ sequence[r] <= recv_next[r][p]
      BY <1>1, Bounds
    <3>2. ASSUME NEW m \in Nat, landed[r][p] < m, m <= sequence[r] + 2
          PROVE  RecvDepth + recv_next[r][p] - landed[r][p] > 0
      BY <3>1, <3>2, RecvDepthAssumption
    <3>3. landed[r][p] < Len(wr[p][r]) => Credits(r, p) > 0
      BY <3>1, <3>2, Zenon DEF Credits
    <3>4. ASSUME pc[r] = "idle", r \notin poisoned
          PROVE  acked[r][p] = Len(wr[r][p])
      <4>1. /\ AckOK(r, p) /\ RoundOK(r) /\ LogOK(r, p)
        BY <1>1 DEF IInv, AckInv, RoundInv, LogInv
      <4>2. acked[r][p] = input[r] /\ to_post[r] = {}
        BY <3>4, <4>1 DEF AckOK, RoundOK
      <4>3. Len(wr[r][p]) = input[r]
        BY <4>1, <4>2, Zenon DEF LogOK
      <4>q. QED  BY <4>2, <4>3
    <3>q. QED  BY <3>3, <3>4
  <2>q. QED  BY <2>1 DEF QueuesBounded
<1>q. QED  BY Invariance, <1>1, PTL
-----------------------------------------------------------------------------
(***************************************************************************)
(* The transport implements AllReduce.                                     *)
(***************************************************************************)

LEMMA InitRefines == ASSUME Init PROVE Promise!AbsInit
<1>1. \A r \in Ranks : Phase(r) = "idle" /\ Answer(r) = NoResult
  BY DEF Init, Phase, Answer
<1>q. QED  BY <1>1 DEF Init, Promise!AbsInit

\* A step that moves no caller is a stuttering step of the abstract system.
LEMMA InvisibleStep ==
    ASSUME \A x \in Ranks : Phase(x)' = Phase(x) /\ Answer(x)' = Answer(x),
           input' = input
    PROVE  UNCHANGED Promise!absVars
BY DEF Promise!absVars

\* Entering a round is an abstract contribution.
LEMMA RunRefines ==
    ASSUME IInv, NEW r \in Ranks, Run(r)
    PROVE  Promise!Contribute(r)
<1>1. /\ pc[r] = "idle" /\ r \notin poisoned /\ poisoned' = poisoned /\ output' = output
      /\ pc' = [pc EXCEPT ![r] = "post"]
      /\ input' = [input EXCEPT ![r] = sequence[r] + 1]
  BY DEF Run, Generation
<1>2. input[r] = sequence[r] /\ input \in [Ranks -> Nat]
  BY <1>1 DEF IInv, RoundInv, RoundOK, TypeOK, StateTypeOK
<1>3. \A x \in Ranks : pc'[x] = IF x = r THEN "post" ELSE pc[x]
  BY <1>1 DEF IInv, TypeOK, StateTypeOK
<1>4. \A x \in Ranks : /\ Phase(x)' = IF x = r THEN "waiting" ELSE Phase(x)
                       /\ Answer(x)' = IF x = r THEN NoResult ELSE Answer(x)
  BY <1>1, <1>3 DEF Phase, Answer
<1>5. Phase(r) = "idle"
  BY <1>1 DEF Phase
<1>6. input' = [input EXCEPT ![r] = @ + 1]
  BY <1>1, <1>2
<1>q. QED  BY <1>4, <1>5, <1>6 DEF Promise!Contribute

\* A poisoned rank has stopped.
LEMMA AbortRefines ==
    ASSUME IInv, NEW r \in Ranks, poisoned' = poisoned \union {r},
           pc' = [pc EXCEPT ![r] = "idle"], input' = input, output' = output
    PROVE  Promise!Stop(r) \/ UNCHANGED Promise!absVars
<1>1. \A x \in Ranks : pc'[x] = IF x = r THEN "idle" ELSE pc[x]
  BY DEF IInv, TypeOK, StateTypeOK
<1>2. \A x \in Ranks : /\ Phase(x)' = IF x = r THEN "stopped" ELSE Phase(x)
                       /\ Answer(x)' = IF x = r THEN NoResult ELSE Answer(x)
  BY <1>1 DEF Phase, Answer
<1>3. CASE r \in poisoned
  <2>1. Phase(r) = "stopped" /\ Answer(r) = NoResult
    BY <1>3 DEF Phase, Answer
  <2>q. QED  BY <1>2, <2>1, InvisibleStep
<1>4. CASE r \notin poisoned
  <2>1. Phase(r) # "stopped"
    BY <1>4 DEF Phase
  <2>q. QED  BY <1>2, <2>1 DEF Promise!Stop
<1>q. QED  BY <1>3, <1>4

\* The end of a round delivers the sum of that round's operands.
LEMMA ReturnRefines ==
    ASSUME IInv, NEW r \in Ranks, Return(r)
    PROVE  Promise!Deliver(r)
<1>1. /\ pc[r] = "poll" /\ r \in reduced
      /\ pc' = [pc EXCEPT ![r] = "idle"]
      /\ UNCHANGED <<poisoned, input, output>>
  BY DEF Return, RoundOver
<1>2. RoundOK(r) /\ OutputOK(r) /\ ReducedOK(r)
  BY DEF IInv, RoundInv, OutputInv, ReducedInv
<1>3. /\ input[r] = sequence[r] + 1 /\ r \notin poisoned /\ AllReceived(r)
      /\ output[r] = [p \in Ranks |-> input[r]]
  BY <1>1, <1>2 DEF RoundOK, OutputOK, ReducedOK
<1>4. \A p \in Ranks : input[p] >= input[r]
  <2>1. ASSUME NEW p \in Peers(r) PROVE input[p] >= input[r]
    <3>1. WindowOK(r, p) /\ p \in recv_mask[r][SlotOf(sequence[r])]
      BY <1>3 DEF IInv, WindowInv, AllReceived
    <3>2. recv_next[r][p] >= sequence[r] + 1
      BY <3>1 DEF WindowOK
    <3>3. /\ recv_next[r][p] \in Nat /\ landed[r][p] \in Nat /\ input[p] \in Nat
          /\ sequence[r] \in Nat /\ Len(wr[p][r]) \in Nat
          /\ recv_next[r][p] <= landed[r][p] /\ landed[r][p] <= Len(wr[p][r])
          /\ Len(wr[p][r]) <= input[p]
      BY Bounds
    <3>5. /\ recv_next[r][p] \in Nat /\ landed[r][p] \in Nat
          /\ input[p] \in Nat /\ sequence[r] \in Nat
      BY Bounds
    <3>4. ASSUME NEW m \in Nat, landed[r][p] <= m, m <= input[p],
                 recv_next[r][p] <= landed[r][p]
          PROVE  input[p] >= sequence[r] + 1
      BY <3>2, <3>4, <3>5
    <3>q. QED  BY <1>3, <3>3, <3>4, Zenon
  <2>2. input[r] >= input[r]
    BY DEF IInv, TypeOK, StateTypeOK
  <2>q. QED  BY <2>1, <2>2 DEF Peers
<1>5. \A x \in Ranks : pc'[x] = IF x = r THEN "idle" ELSE pc[x]
  BY <1>1 DEF IInv, TypeOK, StateTypeOK
<1>6. \A x \in Ranks : /\ Phase(x)' = IF x = r THEN "idle" ELSE Phase(x)
                       /\ Answer(x)' = IF x = r THEN [p \in Ranks |-> input[r]] ELSE Answer(x)
  BY <1>1, <1>3, <1>5 DEF Phase, Answer
<1>7. Phase(r) = "waiting"
  BY <1>1, <1>3 DEF Phase
<1>q. QED  BY <1>1, <1>4, <1>6, <1>7 DEF Promise!Deliver

\* Posting, completions, the reduction and the fabric are invisible.
LEMMA InnerRefines ==
    ASSUME IInv, NEW r \in Ranks, NEW p \in Ranks,
           \/ PostSend(r, p) \/ SendCompletion(r, p) \/ RecvCompletion(r, p)
           \/ Reduce(r) \/ Land(p, r)
    PROVE  UNCHANGED Promise!absVars
<1>1. CASE PostSend(r, p)
  <2>1. /\ pc[r] = "post" /\ UNCHANGED <<poisoned, input, output>>
        /\ \A x \in Ranks : x # r => pc'[x] = pc[x]
        /\ pc'[r] # "idle"
    BY <1>1 DEF PostSend, IInv, TypeOK, StateTypeOK
  <2>2. \A x \in Ranks : Phase(x)' = Phase(x) /\ Answer(x)' = Answer(x)
    BY <2>1 DEF Phase, Answer
  <2>q. QED  BY <2>1, <2>2, InvisibleStep
<1>2. CASE SendCompletion(r, p)
  <2>1. UNCHANGED <<pc, poisoned, input, output>>
    <3>1. p \notin sent[r]
      BY <1>2, SendIsNew
    <3>q. QED  BY <1>2, <3>1 DEF SendCompletion
  <2>q. QED  BY <2>1, InvisibleStep DEF Phase, Answer
<1>3. CASE RecvCompletion(r, p)
  <2>1. UNCHANGED <<pc, poisoned, input, output>>
    <3>1. InWindow(r, p, Got(r, p))
      BY <1>3, Window DEF RecvCompletion, Polling
    <3>q. QED  BY <1>3, <3>1 DEF RecvCompletion
  <2>q. QED  BY <2>1, InvisibleStep DEF Phase, Answer
<1>4. CASE Reduce(r)
  <2>1. /\ pc[r] = "poll" /\ UNCHANGED <<pc, poisoned, input>>
        /\ \A x \in Ranks : x # r => output'[x] = output[x]
    BY <1>4 DEF Reduce, IInv, TypeOK, StateTypeOK
  <2>q. QED  BY <2>1, InvisibleStep DEF Phase, Answer
<1>5. CASE Land(p, r)
  BY <1>5, InvisibleStep DEF Land, Phase, Answer
<1>q. QED  BY <1>1, <1>2, <1>3, <1>4, <1>5

\* Every step of the transport is a step of the abstract all-reduce, or none.
LEMMA NextRefines ==
    ASSUME IInv, [Next]_vars
    PROVE  [Promise!AbsNext]_Promise!absVars
<1>1. ASSUME NEW r \in Ranks, Work(r)
      PROVE  [Promise!AbsNext]_Promise!absVars
  BY <1>1, RunRefines, ReturnRefines, InnerRefines DEF Work, Promise!AbsNext
<1>2. ASSUME NEW r \in Ranks, Fault(r)
      PROVE  [Promise!AbsNext]_Promise!absVars
  <2>1. poisoned' = poisoned \union {r} /\ input' = input /\ output' = output
    BY <1>2 DEF Fault, Refuse, PostFails, PollFails, ReturnExpired, RoundOver, Close, Fail
  <2>2. pc' = [pc EXCEPT ![r] = "idle"]
    BY <1>2 DEF Fault, Refuse, PostFails, PollFails, ReturnExpired, RoundOver, Close, Fail,
                IInv, TypeOK, StateTypeOK
  <2>q. QED  BY <2>1, <2>2, AbortRefines DEF Promise!AbsNext
<1>3. ASSUME NEW s \in Ranks, NEW d \in Ranks, Land(s, d)
      PROVE  [Promise!AbsNext]_Promise!absVars
  BY <1>3, InnerRefines
<1>4. CASE UNCHANGED vars
  BY <1>4, InvisibleStep DEF vars, Phase, Answer
<1>q. QED  BY <1>1, <1>2, <1>3, <1>4 DEF Next, HealthyNext, Fabric

\* The transport keeps the promise of the abstract all-reduce.
THEOREM Refinement == Spec => ImplementsAllReduce
<1>1. Init => Promise!AbsInit
  BY InitRefines
<1>2. IInv /\ [Next]_vars => [Promise!AbsNext]_Promise!absVars
  BY NextRefines
<1>q. QED
  BY Invariance, <1>1, <1>2, PTL DEF Spec, ImplementsAllReduce, Promise!AbsSpec
=============================================================================
