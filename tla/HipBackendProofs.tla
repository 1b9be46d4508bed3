-------------------------- MODULE HipBackendProofs --------------------------
(***************************************************************************)
(* Proofs about the back end of tools/hip_rdma_backend: the vote that      *)
(* starts it (BackendVote), for any set of ranks and of settings, and its  *)
(* descriptors (DescriptorPool), for any streams and pools of any size.    *)
(***************************************************************************)
EXTENDS BackendVote, DescriptorPool, WellFoundedInduction, TLAPS

(***************************************************************************)
(* The vote.                                                               *)
(*                                                                         *)
(* The step of a rank determines which gather is its next (Placed), and a  *)
(* rank gets to a step only by a vote that every rank gave its consent to  *)
(* (Known).  Consent cannot be withdrawn, for posts only grow.  So a rank  *)
(* with a back end knows of six votes in its favour, while one that stays  *)
(* with RCCL has taken part in one at most.                                *)
(***************************************************************************)
Stages == Ended \union {"hook", "enable", "metadata", "load", "initialize",
             "validate", "device", "passed", "failed", "wait_enable", "wait_metadata",
             "wait_loaded", "wait_initialized", "wait_results", "wait_validated"}
Contributions == [kind : {"enable", "metadata", "loaded", "initialized",
                          "results", "validated"},
                  ok : BOOLEAN, shared : Settings]

Typed == /\ hooked \in BOOLEAN /\ enabled \subseteq Ranks /\ settings \in [Ranks -> Settings]
         /\ pc \in [Ranks -> Stages] /\ posts \in [Ranks -> Seq(Contributions)]
         /\ native \subseteq Ranks /\ device \subseteq Ranks /\ clean \subseteq Ranks

\* How many gathers a rank has entered that is at this step.
Gathers(step) ==
    CASE step \in {"hook", "enable"} -> {0}
      [] step \in {"wait_enable", "metadata"} -> {1}
      [] step \in {"wait_metadata", "load"} -> {2}
      [] step \in {"wait_loaded", "initialize"} -> {3}
      [] step \in {"wait_initialized", "validate", "device"} -> {4}
      [] step \in {"wait_results", "passed", "failed"} -> {5}
      [] step = "wait_validated" -> {5, 6}
      [] step = "backend" -> {6}
      [] step = "none" -> {0, 1}
      [] OTHER -> 0..6

Placed == \A r \in Ranks : Len(posts[r]) \in Gathers(pc[r])

\* The k-th vote was for going on, whoever reads it.
Granted(k) == /\ \A p \in Ranks : Len(posts[p]) >= k /\ posts[p][k].ok
              /\ k = 2 => \A p, q \in Ranks : settings[p] = settings[q]

\* What a rank knows that is at a step, or that takes part in the n-th gather.
StageKnows(step) == /\ step = "metadata" => Granted(1)
                    /\ step = "load" => Granted(2)
                    /\ step = "initialize" => Granted(3)
                    /\ step \in {"validate", "device"} => Granted(4)
                    /\ step = "passed" => Granted(5)
                    /\ step = "backend" => Granted(6)
EntryKnows(n) == /\ n >= 2 => Granted(1)
                 /\ n >= 3 => Granted(2)
                 /\ n >= 4 => Granted(3)
                 /\ n >= 5 => Granted(4)

Known == \A r \in Ranks : /\ StageKnows(pc[r])
                          /\ EntryKnows(Len(posts[r]))
                          /\ Len(posts[r]) >= 6 /\ posts[r][6].ok => Granted(5)

\* A contribution tells the truth.
TruthOf(r, k) == /\ posts[r][k].shared = settings[r]
                 /\ k = 1 /\ posts[r][k].ok => r \in enabled
                 /\ k = 4 /\ posts[r][k].ok => r \in native
                 /\ k = 5 /\ posts[r][k].ok => r \in clean
Truthful == /\ \A r \in Ranks : \A k \in 1..Len(posts[r]) : TruthOf(r, k)
            /\ \A r \in native : Len(posts[r]) >= 4

\* A rank that takes its verdict to the fifth gather, where the others have the
\* differences, has one against the back end.
Lone == \A r \in Ranks :
    pc[r] = "wait_validated" /\ Len(posts[r]) = 5 => ~posts[r][5].ok

IInv == Typed /\ Placed /\ Known /\ Truthful /\ Lone
-----------------------------------------------------------------------------
(* Contributions.                                                          *)

Grown == \A p \in Ranks : /\ Len(posts'[p]) >= Len(posts[p])
                          /\ \A k \in 1..Len(posts[p]) : posts'[p][k] = posts[p][k]

LEMMA GrantedStays ==
    ASSUME Typed, Typed', Grown, settings' = settings, NEW k \in 1..6, Granted(k)
    PROVE  Granted(k)'
<1>1. ASSUME NEW p \in Ranks
      PROVE  Len(posts'[p]) >= k /\ posts'[p][k].ok
  <2>1. Len(posts[p]) \in Nat /\ Len(posts'[p]) \in Nat
        BY DEF Typed
  <2>2. Len(posts[p]) >= k /\ posts[p][k].ok /\ Len(posts'[p]) >= Len(posts[p])
        BY DEF Granted, Grown
  <2>3. k \in 1..Len(posts[p]) BY <2>1, <2>2
  <2> QED BY <2>1, <2>2, <2>3 DEF Grown
<1> QED BY <1>1 DEF Granted

\* What is known is known for ever.
LEMMA KnowledgeStays ==
    ASSUME Typed, Typed', Grown, settings' = settings
    PROVE  /\ \A step \in Stages : StageKnows(step) => StageKnows(step)'
           /\ \A n \in Nat : EntryKnows(n) => EntryKnows(n)'
           /\ Granted(5) => Granted(5)'
<1>1. \A k \in 1..6 : Granted(k) => Granted(k)'
      BY GrantedStays
<1>2. ASSUME NEW step \in Stages, StageKnows(step) PROVE StageKnows(step)'
      BY <1>1, <1>2 DEF StageKnows
<1>3. ASSUME NEW n \in Nat, EntryKnows(n) PROVE EntryKnows(n)'
      BY <1>1, <1>3 DEF EntryKnows
<1> QED BY <1>1, <1>2, <1>3
-----------------------------------------------------------------------------
(* A rank goes to another step with what it has learned.                  *)

LEMMA MoveStep ==
    ASSUME IInv, NEW r \in Ranks, NEW there \in Stages, Goto(r, there),
           UNCHANGED <<inputs, posts, native, clean>>, device' \subseteq Ranks,
           Gathers(pc[r]) \subseteq Gathers(there) \/ Len(posts[r]) \in Gathers(there),
           StageKnows(there), there # "wait_validated"
    PROVE  IInv'
<1>1. /\ hooked' = hooked /\ enabled' = enabled /\ settings' = settings
      /\ posts' = posts /\ native' = native /\ clean' = clean
      BY DEF inputs
<1>2. /\ pc' \in [Ranks -> Stages] /\ pc'[r] = there
      /\ \A p \in Ranks : p # r => pc'[p] = pc[p]
      BY DEF Goto, IInv, Typed
<1>3. Typed' BY <1>1, <1>2 DEF IInv, Typed
<1>4. Placed' BY <1>1, <1>2 DEF IInv, Placed
<1>5. Grown
  <2>1. \A p \in Ranks : Len(posts[p]) \in Nat BY DEF IInv, Typed
  <2> QED BY <1>1, <2>1 DEF Grown
<1>6. Known'
  <2>1. ASSUME NEW p \in Ranks
        PROVE  /\ StageKnows(pc[p])' /\ EntryKnows(Len(posts[p]))'
               /\ Len(posts'[p]) >= 6 /\ posts'[p][6].ok => Granted(5)'
    <3>1. /\ EntryKnows(Len(posts[p]))
          /\ Len(posts[p]) >= 6 /\ posts[p][6].ok => Granted(5)
          BY DEF IInv, Known
    <3>2. Granted(5) => Granted(5)'
          BY <1>1, <1>3, <1>5, KnowledgeStays DEF IInv
    <3>3. EntryKnows(Len(posts[p]))'
          BY <1>1, <3>1 DEF EntryKnows, Granted
    <3>4. StageKnows(pc'[p])
      <4>1. CASE p = r BY <1>2, <4>1
      <4>2. CASE p # r BY <1>2, <4>2 DEF IInv, Known
      <4> QED BY <4>1, <4>2
    <3>5. StageKnows(pc[p])'
          BY <1>1, <3>4 DEF StageKnows, Granted
    <3> QED BY <1>1, <3>1, <3>2, <3>3, <3>5
  <2> QED BY <2>1 DEF Known
<1>7. Truthful' BY <1>1 DEF IInv, Truthful, TruthOf
<1>8. Lone' BY <1>1, <1>2 DEF IInv, Lone
<1> QED BY <1>3, <1>4, <1>6, <1>7, <1>8 DEF IInv
-----------------------------------------------------------------------------
(* A rank contributes to its next gather.                                  *)

LEMMA OnePosted ==
    ASSUME Typed, NEW r \in Ranks, NEW c \in Contributions,
           posts' = [posts EXCEPT ![r] = Append(@, c)]
    PROVE  /\ posts' \in [Ranks -> Seq(Contributions)]
           /\ Len(posts'[r]) = Len(posts[r]) + 1
           /\ posts'[r][Len(posts[r]) + 1] = c
           /\ \A p \in Ranks : p # r => posts'[p] = posts[p]
           /\ Grown
<1>1. posts[r] \in Seq(Contributions) /\ Len(posts[r]) \in Nat
      BY DEF Typed
<1>2. /\ posts'[r] = Append(posts[r], c)
      /\ \A p \in Ranks : p # r => posts'[p] = posts[p]
      BY DEF Typed
<1>3. /\ posts'[r] \in Seq(Contributions) /\ Len(posts'[r]) = Len(posts[r]) + 1
      /\ posts'[r][Len(posts[r]) + 1] = c
      /\ \A k \in 1..Len(posts[r]) : posts'[r][k] = posts[r][k]
      BY <1>1, <1>2
<1>4. posts' \in [Ranks -> Seq(Contributions)]
      BY <1>2, <1>3 DEF Typed
<1>5. ASSUME NEW p \in Ranks
      PROVE  /\ Len(posts'[p]) >= Len(posts[p])
             /\ \A k \in 1..Len(posts[p]) : posts'[p][k] = posts[p][k]
  <2>1. CASE p = r BY <1>1, <1>3, <2>1
  <2>2. CASE p # r
    <3>1. Len(posts[p]) \in Nat BY DEF Typed
    <3> QED BY <1>2, <2>2, <3>1
  <2> QED BY <2>1, <2>2
<1> QED BY <1>2, <1>3, <1>4, <1>5 DEF Grown

\* The n-th gather of a rank at this step.
Call(here, wait, n) == /\ n - 1 \in Gathers(here) /\ Gathers(here) \subseteq {n - 1}
                       /\ n \in Gathers(wait)

\* What a verdict is based on, and what changes with it.
Backed(r, wait, n, ok) == /\ native' \in {native, native \union {r}}
                          /\ r \in native' \ native => n = 4
                          /\ clean' \in {clean, clean \union {r}}
                          /\ device' = device
                          /\ ok = TRUE /\ n = 1 => r \in enabled
                          /\ ok = TRUE /\ n = 4 => r \in native'
                          /\ ok = TRUE /\ n = 5 => r \in clean'
                          /\ ok = TRUE /\ n = 6 => Granted(5)
                          /\ wait = "wait_validated" /\ n = 5 => ok = FALSE

LEMMA PostStep ==
    ASSUME IInv, NEW r \in Ranks, NEW here \in Stages, NEW wait \in Stages, NEW ok \in BOOLEAN,
           NEW kind \in {"enable", "metadata", "loaded", "initialized", "results", "validated"},
           Post(r, here, wait, kind, ok),
           NEW n \in 1..6, Call(here, wait, n),
           EntryKnows(n), StageKnows(wait), Backed(r, wait, n, ok)
    PROVE  IInv'
<1> DEFINE c == Contribution(kind, ok, settings[r])
<1>1. /\ hooked' = hooked /\ enabled' = enabled /\ settings' = settings
      /\ pc[r] = here /\ posts' = [posts EXCEPT ![r] = Append(@, c)]
      BY DEF Post, inputs
<1>0. /\ native' \in {native, native \union {r}} /\ clean' \in {clean, clean \union {r}}
      /\ device' = device
      BY DEF Backed
<1>2. /\ pc' \in [Ranks -> Stages] /\ pc'[r] = wait
      /\ \A p \in Ranks : p # r => pc'[p] = pc[p]
      BY DEF Post, Goto, IInv, Typed
<1>3. c \in Contributions /\ c.ok = ok /\ c.shared = settings[r]
      BY DEF Contributions, Contribution, IInv, Typed
<1>4. Len(posts[r]) = n - 1
      BY <1>1 DEF IInv, Placed, Call
<1> HIDE DEF c
<1>5. /\ posts' \in [Ranks -> Seq(Contributions)]
      /\ Len(posts'[r]) = Len(posts[r]) + 1
      /\ posts'[r][Len(posts[r]) + 1] = c
      /\ \A p \in Ranks : p # r => posts'[p] = posts[p]
      /\ Grown
      BY <1>1, <1>3, OnePosted DEF IInv
<1>6. Len(posts'[r]) = n /\ posts'[r][n] = c
  <2>1. (n - 1) + 1 = n OBVIOUS
  <2> QED BY <1>4, <1>5, <2>1
<1>7. Typed' BY <1>0, <1>1, <1>2, <1>5 DEF IInv, Typed
<1>8. Placed'
  <2>1. ASSUME NEW p \in Ranks PROVE Len(posts'[p]) \in Gathers(pc'[p])
    <3>1. CASE p = r BY <1>2, <1>6, <3>1 DEF Call
    <3>2. CASE p # r BY <1>2, <1>5, <3>2 DEF IInv, Placed
    <3> QED BY <3>1, <3>2
  <2> QED BY <2>1 DEF Placed, Gathers
<1>9. /\ \A step \in Stages : StageKnows(step) => StageKnows(step)'
      /\ \A m \in Nat : EntryKnows(m) => EntryKnows(m)'
      /\ Granted(5) => Granted(5)'
      BY <1>1, <1>5, <1>7, KnowledgeStays DEF IInv
<1>10. Known'
  <2>1. ASSUME NEW p \in Ranks
        PROVE  /\ StageKnows(pc'[p])
               /\ EntryKnows(Len(posts'[p]))
               /\ Len(posts'[p]) >= 6 /\ posts'[p][6].ok => Granted(5)
    <3>1. CASE p = r
      <4>1. n >= 6 => n = 6 OBVIOUS
      <4> QED BY <1>2, <1>3, <1>6, <3>1, <4>1 DEF Backed
    <3>2. CASE p # r
          BY <1>2, <1>5, <3>2 DEF IInv, Known
    <3> QED BY <3>1, <3>2
  <2>2. \A p \in Ranks : pc'[p] \in Stages /\ Len(posts'[p]) \in Nat
        BY <1>7 DEF Typed
  <2>3. ASSUME NEW p \in Ranks
        PROVE  /\ StageKnows(pc[p])'
               /\ EntryKnows(Len(posts[p]))'
               /\ Len(posts'[p]) >= 6 /\ posts'[p][6].ok => Granted(5)'
    <3>1. \A step \in Stages : step = pc'[p] /\ StageKnows(step)' => StageKnows(pc[p])'
          BY DEF StageKnows
    <3>2. \A m \in Nat : m = Len(posts'[p]) /\ EntryKnows(m)' => EntryKnows(Len(posts[p]))'
          BY DEF EntryKnows
    <3> QED BY <1>9, <2>1, <2>2, <3>1, <3>2
  <2> QED BY <2>3 DEF Known
<1>11. Truthful'
  <2>1. ASSUME NEW p \in Ranks, NEW k \in 1..Len(posts'[p])
        PROVE  TruthOf(p, k)'
    <3>1. CASE p = r /\ k = n
          BY <1>1, <1>3, <1>6, <3>1 DEF TruthOf, Backed
    <3>2. CASE ~(p = r /\ k = n)
      <4>1. k \in 1..Len(posts[p])
        <5>1. CASE p = r
          <6>1. Len(posts'[p]) = n /\ Len(posts[p]) = n - 1 BY <1>4, <1>6, <5>1
          <6> QED BY <3>2, <5>1, <6>1
        <5>2. CASE p # r BY <1>5, <5>2
        <5> QED BY <5>1, <5>2
      <4>2. posts'[p][k] = posts[p][k] BY <1>5, <4>1 DEF Grown
      <4>3. TruthOf(p, k) BY <4>1 DEF IInv, Truthful
      <4>4. native \subseteq native' /\ clean \subseteq clean' BY <1>0
      <4> QED BY <1>1, <4>2, <4>3, <4>4 DEF TruthOf
    <3> QED BY <3>1, <3>2
  <2>2. ASSUME NEW p \in native' PROVE Len(posts'[p]) >= 4
    <3>1. CASE p \in native
      <4>1. Len(posts[p]) >= 4 /\ Len(posts'[p]) >= Len(posts[p])
            BY <1>5, <3>1 DEF IInv, Typed, Truthful, Grown
      <4>2. Len(posts[p]) \in Nat /\ Len(posts'[p]) \in Nat
            BY <1>7, <3>1 DEF IInv, Typed
      <4> QED BY <4>1, <4>2
    <3>2. CASE p \notin native
      <4>1. p = r /\ n = 4 BY <1>0, <3>2 DEF Backed
      <4> QED BY <1>6, <4>1
    <3> QED BY <3>1, <3>2
  <2> QED BY <2>1, <2>2 DEF Truthful
<1>12. Lone'
  <2>1. ASSUME NEW p \in Ranks, pc'[p] = "wait_validated", Len(posts'[p]) = 5
        PROVE  ~posts'[p][5].ok
    <3>1. CASE p = r
      <4>1. ok = FALSE BY <1>2, <1>6, <2>1, <3>1 DEF Backed
      <4> QED BY <1>3, <1>6, <2>1, <3>1, <4>1
    <3>2. CASE p # r BY <1>2, <1>5, <2>1, <3>2 DEF IInv, Lone
    <3> QED BY <3>1, <3>2
  <2> QED BY <2>1 DEF Lone
<1> QED BY <1>7, <1>8, <1>10, <1>11, <1>12 DEF IInv
-----------------------------------------------------------------------------
(* The contributions.                                                      *)

\* Where a rank contributes there is one gather before it, and it knows of the
\* votes that led there.
LEMMA Here ==
    ASSUME IInv, NEW r \in Ranks
    PROVE  /\ EntryKnows(Len(posts[r])) /\ StageKnows(pc[r])
           /\ pc[r] = "enable" => Len(posts[r]) = 0
           /\ pc[r] = "metadata" => Len(posts[r]) = 1
           /\ pc[r] = "load" => Len(posts[r]) = 2
           /\ pc[r] = "initialize" => Len(posts[r]) = 3
           /\ pc[r] \in {"validate", "device"} => Len(posts[r]) = 4
           /\ pc[r] \in {"passed", "failed"} => Len(posts[r]) = 5
<1>1. EntryKnows(Len(posts[r])) /\ StageKnows(pc[r]) BY DEF IInv, Known
<1>2. Len(posts[r]) \in Gathers(pc[r]) BY DEF IInv, Placed
<1> QED BY <1>1, <1>2 DEF Gathers

LEMMA PostingSteps ==
    ASSUME IInv, NEW r \in Ranks,
           PostEnable(r) \/ PostMetadata(r) \/ PostLoaded(r) \/ PostInitialized(r)
    PROVE  IInv'
<1>0. /\ {"enable", "metadata", "load", "initialize", "wait_enable", "wait_metadata",
          "wait_loaded", "wait_initialized"} \subseteq Stages
      /\ StageKnows("wait_enable") /\ StageKnows("wait_metadata")
      /\ StageKnows("wait_loaded") /\ StageKnows("wait_initialized")
      BY DEF Stages, StageKnows
<1>1. CASE PostEnable(r)
  <2> DEFINE ok == r \in enabled
  <2>1. Post(r, "enable", "wait_enable", "enable", ok)
        BY <1>1 DEF PostEnable
  <2>2. Call("enable", "wait_enable", 1) /\ EntryKnows(1)
        BY DEF Call, Gathers, EntryKnows
  <2>3. Backed(r, "wait_enable", 1, ok) BY <1>1 DEF PostEnable, Backed
  <2>4. ok \in BOOLEAN OBVIOUS
  <2> HIDE DEF ok
  <2> QED BY <1>0, <2>1, <2>2, <2>3, <2>4, PostStep
<1>2. CASE PostMetadata(r)
  <2>1. PICK ok \in BOOLEAN : Post(r, "metadata", "wait_metadata", "metadata", ok)
        BY <1>2 DEF PostMetadata
  <2>2. pc[r] = "metadata"
        BY <1>2, <2>1 DEF PostMetadata, Post
  <2>3. Call("metadata", "wait_metadata", 2) BY DEF Call, Gathers
  <2>4. EntryKnows(2) BY <2>2, Here DEF EntryKnows, StageKnows
  <2>5. Backed(r, "wait_metadata", 2, ok) BY <1>2 DEF PostMetadata, Backed
  <2> QED BY <1>0, <2>1, <2>2, <2>3, <2>4, <2>5, PostStep
<1>3. CASE PostLoaded(r)
  <2>1. PICK ok \in BOOLEAN : Post(r, "load", "wait_loaded", "loaded", ok)
        BY <1>3 DEF PostLoaded
  <2>2. pc[r] = "load"
        BY <1>3, <2>1 DEF PostLoaded, Post
  <2>3. Call("load", "wait_loaded", 3) BY DEF Call, Gathers
  <2>4. EntryKnows(3) BY <2>2, Here DEF EntryKnows, StageKnows
  <2>5. Backed(r, "wait_loaded", 3, ok) BY <1>3 DEF PostLoaded, Backed
  <2> QED BY <1>0, <2>1, <2>2, <2>3, <2>4, <2>5, PostStep
<1>4. CASE PostInitialized(r)
  <2>1. PICK ok \in BOOLEAN : /\ Post(r, "initialize", "wait_initialized", "initialized", ok)
                              /\ native' = IF ok THEN native \union {r} ELSE native
        BY <1>4 DEF PostInitialized
  <2>2. pc[r] = "initialize"
        BY <1>4, <2>1 DEF PostInitialized, Post
  <2>3. Call("initialize", "wait_initialized", 4) BY DEF Call, Gathers
  <2>4. EntryKnows(4) BY <2>2, Here DEF EntryKnows, StageKnows
  <2>5. Backed(r, "wait_initialized", 4, ok) BY <1>4, <2>1 DEF PostInitialized, Backed
  <2> QED BY <1>0, <2>1, <2>2, <2>3, <2>4, <2>5, PostStep
<1> QED BY <1>1, <1>2, <1>3, <1>4

LEMMA VerdictSteps ==
    ASSUME IInv, NEW r \in Ranks, PostResults(r) \/ ValidatorRaises(r) \/ PostValidated(r)
    PROVE  IInv'
<1>0. /\ {"validate", "device", "passed", "failed", "wait_results", "wait_validated"}
             \subseteq Stages
      /\ StageKnows("wait_results") /\ StageKnows("wait_validated")
      BY DEF Stages, StageKnows
<1>1. /\ Call("device", "wait_results", 5)
      /\ \A here \in {"validate", "device"} : Call(here, "wait_validated", 5)
      /\ \A here \in {"passed", "failed"} : Call(here, "wait_validated", 6)
      BY DEF Call, Gathers
<1>2. ASSUME pc[r] \in {"validate", "device"} PROVE EntryKnows(5)
  <2>1. Len(posts[r]) = 4 /\ EntryKnows(Len(posts[r])) /\ StageKnows(pc[r]) BY <1>2, Here
  <2>2. EntryKnows(4) /\ Granted(4) BY <1>2, <2>1 DEF StageKnows
  <2> QED BY <2>2 DEF EntryKnows
<1>3. ASSUME pc[r] \in {"passed", "failed"}
      PROVE  EntryKnows(6) /\ (pc[r] = "passed" => Granted(5))
      BY <1>3, Here DEF EntryKnows, StageKnows
<1>4. CASE PostResults(r)
  <2>1. PICK ok \in BOOLEAN : /\ Post(r, "device", "wait_results", "results", ok)
                              /\ clean' = IF ok THEN clean \union {r} ELSE clean
        BY <1>4 DEF PostResults
  <2>2. pc[r] = "device"
        BY <1>4, <2>1 DEF PostResults, Post
  <2>3. Backed(r, "wait_results", 5, ok) BY <1>4, <2>1 DEF PostResults, Backed
  <2> QED BY <1>0, <1>1, <1>2, <2>1, <2>2, <2>3, PostStep
<1>5. CASE ValidatorRaises(r)
  <2>1. PICK here \in {"validate", "device"}, ok \in BOOLEAN :
            Post(r, here, "wait_validated", "validated", ok) /\ ok = FALSE
        BY <1>5 DEF ValidatorRaises
  <2>2. pc[r] = here
        BY <1>5, <2>1 DEF ValidatorRaises, Post
  <2>3. Backed(r, "wait_validated", 5, ok) BY <1>5, <2>1 DEF ValidatorRaises, Backed
  <2> QED BY <1>0, <1>1, <1>2, <2>1, <2>2, <2>3, PostStep
<1>6. CASE PostValidated(r)
  <2>1. PICK here \in {"passed", "failed"}, ok \in BOOLEAN :
            /\ Post(r, here, "wait_validated", "validated", ok)
            /\ ok = TRUE => here = "passed"
        BY <1>6 DEF PostValidated
  <2>2. pc[r] = here
        BY <1>6, <2>1 DEF PostValidated, Post
  <2>3. Backed(r, "wait_validated", 6, ok) BY <1>3, <1>6, <2>1, <2>2 DEF PostValidated, Backed
  <2> QED BY <1>0, <1>1, <1>3, <2>1, <2>2, <2>3, PostStep
<1> QED BY <1>4, <1>5, <1>6
-----------------------------------------------------------------------------
(* The gathers.                                                            *)

\* A vote that was read as granted was granted.
LEMMA ReadGranted ==
    ASSUME IInv, NEW r \in Ranks, Complete(r), AllOk(r), NEW k \in 1..6, Len(posts[r]) = k,
           k = 2 => \A c, d \in Gathered(r) : c.shared = d.shared
    PROVE  Granted(k)
<1>1. \A p \in Ranks : Len(posts[p]) >= k /\ posts[p][k] \in Gathered(r)
      BY DEF Complete, Gathered
<1>2. \A p \in Ranks : posts[p][k].ok
      BY <1>1 DEF AllOk
<1>3. ASSUME k = 2, NEW p \in Ranks, NEW q \in Ranks
      PROVE  settings[p] = settings[q]
  <2>1. posts[p][k].shared = posts[q][k].shared BY <1>1, <1>3
  <2>2. Len(posts[p]) \in Nat /\ Len(posts[q]) \in Nat BY DEF IInv, Typed
  <2>3. k \in 1..Len(posts[p]) /\ k \in 1..Len(posts[q]) BY <1>1, <2>2
  <2> QED BY <2>1, <2>3 DEF IInv, Truthful, TruthOf
<1> QED BY <1>1, <1>2, <1>3 DEF Granted

\* In the last gather, a rank sees its own verdict.
LEMMA OwnContribution ==
    ASSUME NEW r \in Ranks, AllOk(r)
    PROVE  posts[r][Len(posts[r])].ok
BY DEF AllOk, Gathered

LEMMA Waiting ==
    ASSUME IInv, NEW r \in Ranks
    PROVE  /\ pc[r] = "wait_enable" => Len(posts[r]) = 1
           /\ pc[r] = "wait_metadata" => Len(posts[r]) = 2
           /\ pc[r] = "wait_loaded" => Len(posts[r]) = 3
           /\ pc[r] = "wait_initialized" => Len(posts[r]) = 4
           /\ pc[r] = "wait_results" => Len(posts[r]) = 5
           /\ pc[r] = "wait_validated" => Len(posts[r]) \in {5, 6}
           /\ Len(posts[r]) \in 0..6
<1>1. Len(posts[r]) \in Gathers(pc[r]) BY DEF IInv, Placed
<1>2. Gathers(pc[r]) \in {{0}, {1}, {2}, {3}, {4}, {5}, {6}, {5, 6}, {0, 1}, 0..6}
      BY DEF Gathers
<1>3. Gathers(pc[r]) \subseteq 0..6 BY <1>2
<1>4. Len(posts[r]) \in 0..6 BY <1>1, <1>3
<1> QED BY <1>1, <1>4 DEF Gathers

LEMMA ReadingSteps ==
    ASSUME IInv, NEW r \in Ranks,
           \/ ReadEnable(r) \/ ReadMetadata(r) \/ ReadLoaded(r)
           \/ ReadInitialized(r) \/ ReadResults(r) \/ ReadValidated(r)
    PROVE  IInv'
\* It is enough that the rank goes to a step that its last gather leads to.
<1>1. ASSUME NEW wait \in Stages, NEW there \in Stages \ {"wait_validated"},
             Resume(r, wait, there), Len(posts[r]) \in Gathers(there), StageKnows(there)
      PROVE  IInv'
  <2>1. Goto(r, there) /\ UNCHANGED <<inputs, posts, native, clean>> /\ device' = device
        BY <1>1 DEF Resume
  <2>2. device' \subseteq Ranks BY <2>1 DEF IInv, Typed
  <2> QED BY <1>1, <2>1, <2>2, MoveStep
<1>2. /\ Ended \subseteq Stages
      /\ {"metadata", "load", "initialize", "validate", "passed", "failed", "wait_enable",
          "wait_metadata", "wait_loaded", "wait_initialized", "wait_results",
          "wait_validated"} \subseteq Stages
      /\ "wait_validated" \notin Ended
      /\ StageKnows("none") /\ StageKnows("failed")
      /\ \A step \in Gone : StageKnows(step) /\ Gathers(step) = 0..6
      BY DEF Stages, Ended, StageKnows, Gone, Gathers
<1>3. Len(posts[r]) \in 0..6 BY Waiting
<1>4. ASSUME NEW k \in 1..6, Len(posts[r]) = k, Complete(r), AllOk(r),
             k = 2 => \A c, d \in Gathered(r) : c.shared = d.shared
      PROVE  Granted(k)
      BY <1>4, ReadGranted
<1>5. "raised" \in Gone /\ "dead" \in Gone /\ Gone \subseteq Stages \ {"wait_validated"}
      BY <1>2 DEF Gone, Ended
<1>6. ASSUME NEW wait \in Stages, NEW there \in Gone, Resume(r, wait, there)
      PROVE  IInv'
      BY <1>1, <1>2, <1>3, <1>5, <1>6
<1>7. CASE ReadEnable(r)
  <2>1. Resume(r, "wait_enable", "none") \/ Resume(r, "wait_enable", "raised")
        \/ (Resume(r, "wait_enable", "metadata") /\ AllOk(r))
        BY <1>7 DEF ReadEnable
  <2>2. Len(posts[r]) = 1 /\ Complete(r) BY <1>7, Waiting DEF ReadEnable, Resume
  <2>3. 1 \in Gathers("none") /\ 1 \in Gathers("metadata") BY DEF Gathers
  <2>4. AllOk(r) => StageKnows("metadata") BY <1>4, <2>2 DEF StageKnows
  <2>5. "none" \in Stages \ {"wait_validated"} BY <1>2 DEF Ended
  <2> QED BY <1>1, <1>2, <1>5, <1>6, <2>1, <2>2, <2>3, <2>4, <2>5
<1>8. CASE ReadMetadata(r)
  <2>1. Resume(r, "wait_metadata", "raised")
        \/ (/\ Resume(r, "wait_metadata", "load")
            /\ AllOk(r) /\ \A c, d \in Gathered(r) : c.shared = d.shared)
        BY <1>8 DEF ReadMetadata
  <2>2. Len(posts[r]) = 2 /\ Complete(r) BY <1>8, Waiting DEF ReadMetadata, Resume
  <2>3. 2 \in Gathers("load") BY DEF Gathers
  <2>4. AllOk(r) /\ (\A c, d \in Gathered(r) : c.shared = d.shared) => StageKnows("load")
        BY <1>4, <2>2 DEF StageKnows
  <2> QED BY <1>1, <1>2, <1>5, <1>6, <2>1, <2>2, <2>3, <2>4
<1>9. CASE ReadLoaded(r)
  <2>1. Resume(r, "wait_loaded", "dead") \/ (Resume(r, "wait_loaded", "initialize") /\ AllOk(r))
        BY <1>9 DEF ReadLoaded
  <2>2. Len(posts[r]) = 3 /\ Complete(r) BY <1>9, Waiting DEF ReadLoaded, Resume
  <2>3. 3 \in Gathers("initialize") BY DEF Gathers
  <2>4. AllOk(r) => StageKnows("initialize") BY <1>4, <2>2 DEF StageKnows
  <2> QED BY <1>1, <1>2, <1>5, <1>6, <2>1, <2>2, <2>3, <2>4
<1>10. CASE ReadInitialized(r)
  <2>1. Resume(r, "wait_initialized", "dead")
        \/ (Resume(r, "wait_initialized", "validate") /\ AllOk(r))
        BY <1>10 DEF ReadInitialized
  <2>2. Len(posts[r]) = 4 /\ Complete(r) BY <1>10, Waiting DEF ReadInitialized, Resume
  <2>3. 4 \in Gathers("validate") BY DEF Gathers
  <2>4. AllOk(r) => StageKnows("validate") BY <1>4, <2>2 DEF StageKnows
  <2> QED BY <1>1, <1>2, <1>5, <1>6, <2>1, <2>2, <2>3, <2>4
<1>11. CASE ReadResults(r)
  <2>1. Resume(r, "wait_results", "failed") \/ (Resume(r, "wait_results", "passed") /\ AllOk(r))
        BY <1>11 DEF ReadResults
  <2>2. Len(posts[r]) = 5 /\ Complete(r) BY <1>11, Waiting DEF ReadResults, Resume
  <2>3. 5 \in Gathers("passed") /\ 5 \in Gathers("failed") BY DEF Gathers
  <2>4. AllOk(r) => StageKnows("passed") BY <1>4, <2>2 DEF StageKnows
  <2> QED BY <1>1, <1>2, <2>1, <2>2, <2>3, <2>4
<1>12. CASE ReadValidated(r)
  <2>1. Resume(r, "wait_validated", "raised") \/ Resume(r, "wait_validated", "dead")
        \/ (Resume(r, "wait_validated", "backend") /\ AllOk(r))
        BY <1>12 DEF ReadValidated
  <2>2. Len(posts[r]) \in {5, 6} /\ Complete(r) BY <1>12, Waiting DEF ReadValidated, Resume
\* A rank that skipped the gather of the differences did so with a verdict of its
\* own against the back end.
  <2>3. ASSUME AllOk(r), Resume(r, "wait_validated", "backend") PROVE Len(posts[r]) = 6
    <3>1. pc[r] = "wait_validated" BY <2>3 DEF Resume
    <3>2. posts[r][Len(posts[r])].ok BY <2>3, OwnContribution
    <3> QED BY <2>2, <3>1, <3>2 DEF IInv, Lone
  <2>4. 6 \in Gathers("backend") BY DEF Gathers
  <2>5. AllOk(r) /\ Len(posts[r]) = 6 => StageKnows("backend") BY <1>4, <2>2 DEF StageKnows
  <2>6. "backend" \in Stages \ {"wait_validated"} BY <1>2 DEF Ended
  <2> QED BY <1>1, <1>2, <1>5, <1>6, <2>1, <2>3, <2>4, <2>5, <2>6
<1> QED BY <1>7, <1>8, <1>9, <1>10, <1>11, <1>12

\* A step that leaves the contributions alone and learns nothing.
LEMMA OtherSteps ==
    ASSUME IInv, NEW r \in Ranks, Hook(r) \/ EnterDevice(r) \/ GatherFails(r) \/ Killed(r)
    PROVE  IInv'
<1>1. Len(posts[r]) \in Gathers(pc[r]) /\ Len(posts[r]) \in 0..6
      BY Waiting DEF IInv, Placed
<1>2. ASSUME NEW there \in Gone, Goto(r, there),
             UNCHANGED <<inputs, posts, native, device, clean>>
      PROVE  IInv'
  <2>1. there \in Stages /\ StageKnows(there) /\ there # "wait_validated"
        BY DEF Gone, Stages, Ended, StageKnows
  <2>2. Len(posts[r]) \in Gathers(there) BY <1>1 DEF Gone, Gathers
  <2>3. device' \subseteq Ranks BY <1>2 DEF IInv, Typed
  <2> QED BY <1>2, <2>1, <2>2, <2>3, MoveStep
<1>3. "raised" \in Gone /\ "dead" \in Gone BY DEF Gone
<1>4. CASE Killed(r) BY <1>2, <1>3, <1>4 DEF Killed
<1>5. CASE Hook(r)
  <2>1. device' \subseteq Ranks BY <1>5 DEF Hook, IInv, Typed
  <2>2. pc[r] = "hook" /\ UNCHANGED <<inputs, posts, native, device, clean>>
        BY <1>5 DEF Hook
  <2>3. ASSUME NEW there \in {"enable", "none"}, Goto(r, there) PROVE IInv'
    <3>1. there \in Stages /\ StageKnows(there) /\ there # "wait_validated"
          BY DEF Stages, Ended, StageKnows
    <3>2. Gathers(pc[r]) \subseteq Gathers(there) BY <2>2 DEF Gathers
    <3> QED BY <2>1, <2>2, <2>3, <3>1, <3>2, MoveStep
  <2> QED BY <1>2, <1>3, <1>5, <2>2, <2>3 DEF Hook
<1>6. CASE EnterDevice(r)
  <2>1. device' \subseteq Ranks BY <1>6 DEF EnterDevice, IInv, Typed
  <2>2. /\ pc[r] = "validate" /\ Goto(r, "device")
        /\ UNCHANGED <<inputs, posts, native, clean>>
        BY <1>6 DEF EnterDevice
  <2>3. "device" \in Stages BY DEF Stages
  <2>4. StageKnows("device") BY <2>2, Here DEF StageKnows
  <2>5. Gathers(pc[r]) \subseteq Gathers("device") BY <2>2 DEF Gathers
  <2> QED BY <2>1, <2>2, <2>3, <2>4, <2>5, MoveStep
<1>7. CASE GatherFails(r)
  <2>1. UNCHANGED <<inputs, posts, native, device, clean>> BY <1>7 DEF GatherFails
  <2>2. CASE pc[r] = "wait_results" /\ Goto(r, "failed")
    <3>1. device' \subseteq Ranks BY <2>1 DEF IInv, Typed
    <3>2. "failed" \in Stages /\ StageKnows("failed") BY DEF Stages, StageKnows
    <3>3. Gathers(pc[r]) \subseteq Gathers("failed") BY <2>2 DEF Gathers
    <3> QED BY <2>1, <2>2, <3>1, <3>2, <3>3, MoveStep
  <2> QED BY <1>2, <1>3, <1>7, <2>1, <2>2 DEF GatherFails
<1> QED BY <1>4, <1>5, <1>6, <1>7
-----------------------------------------------------------------------------
(* The invariant.                                                          *)

LEMMA InitInv == Init => IInv
<1> SUFFICES ASSUME Init PROVE IInv
    OBVIOUS
<1>1. \A r \in Ranks : posts[r] = <<>> /\ Len(posts[r]) = 0 BY DEF Init
<1>2. \A r \in Ranks : pc[r] \in {"hook", "enable"} BY DEF Init
<1>3. Typed
  <2>1. pc \in [Ranks -> Stages] BY DEF Init, Stages
  <2>2. posts \in [Ranks -> Seq(Contributions)] BY DEF Init
  <2> QED BY <2>1, <2>2 DEF Init, Typed
<1>4. Placed BY <1>1, <1>2 DEF Placed, Gathers
<1>5. Known
  <2>1. EntryKnows(0) BY DEF EntryKnows
  <2>2. \A step \in {"hook", "enable"} : StageKnows(step) BY DEF StageKnows
  <2>3. ~(0 >= 6) OBVIOUS
  <2> QED BY <1>1, <1>2, <2>1, <2>2, <2>3 DEF Known
<1>6. Truthful
  <2>1. native = {} BY DEF Init
  <2> QED BY <1>1, <2>1 DEF Truthful
<1>7. Lone BY <1>2 DEF Lone
<1> QED BY <1>3, <1>4, <1>5, <1>6, <1>7 DEF IInv

LEMMA NextInv == IInv /\ [Next]_vars => IInv'
<1> SUFFICES ASSUME IInv, [Next]_vars PROVE IInv'
    OBVIOUS
<1>1. CASE UNCHANGED vars
  <2>1. /\ hooked' = hooked /\ enabled' = enabled /\ settings' = settings /\ pc' = pc
        /\ posts' = posts /\ native' = native /\ device' = device /\ clean' = clean
        BY <1>1 DEF vars, inputs
  <2>2. Typed' /\ Placed' BY <2>1 DEF IInv, Typed, Placed
  <2>3. Known' BY <2>1 DEF IInv, Known, StageKnows, EntryKnows, Granted
  <2>4. Truthful' /\ Lone' BY <2>1 DEF IInv, Truthful, TruthOf, Lone
  <2> QED BY <2>2, <2>3, <2>4 DEF IInv
<1>2. ASSUME NEW r \in Ranks, Step(r) \/ ValidatorRaises(r) \/ GatherFails(r) \/ Killed(r)
      PROVE  IInv'
      BY <1>2, PostingSteps, VerdictSteps, ReadingSteps, OtherSteps DEF Step
<1> QED BY <1>1, <1>2 DEF Next

\* Every behaviour keeps the invariant.
THEOREM Invariance == Spec => []IInv
<1> QED BY InitInv, NextInv, PTL DEF Spec

LEMMA InvTypes == IInv => TypeOK
<1> SUFFICES ASSUME IInv PROVE TypeOK
    OBVIOUS
<1>1. ASSUME NEW r \in Ranks
      PROVE  /\ Len(posts[r]) <= 6
             /\ \A k \in 1..Len(posts[r]) : posts[r][k] \in Contributions
  <2>1. Len(posts[r]) \in 0..6 BY Waiting
  <2>2. posts[r] \in Seq(Contributions) BY DEF IInv, Typed
  <2>3. \A k \in 1..Len(posts[r]) : posts[r][k] \in Contributions BY <2>2
  <2>4. \A n \in 0..6 : n <= 6 OBVIOUS
  <2> QED BY <2>1, <2>3, <2>4
<1> QED BY <1>1 DEF IInv, Typed, TypeOK, Stages, Contributions

\* Six votes were granted to a rank that returns a back end.
LEMMA SixVotes ==
    ASSUME IInv, NEW r \in Ranks, pc[r] = "backend"
    PROVE  \A k \in 1..6 : Granted(k)
<1>1. Granted(6) BY DEF IInv, Known, StageKnows
<1>2. Len(posts[r]) \in 0..6 /\ Len(posts[r]) >= 6 /\ posts[r][6].ok
      BY <1>1, Waiting DEF Granted
<1>3. Len(posts[r]) = 6 BY <1>2
<1>4. EntryKnows(6) /\ Granted(5) BY <1>2, <1>3 DEF IInv, Known
<1>5. Granted(1) /\ Granted(2) /\ Granted(3) /\ Granted(4) BY <1>4 DEF EntryKnows
<1>6. \A k \in 1..6 : k \in {1, 2, 3, 4, 5, 6} OBVIOUS
<1> QED BY <1>1, <1>4, <1>5, <1>6

\* For any number of ranks, whatever their flags and whoever fails: none uses the
\* RDMA collective while another stays with RCCL.
THEOREM NoSplitHolds == Spec => []NoSplit
<1>1. ASSUME IInv PROVE NoSplit
  <2>1. ASSUME NEW r \in Ranks, NEW p \in Ranks, pc[r] = "backend" PROVE pc[p] # "none"
    <3>1. Granted(6) BY <1>1, <2>1, SixVotes
    <3>2. Len(posts[p]) >= 6 BY <3>1 DEF Granted
    <3>3. Len(posts[p]) \in Gathers(pc[p]) BY <1>1 DEF IInv, Placed
    <3>4. Gathers("none") = {0, 1} BY DEF Gathers
    <3> QED BY <3>2, <3>3, <3>4
  <2> QED BY <1>1, <2>1, InvTypes DEF NoSplit
<1> QED BY <1>1, Invariance, PTL

\* A back end that is returned was earned on every rank, and a native one is made
\* only where all ranks have loaded the same library.
THEOREM BackendEarnedHolds == Spec => []BackendEarned
<1>1. ASSUME IInv PROVE BackendEarned
  <2>1. ASSUME NEW p \in Ranks, NEW k \in 1..6, Granted(k)
        PROVE  TruthOf(p, k) /\ posts[p][k].ok
    <3>1. Len(posts[p]) \in Nat BY <1>1 DEF IInv, Typed
    <3>2. Len(posts[p]) >= k /\ posts[p][k].ok BY <2>1 DEF Granted
    <3>3. k \in 1..Len(posts[p]) BY <3>1, <3>2
    <3> QED BY <1>1, <3>2, <3>3 DEF IInv, Truthful
  <2>2. ASSUME NEW r \in Ranks, pc[r] = "backend"
        PROVE  /\ enabled = Ranks /\ native = Ranks /\ clean = Ranks
               /\ \A p, q \in Ranks : settings[p] = settings[q]
    <3>1. Granted(1) /\ Granted(2) /\ Granted(4) /\ Granted(5)
          BY <1>1, <2>2, SixVotes
    <3>2. ASSUME NEW p \in Ranks PROVE p \in enabled /\ p \in native /\ p \in clean
      <4>1. TruthOf(p, 1) /\ posts[p][1].ok BY <2>1, <3>1
      <4>2. TruthOf(p, 4) /\ posts[p][4].ok BY <2>1, <3>1
      <4>3. TruthOf(p, 5) /\ posts[p][5].ok BY <2>1, <3>1
      <4> QED BY <4>1, <4>2, <4>3 DEF TruthOf
    <3>3. \A p, q \in Ranks : settings[p] = settings[q]
          BY <3>1 DEF Granted
    <3> QED BY <1>1, <3>2, <3>3 DEF IInv, Typed
  <2>3. ASSUME NEW r \in native, NEW p \in Ranks
        PROVE  Len(posts[p]) >= 3 /\ posts[p][3].ok /\ settings[p] = settings[r]
    <3>1. r \in Ranks /\ Len(posts[r]) \in Nat /\ Len(posts[r]) >= 4
          BY <1>1, <2>3 DEF IInv, Typed, Truthful
    <3>2. EntryKnows(Len(posts[r])) BY <1>1, <3>1 DEF IInv, Known
    <3>3. \A n \in Nat : n >= 4 /\ EntryKnows(n) => Granted(2) /\ Granted(3)
          BY DEF EntryKnows
    <3>4. Granted(2) /\ Granted(3) BY <3>1, <3>2, <3>3
    <3> QED BY <3>1, <3>4 DEF Granted
  <2> QED BY <2>2, <2>3 DEF BackendEarned
<1> QED BY <1>1, Invariance, PTL
-----------------------------------------------------------------------------
(***************************************************************************)
(* The pool of descriptors.  A descriptor stands in the queue of one       *)
(* stream only (Apart), and more than once only if it is that of a graph   *)
(* (Behind): so what the copies and the callback of a call leave in its    *)
(* descriptor and in the arena is there when the next looks (Carried).     *)
(***************************************************************************)
Items == [desc : Descriptors, id : 1..MaxCalls]

Apart == \A s, t \in Streams : s # t =>
             \A j \in DOMAIN queue[s], k \in DOMAIN queue[t] :
                 queue[s][j].desc # queue[t][k].desc
Behind == \A s \in Streams : \A j, k \in DOMAIN queue[s] :
              j # k /\ queue[s][j].desc = queue[s][k].desc => queue[s][j].desc \in graphs

\* The operand of the first call of s is where its stage says.
First(s) == Head(queue[s])
Carried(s) ==
    /\ stage[s] # "idle" => queue[s] # <<>>
    /\ stage[s] = "staged" => slotIn[First(s).desc] = First(s).id
    /\ stage[s] = "running" => arenaIn = First(s).id
    /\ stage[s] = "reduced" => arenaOut = First(s).id
    /\ stage[s] = "answered" => slotOut[First(s).desc] = First(s).id
    /\ stage[s] = "landed" => output[s] = First(s).id
    /\ stage[s] \in {"staged", "running", "reduced", "answered"} => output[s] = 0

\* The flag is up while a callback is at work, and one callback is.
Working == {"running", "reduced"}
OneAtWork == \A s \in Streams : stage[s] \in Working =>
                 active /\ \A t \in Streams : stage[t] \in Working => t = s

Exhausted == /\ fatal = "eager exhausted" => \A d \in Eager : Pending(d)
             /\ fatal = "capture exhausted" => captured = Descriptors \ Eager

\* Nothing runs, and nothing can be replayed, once close goes past the synchronization.
ClosedQuiet == /\ closing # "no" => graphs = {}
               /\ closing \in {"destroy", "free", "closed"} =>
                      ~ready /\ \A s \in Streams : queue[s] = <<>>
               /\ ~transport => closing \in {"free", "closed"}

PoolInv == /\ PoolTypeOK /\ Apart /\ Behind
           /\ \A s \in Streams : Carried(s)
           /\ OneAtWork /\ Exhausted /\ ClosedQuiet
-----------------------------------------------------------------------------
(***************************************************************************)
(* The descriptors, and the scans for one.                                 *)

LEMMA Parts ==
    /\ EagerCount \in Nat \ {0} /\ CaptureCount \in Nat \ {0}
    /\ EagerCount + CaptureCount = Count
    /\ Eager \subseteq Descriptors
BY CountAssumption DEF EagerCount, CaptureCount, Eager, Descriptors

\* A scan from any cursor comes by every place of a ring, and by no other.
LEMMA Around ==
    ASSUME NEW n \in Nat \ {0}, NEW c \in 0..n - 1
    PROVE  /\ \A i \in 0..n - 1 : (c + i) % n \in 0..n - 1
           /\ \A d \in 0..n - 1 : \E i \in 0..n - 1 : (c + i) % n = d
<1>1. ASSUME NEW d \in 0..n - 1, c <= d
      PROVE  d - c \in 0..n - 1 /\ (c + (d - c)) % n = d
      BY <1>1
<1>2. ASSUME NEW d \in 0..n - 1, ~(c <= d)
      PROVE  d - c + n \in 0..n - 1 /\ (c + (d - c + n)) % n = d
      BY <1>2
<1>3. \A i \in 0..n - 1 : (c + i) % n \in 0..n - 1 OBVIOUS
<1> QED BY <1>1, <1>2, <1>3

LEMMA Onward ==
    ASSUME NEW n \in Nat \ {0}, NEW d \in 0..n - 1
    PROVE  (d + 1) % n \in 0..n - 1
OBVIOUS

\* Min is a member, here of a set of offsets.
LEMMA Least ==
    ASSUME NEW S, S \subseteq Nat, S # {}
    PROVE  Min(S) \in S
<1>1. \E R : IsWellFoundedOn(R, Nat) /\ \A x, y \in Nat : y < x => <<y, x>> \in R
  <2>1. \A x, y \in Nat : y < x => <<y, x>> \in OpToRel(<, Nat) BY DEF OpToRel
  <2> QED BY <2>1, NatLessThanWellFounded
<1>2. PICK R : IsWellFoundedOn(R, Nat) /\ \A x, y \in Nat : y < x => <<y, x>> \in R
      BY <1>1
<1>3. \E x \in S : \A y \in S : <<y, x>> \notin R BY <1>2, WFMin
<1>4. PICK x \in S : \A y \in S : <<y, x>> \notin R BY <1>3
<1>5. \A a, b \in Nat : b < a => <<b, a>> \in R BY <1>2
<1>6. \A y \in S : ~(y < x) BY <1>4, <1>5, Zenon
<1>7. \A y \in S : x <= y BY <1>6, SMT
<1> QED BY <1>7 DEF Min

\* The scan of the eager part finds a descriptor whose call has returned, if there is one.
LEMMA EagerScan ==
    ASSUME next_eager \in Eager
    PROVE  /\ FreeEager # {} =>
                  LET d == (next_eager + Min(FreeEager)) % EagerCount
                  IN  d \in Eager /\ ~Pending(d) /\ (d + 1) % EagerCount \in Eager
           /\ FreeEager = {} => \A d \in Eager : Pending(d)
<1> DEFINE At(i) == (next_eager + i) % EagerCount
<1>1. EagerCount \in Nat \ {0} /\ next_eager \in 0..EagerCount - 1 BY Parts DEF Eager
<1>2. \A i \in Eager : At(i) \in Eager BY <1>1, Around DEF Eager
<1>3. \A d \in Eager : \E i \in Eager : At(i) = d BY <1>1, Around DEF Eager
<1>4. FreeEager = {i \in Eager : ~Pending(At(i))} BY DEF FreeEager
<1> HIDE DEF At
<1>5. ASSUME FreeEager # {}
      PROVE  LET d == At(Min(FreeEager))
             IN  d \in Eager /\ ~Pending(d) /\ (d + 1) % EagerCount \in Eager
  <2>1. FreeEager \subseteq Nat BY <1>1, <1>4 DEF Eager
  <2>2. Min(FreeEager) \in FreeEager BY <1>5, <2>1, Least
  <2>3. At(Min(FreeEager)) \in Eager /\ ~Pending(At(Min(FreeEager))) BY <1>2, <1>4, <2>2
  <2>4. (At(Min(FreeEager)) + 1) % EagerCount \in Eager BY <1>1, <2>3, Onward DEF Eager
  <2> QED BY <2>3, <2>4
<1>6. FreeEager = {} => \A d \in Eager : Pending(d) BY <1>3, <1>4
<1> QED BY <1>5, <1>6 DEF At

\* And that of the other part one that no graph was ever given, or there is none.
LEMMA CaptureScan ==
    ASSUME next_capture \in 0..CaptureCount - 1, captured \subseteq Descriptors \ Eager
    PROVE  /\ FreeCapture # {} =>
                  LET i == (next_capture + Min(FreeCapture)) % CaptureCount
                  IN  /\ EagerCount + i \in Descriptors \ Eager /\ EagerCount + i \notin captured
                      /\ (i + 1) % CaptureCount \in 0..CaptureCount - 1
           /\ FreeCapture = {} => captured = Descriptors \ Eager
<1> DEFINE At(i) == (next_capture + i) % CaptureCount
           Offsets == 0..CaptureCount - 1
<1>1. /\ EagerCount \in Nat \ {0} /\ CaptureCount \in Nat \ {0}
      /\ EagerCount + CaptureCount = Count BY Parts
<1>2. \A i \in Offsets : At(i) \in Offsets BY <1>1, Around
<1>3. \A d \in Offsets : \E i \in Offsets : At(i) = d BY <1>1, Around
<1>4. FreeCapture = {i \in Offsets : EagerCount + At(i) \notin captured} BY DEF FreeCapture
<1>5. \A i \in Offsets : EagerCount + i \in Descriptors \ Eager
      BY <1>1 DEF Descriptors, Eager
<1>6. \A d \in Descriptors \ Eager : \E i \in Offsets : d = EagerCount + i
  <2> SUFFICES ASSUME NEW d \in Descriptors \ Eager
               PROVE  d - EagerCount \in Offsets /\ d = EagerCount + (d - EagerCount)
      OBVIOUS
  <2> QED BY <1>1, CountAssumption DEF Descriptors, Eager
<1>7. \A i \in Offsets : (i + 1) % CaptureCount \in Offsets BY <1>1, Onward
<1>8. Offsets \subseteq Nat BY <1>1
<1> HIDE DEF At, Offsets
<1>9. ASSUME FreeCapture # {}
      PROVE  LET i == At(Min(FreeCapture))
             IN  /\ EagerCount + i \in Descriptors \ Eager /\ EagerCount + i \notin captured
                 /\ (i + 1) % CaptureCount \in Offsets
  <2>1. FreeCapture \subseteq Nat BY <1>4, <1>8
  <2>2. Min(FreeCapture) \in FreeCapture BY <1>9, <2>1, Least
  <2>3. At(Min(FreeCapture)) \in Offsets /\ EagerCount + At(Min(FreeCapture)) \notin captured
        BY <1>2, <1>4, <2>2
  <2> QED BY <1>5, <1>7, <2>3
<1>10. ASSUME FreeCapture = {} PROVE captured = Descriptors \ Eager
  <2>1. \A i \in Offsets : EagerCount + At(i) \in captured BY <1>4, <1>10
  <2>2. \A d \in Offsets : EagerCount + d \in captured BY <1>3, <2>1
  <2>3. \A d \in Descriptors \ Eager : d \in captured BY <1>6, <2>2
  <2> QED BY <2>3
<1> QED BY <1>9, <1>10 DEF At, Offsets
-----------------------------------------------------------------------------
(***************************************************************************)
(* Queues.                                                                 *)

LEMMA Appended ==
    ASSUME NEW S, NEW q \in Seq(S), NEW e \in S
    PROVE  /\ Append(q, e) \in Seq(S) /\ Append(q, e) # <<>>
           /\ q # <<>> => Head(Append(q, e)) = Head(q)
           /\ \A k \in DOMAIN Append(q, e) :
                  \/ k \in DOMAIN q /\ Append(q, e)[k] = q[k]
                  \/ k = Len(q) + 1 /\ Append(q, e)[k] = e
OBVIOUS

LEMMA Tailed ==
    ASSUME NEW S, NEW q \in Seq(S), q # <<>>
    PROVE  /\ Tail(q) \in Seq(S)
           /\ \A k \in DOMAIN Tail(q) : k \in Nat /\ k + 1 \in DOMAIN q /\ Tail(q)[k] = q[k + 1]
OBVIOUS

LEMMA Headed ==
    ASSUME NEW S, NEW q \in Seq(S), q # <<>>
    PROVE  Head(q) \in S /\ 1 \in DOMAIN q /\ Head(q) = q[1]
OBVIOUS

\* The first call of a stream with one.
LEMMA FirstCall ==
    ASSUME PoolInv, NEW s \in Streams, queue[s] # <<>>
    PROVE  /\ First(s) \in Items /\ First(s).desc \in Descriptors /\ First(s).id \in 1..MaxCalls
           /\ 1 \in DOMAIN queue[s] /\ queue[s][1] = First(s)
<1>1. queue[s] \in Seq(Items) BY DEF PoolInv, PoolTypeOK, Items
<1>2. First(s) \in Items /\ 1 \in DOMAIN queue[s] /\ First(s) = queue[s][1]
      BY <1>1, Headed DEF First
<1> QED BY <1>2 DEF Items

\* No two streams work in one descriptor.
LEMMA FirstApart ==
    ASSUME PoolInv, NEW s \in Streams, NEW t \in Streams, s # t,
           queue[s] # <<>>, queue[t] # <<>>
    PROVE  First(s).desc # First(t).desc
<1>1. /\ 1 \in DOMAIN queue[s] /\ queue[s][1] = First(s)
      /\ 1 \in DOMAIN queue[t] /\ queue[t][1] = First(t) BY FirstCall
<1> QED BY <1>1 DEF PoolInv, Apart

\* Carried depends on this much.
LEMMA SameCarried ==
    ASSUME NEW t \in Streams, Carried(t),
           stage'[t] = stage[t], output'[t] = output[t],
           stage[t] # "idle" =>
               /\ queue'[t] # <<>> /\ First(t)' = First(t)
               /\ slotIn'[First(t).desc] = slotIn[First(t).desc]
               /\ slotOut'[First(t).desc] = slotOut[First(t).desc],
           stage[t] = "running" => arenaIn' = arenaIn,
           stage[t] = "reduced" => arenaOut' = arenaOut
    PROVE  Carried(t)'
<1>1. CASE stage[t] = "idle" BY <1>1 DEF Carried
<1>2. CASE stage[t] # "idle"
  <2>1. First(t)' = First(t) /\ queue'[t] # <<>> /\ queue[t] # <<>> BY <1>2 DEF Carried
  <2> QED BY <1>2, <2>1 DEF Carried
<1> QED BY <1>1, <1>2
-----------------------------------------------------------------------------
(***************************************************************************)
(* The invariant holds at first, and every step keeps it.                  *)

LEMMA PoolInitInv == PoolInit => PoolInv
<1> SUFFICES ASSUME PoolInit PROVE PoolInv
    OBVIOUS
<1>1. \A s \in Streams : queue[s] = <<>> /\ stage[s] = "idle" BY DEF PoolInit
<1>2. <<>> \in Seq(Items) /\ DOMAIN <<>> = {} OBVIOUS
<1>3. 0 \in Eager /\ 0 \in 0..CaptureCount - 1 BY Parts DEF Eager
<1>4. queue \in [Streams -> Seq(Items)] BY <1>2 DEF PoolInit
<1>5. PoolTypeOK
  <2>1. 0 \in 0..MaxCalls BY BoundAssumption
  <2>2. /\ stage \in [Streams -> {"idle", "staged", "running", "reduced", "answered", "landed"}]
        /\ output \in [Streams -> 0..MaxCalls] /\ calls \in 0..MaxCalls
        /\ slotIn \in [Descriptors -> 0..MaxCalls] /\ slotOut \in [Descriptors -> 0..MaxCalls]
        BY <2>1 DEF PoolInit
  <2>3. /\ arenaIn \in 0..MaxCalls /\ arenaOut \in 0..MaxCalls /\ active \in BOOLEAN
        /\ captured \subseteq Descriptors \ Eager /\ graphs \subseteq captured
        /\ next_eager \in Eager /\ next_capture \in 0..CaptureCount - 1
        BY <1>3, <2>1 DEF PoolInit
  <2>4. /\ ready \in BOOLEAN /\ transport \in BOOLEAN
        /\ closing \in {"no", "sync", "destroy", "free", "closed"}
        /\ fatal \in {"no", "eager exhausted", "capture exhausted", "clash", "transport", "hip"}
        BY DEF PoolInit
  <2> QED BY <1>4, <2>2, <2>3, <2>4 DEF PoolTypeOK, Items
<1>6. Apart /\ Behind
  <2>1. \A s \in Streams : DOMAIN queue[s] = {} BY <1>1, <1>2
  <2> QED BY <2>1 DEF Apart, Behind
<1>7. \A s \in Streams : Carried(s) BY <1>1 DEF Carried
<1>8. OneAtWork BY <1>1 DEF OneAtWork, Working
<1>9. Exhausted /\ ClosedQuiet BY DEF PoolInit, Exhausted, ClosedQuiet
<1> QED BY <1>5, <1>6, <1>7, <1>8, <1>9 DEF PoolInv

\* The end of the process keeps everything but the reason.
LEMMA DieStep ==
    ASSUME PoolInv, NEW why, Die(why),
           why \in {"eager exhausted", "capture exhausted", "clash", "transport", "hip"},
           why = "eager exhausted" => \A d \in Eager : Pending(d),
           why = "capture exhausted" => captured = Descriptors \ Eager
    PROVE  PoolInv'
<1>1. /\ UNCHANGED <<queue, stage, output, calls>>
      /\ UNCHANGED <<slotIn, slotOut, arenaIn, arenaOut, active>>
      /\ UNCHANGED <<captured, next_eager, next_capture>>
      /\ UNCHANGED <<ready, transport, closing, graphs>> /\ fatal' = why
      BY DEF Die, streamVars, dataVars, cursorVars, lifeVars
<1>2. PoolTypeOK' BY <1>1 DEF PoolInv, PoolTypeOK
<1>3. queue' = queue /\ graphs' = graphs BY <1>1
<1>4. Apart' /\ Behind'
  <2>1. Apart' BY <1>3 DEF PoolInv, Apart
  <2>2. Behind' BY <1>3 DEF PoolInv, Behind
  <2> QED BY <2>1, <2>2
<1>8. \A s \in Streams : Carried(s)'
      BY <1>1 DEF PoolInv, Carried, First
<1>5. OneAtWork' /\ ClosedQuiet' BY <1>1 DEF PoolInv, OneAtWork, ClosedQuiet
<1>6. \A d \in Eager : Pending(d)' <=> Pending(d) BY <1>1 DEF Pending, Held
<1>7. Exhausted' BY <1>1, <1>6 DEF Exhausted
<1> QED BY <1>2, <1>4, <1>5, <1>7, <1>8 DEF PoolInv

\* A call at the end of a stream, of a descriptor that no other stream holds and that this
\* one holds only if it is a graph's.
LEMMA PushStep ==
    ASSUME PoolInv, NEW s \in Streams, NEW d \in Descriptors,
           Alive, closing = "no", calls < MaxCalls,
           \A t \in Streams : t # s => d \notin Held(t),
           d \in Held(s) => d \in graphs,
           Push(s, d), captured' = captured, UNCHANGED <<lifeVars, graphs, fatal>>,
           next_eager' \in Eager, next_capture' \in 0..CaptureCount - 1
    PROVE  PoolInv'
<1> DEFINE e == [desc |-> d, id |-> calls + 1]
<1>1. /\ queue' = [queue EXCEPT ![s] = Append(@, e)] /\ calls' = calls + 1
      /\ stage' = stage /\ output' = output
      /\ UNCHANGED <<slotIn, slotOut, arenaIn, arenaOut, active>>
      /\ UNCHANGED <<ready, transport, closing>> /\ graphs' = graphs /\ fatal' = fatal
      BY DEF Push, dataVars, lifeVars
<1>2. e \in Items /\ calls + 1 \in 0..MaxCalls
  <2>1. calls \in 0..MaxCalls BY DEF PoolInv, PoolTypeOK
  <2>2. calls + 1 \in 1..MaxCalls BY <2>1, BoundAssumption
  <2> QED BY <2>2 DEF Items
<1>3. queue \in [Streams -> Seq(Items)] BY DEF PoolInv, PoolTypeOK, Items
<1>4. /\ queue' \in [Streams -> Seq(Items)]
      /\ queue'[s] = Append(queue[s], e)
      /\ \A t \in Streams : t # s => queue'[t] = queue[t]
  <2>1. Append(queue[s], e) \in Seq(Items) BY <1>2, <1>3, Appended
  <2> QED BY <1>1, <1>3, <2>1
<1>5. e.desc = d OBVIOUS
<1> HIDE DEF e
<1>6. \A k \in DOMAIN queue'[s] :
          \/ k \in DOMAIN queue[s] /\ queue'[s][k] = queue[s][k]
          \/ k = Len(queue[s]) + 1 /\ queue'[s][k].desc = d
      BY <1>2, <1>3, <1>4, <1>5, Appended
<1>7. \A t \in Streams : \A k \in DOMAIN queue[t] : queue[t][k].desc \in Held(t) BY DEF Held
<1>8. PoolTypeOK'
  <2>1. /\ stage' \in [Streams -> {"idle", "staged", "running", "reduced", "answered", "landed"}]
        /\ output' \in [Streams -> 0..MaxCalls] /\ calls' \in 0..MaxCalls
        /\ slotIn' \in [Descriptors -> 0..MaxCalls] /\ slotOut' \in [Descriptors -> 0..MaxCalls]
        BY <1>1, <1>2 DEF PoolInv, PoolTypeOK
  <2> QED BY <1>1, <1>4, <2>1 DEF PoolInv, PoolTypeOK, Items
<1>9. Apart'
  <2>1. ASSUME NEW t \in Streams, t # s, NEW j \in DOMAIN queue'[s], NEW k \in DOMAIN queue[t]
        PROVE  queue'[s][j].desc # queue[t][k].desc
    <3>1. CASE j \in DOMAIN queue[s] /\ queue'[s][j] = queue[s][j]
          BY <2>1, <3>1 DEF PoolInv, Apart
    <3>2. CASE queue'[s][j].desc = d
          BY <1>7, <2>1, <3>2
    <3> QED BY <1>6, <2>1, <3>1, <3>2
  <2>2. \A t, u \in Streams : t # u /\ t # s /\ u # s =>
            \A j \in DOMAIN queue'[t], k \in DOMAIN queue'[u] : queue'[t][j].desc # queue'[u][k].desc
        BY <1>4 DEF PoolInv, Apart
  <2>3. \A u \in Streams : u # s =>
            \A j \in DOMAIN queue'[s], k \in DOMAIN queue'[u] : queue'[s][j].desc # queue'[u][k].desc
        BY <1>4, <2>1
  <2>4. \A t, u \in Streams : t # u =>
            \A j \in DOMAIN queue'[t], k \in DOMAIN queue'[u] : queue'[t][j].desc # queue'[u][k].desc
    <3> SUFFICES ASSUME NEW t \in Streams, NEW u \in Streams, t # u,
                        NEW j \in DOMAIN queue'[t], NEW k \in DOMAIN queue'[u]
                 PROVE  queue'[t][j].desc # queue'[u][k].desc
        OBVIOUS
    <3>1. CASE t = s BY <2>3, <3>1
    <3>2. CASE u = s BY <2>3, <3>2
    <3>3. CASE t # s /\ u # s BY <2>2, <3>3
    <3> QED BY <3>1, <3>2, <3>3
  <2> QED BY <2>4 DEF Apart
<1>10. Behind'
  <2>1. ASSUME NEW j \in DOMAIN queue'[s], NEW k \in DOMAIN queue'[s], j # k,
               queue'[s][j].desc = queue'[s][k].desc
        PROVE  queue'[s][j].desc \in graphs
    <3>1. CASE /\ j \in DOMAIN queue[s] /\ queue'[s][j] = queue[s][j]
               /\ k \in DOMAIN queue[s] /\ queue'[s][k] = queue[s][k]
          BY <2>1, <3>1 DEF PoolInv, Behind
    <3>2. CASE j \in DOMAIN queue[s] /\ queue'[s][j] = queue[s][j] /\ queue'[s][k].desc = d
          BY <1>7, <2>1, <3>2
    <3>3. CASE k \in DOMAIN queue[s] /\ queue'[s][k] = queue[s][k] /\ queue'[s][j].desc = d
          BY <1>7, <2>1, <3>3
    <3> QED BY <1>6, <2>1, <3>1, <3>2, <3>3
  <2>2. \A t \in Streams : t # s =>
            \A j, k \in DOMAIN queue'[t] :
                j # k /\ queue'[t][j].desc = queue'[t][k].desc => queue'[t][j].desc \in graphs
        BY <1>4 DEF PoolInv, Behind
  <2>3. graphs' = graphs BY <1>1
  <2> QED BY <2>1, <2>2, <2>3 DEF Behind
<1>11. ASSUME NEW t \in Streams PROVE Carried(t)'
  <2>1. Carried(t) BY DEF PoolInv
  <2>2. ASSUME stage[t] # "idle" PROVE queue'[t] # <<>> /\ First(t)' = First(t)
    <3>1. queue[t] # <<>> BY <2>1, <2>2 DEF Carried
    <3>2. CASE t = s
      <4>1. queue'[s] # <<>> /\ Head(queue'[s]) = Head(queue[s])
            BY <1>2, <1>3, <1>4, <3>1, <3>2, Appended
      <4> QED BY <3>2, <4>1 DEF First
    <3>3. CASE t # s BY <1>4, <3>1, <3>3 DEF First
    <3> QED BY <3>2, <3>3
  <2> QED BY <1>1, <2>1, <2>2, SameCarried
<1>12. OneAtWork' BY <1>1 DEF PoolInv, OneAtWork
<1>13. Exhausted' BY <1>1 DEF Exhausted, Alive
<1>14. ClosedQuiet' BY <1>1 DEF PoolInv, ClosedQuiet
<1> QED BY <1>8, <1>9, <1>10, <1>11, <1>12, <1>13, <1>14 DEF PoolInv

LEMMA EnqueueStep ==
    ASSUME PoolInv, NEW s \in Streams, Enqueue(s)
    PROVE  PoolInv'
<1> DEFINE d == (next_eager + Min(FreeEager)) % EagerCount
<1>1. next_eager \in Eager BY DEF PoolInv, PoolTypeOK
<1>2. CASE FreeEager # {}
  <2>1. d \in Eager /\ ~Pending(d) /\ (d + 1) % EagerCount \in Eager
        BY <1>1, <1>2, EagerScan
  <2>2. TakeEager(s, d) /\ Alive /\ closing = "no" /\ calls < MaxCalls
        BY <1>2 DEF Enqueue, Open, MoreCalls
  <2> HIDE DEF d
  <2>3. d \in Descriptors /\ \A t \in Streams : d \notin Held(t)
        BY <2>1, Parts DEF Pending
  <2>4. /\ Push(s, d) /\ captured' = captured /\ UNCHANGED <<lifeVars, graphs, fatal>>
        /\ next_eager' \in Eager /\ next_capture' \in 0..CaptureCount - 1
        BY <2>1, <2>2 DEF TakeEager, PoolInv, PoolTypeOK
  <2> QED BY <2>2, <2>3, <2>4, PushStep
<1>3. CASE FreeEager = {}
  <2>1. \A x \in Eager : Pending(x) BY <1>1, <1>3, EagerScan
  <2>2. Die("eager exhausted") BY <1>3 DEF Enqueue
  <2> QED BY <2>1, <2>2, DieStep
<1> QED BY <1>2, <1>3

LEMMA ReplayStep ==
    ASSUME PoolInv, NEW s \in Streams, NEW d \in graphs, Replay(s, d)
    PROVE  PoolInv'
<1>1. /\ Alive /\ calls < MaxCalls /\ Push(s, d) /\ \A t \in Streams : t # s => d \notin Held(t)
      /\ captured' = captured /\ next_eager' = next_eager /\ next_capture' = next_capture
      /\ UNCHANGED <<lifeVars, graphs, fatal>>
      BY DEF Replay, MoreCalls, cursorVars
<1>2. closing = "no" BY DEF PoolInv, ClosedQuiet
<1>3. d \in Descriptors BY DEF PoolInv, PoolTypeOK
<1>4. next_eager' \in Eager /\ next_capture' \in 0..CaptureCount - 1
      BY <1>1 DEF PoolInv, PoolTypeOK
<1> QED BY <1>1, <1>2, <1>3, <1>4, PushStep

\* Nothing but the part of a first call that Advance names moves.
LEMMA Stepped ==
    ASSUME PoolInv, NEW s \in Streams, NEW here, NEW there, Advance(s, here, there),
           there \in {"idle", "staged", "running", "reduced", "answered", "landed"}
    PROVE  /\ Alive /\ queue[s] # <<>> /\ stage[s] = here /\ stage'[s] = there
           /\ \A t \in Streams : t # s => stage'[t] = stage[t]
           /\ stage' \in [Streams -> {"idle", "staged", "running", "reduced", "answered", "landed"}]
           /\ calls' = calls /\ captured' = captured
           /\ next_eager' = next_eager /\ next_capture' = next_capture
           /\ ready' = ready /\ transport' = transport /\ closing' = closing
           /\ graphs' = graphs /\ fatal' = fatal
BY DEF Advance, PoolInv, PoolTypeOK, cursorVars, lifeVars

\* A step of the first call of s that leaves the queues alone.
LEMMA WorkStep ==
    ASSUME PoolInv, NEW s \in Streams, NEW here, NEW there, Advance(s, here, there),
           there \in {"staged", "running", "reduced", "answered", "landed"},
           queue' = queue,
           output' \in [Streams -> 0..MaxCalls],
           slotIn' \in [Descriptors -> 0..MaxCalls], slotOut' \in [Descriptors -> 0..MaxCalls],
           arenaIn' \in 0..MaxCalls, arenaOut' \in 0..MaxCalls,
           Carried(s)', \A t \in Streams : t # s => Carried(t)', OneAtWork', active' \in BOOLEAN
    PROVE  PoolInv'
<1>1. PoolTypeOK' BY Stepped DEF PoolInv, PoolTypeOK
<1>2. Apart' BY DEF PoolInv, Apart
<1>3. graphs' = graphs BY Stepped
<1>4. Behind' BY <1>3 DEF PoolInv, Behind
<1>5. fatal = "no" /\ fatal' = fatal BY Stepped DEF Alive
<1>6. Exhausted' BY <1>5 DEF Exhausted
<1>7. ClosedQuiet' BY Stepped DEF PoolInv, ClosedQuiet
<1> QED BY <1>1, <1>2, <1>4, <1>6, <1>7 DEF PoolInv

LEMMA CopyInStep ==
    ASSUME PoolInv, NEW s \in Streams, CopyIn(s)
    PROVE  PoolInv'
<1>1. /\ Advance(s, "idle", "staged") /\ queue' = queue
      /\ slotIn' = [slotIn EXCEPT ![First(s).desc] = First(s).id]
      /\ output' = [output EXCEPT ![s] = 0]
      /\ slotOut' = slotOut /\ arenaIn' = arenaIn /\ arenaOut' = arenaOut /\ active' = active
      BY DEF CopyIn, Desc, First
<1>2. /\ queue[s] # <<>> /\ stage[s] = "idle" /\ stage'[s] = "staged"
      /\ \A t \in Streams : t # s => stage'[t] = stage[t]
      BY <1>1, Stepped
<1>3. First(s).desc \in Descriptors /\ First(s).id \in 0..MaxCalls BY <1>2, FirstCall
<1>4. /\ slotIn' \in [Descriptors -> 0..MaxCalls] /\ slotIn'[First(s).desc] = First(s).id
      /\ \A d \in Descriptors : d # First(s).desc => slotIn'[d] = slotIn[d]
      BY <1>1, <1>3 DEF PoolInv, PoolTypeOK
<1>5. /\ output' \in [Streams -> 0..MaxCalls] /\ output'[s] = 0
      /\ \A t \in Streams : t # s => output'[t] = output[t]
  <2>1. 0 \in 0..MaxCalls BY BoundAssumption
  <2> QED BY <1>1, <2>1 DEF PoolInv, PoolTypeOK
<1>6. Carried(s)'
  <2>1. First(s)' = First(s) BY <1>1 DEF First
  <2> QED BY <1>1, <1>2, <1>4, <1>5, <2>1 DEF Carried
<1>7. ASSUME NEW t \in Streams, t # s PROVE Carried(t)'
  <2>1. Carried(t) BY DEF PoolInv
  <2>2. ASSUME stage[t] # "idle"
        PROVE  /\ queue'[t] # <<>> /\ First(t)' = First(t)
               /\ slotIn'[First(t).desc] = slotIn[First(t).desc]
    <3>1. queue[t] # <<>> BY <2>1, <2>2 DEF Carried
    <3>2. First(t).desc \in Descriptors /\ First(t).desc # First(s).desc
          BY <1>2, <1>7, <3>1, FirstCall, FirstApart
    <3> QED BY <1>1, <1>4, <3>1, <3>2 DEF First
  <2> QED BY <1>1, <1>2, <1>5, <1>7, <2>1, <2>2, SameCarried
<1>8. OneAtWork' BY <1>1, <1>2 DEF PoolInv, OneAtWork, Working
<1>9. /\ slotOut' \in [Descriptors -> 0..MaxCalls] /\ active' \in BOOLEAN
      /\ arenaIn' \in 0..MaxCalls /\ arenaOut' \in 0..MaxCalls
      BY <1>1 DEF PoolInv, PoolTypeOK
<1> QED BY <1>1, <1>4, <1>5, <1>6, <1>7, <1>8, <1>9, WorkStep

LEMMA CallbackEnterStep ==
    ASSUME PoolInv, NEW s \in Streams, CallbackEnter(s)
    PROVE  PoolInv'
<1>1. /\ Advance(s, "staged", "running") /\ queue' = queue /\ ~active /\ active' = TRUE
      /\ arenaIn' = slotIn[First(s).desc] /\ output' = output
      /\ slotIn' = slotIn /\ slotOut' = slotOut /\ arenaOut' = arenaOut
      BY DEF CallbackEnter, Desc, First
<1>2. /\ queue[s] # <<>> /\ stage[s] = "staged" /\ stage'[s] = "running"
      /\ \A t \in Streams : t # s => stage'[t] = stage[t]
      BY <1>1, Stepped
<1>3. \A t \in Streams : stage[t] \notin Working BY <1>1 DEF PoolInv, OneAtWork
<1>4. Carried(s) BY DEF PoolInv
<1>5. arenaIn' = First(s).id /\ output[s] = 0 BY <1>1, <1>2, <1>4 DEF Carried
<1>6. Carried(s)'
  <2>1. First(s)' = First(s) BY <1>1 DEF First
  <2> QED BY <1>1, <1>2, <1>5, <2>1 DEF Carried
<1>7. ASSUME NEW t \in Streams, t # s PROVE Carried(t)'
  <2>1. Carried(t) /\ stage[t] # "running" BY <1>3 DEF PoolInv, Working
  <2>2. stage[t] # "idle" => queue'[t] # <<>> /\ First(t)' = First(t)
        BY <1>1, <2>1 DEF Carried, First
  <2> QED BY <1>1, <1>2, <1>7, <2>1, <2>2, SameCarried
<1>8. OneAtWork' BY <1>1, <1>2, <1>3 DEF OneAtWork
<1>9. First(s).id \in 0..MaxCalls BY <1>2, FirstCall
<1>10. /\ output' \in [Streams -> 0..MaxCalls] /\ slotIn' \in [Descriptors -> 0..MaxCalls]
       /\ slotOut' \in [Descriptors -> 0..MaxCalls] /\ arenaOut' \in 0..MaxCalls
       /\ arenaIn' \in 0..MaxCalls /\ active' \in BOOLEAN
       BY <1>1, <1>5, <1>9 DEF PoolInv, PoolTypeOK
<1> QED BY <1>1, <1>6, <1>7, <1>8, <1>10, WorkStep

LEMMA RunReturnsStep ==
    ASSUME PoolInv, NEW s \in Streams, RunReturns(s)
    PROVE  PoolInv'
<1>1. /\ Advance(s, "running", "reduced") /\ queue' = queue /\ active' = active
      /\ arenaOut' = arenaIn /\ arenaIn' = arenaIn /\ output' = output
      /\ slotIn' = slotIn /\ slotOut' = slotOut
      BY DEF RunReturns
<1>2. /\ queue[s] # <<>> /\ stage[s] = "running" /\ stage'[s] = "reduced"
      /\ \A t \in Streams : t # s => stage'[t] = stage[t]
      BY <1>1, Stepped
<1>3. active /\ \A t \in Streams : t # s => stage[t] \notin Working
      BY <1>2 DEF PoolInv, OneAtWork, Working
<1>4. Carried(s) BY DEF PoolInv
<1>5. Carried(s)'
  <2>1. First(s)' = First(s) BY <1>1 DEF First
  <2>2. arenaIn = First(s).id /\ output[s] = 0 BY <1>2, <1>4 DEF Carried
  <2> QED BY <1>1, <1>2, <2>1, <2>2 DEF Carried
<1>6. ASSUME NEW t \in Streams, t # s PROVE Carried(t)'
  <2>1. Carried(t) /\ stage[t] # "reduced" BY <1>3, <1>6 DEF PoolInv, Working
  <2>2. stage[t] # "idle" => queue'[t] # <<>> /\ First(t)' = First(t)
        BY <1>1, <2>1 DEF Carried, First
  <2> QED BY <1>1, <1>2, <1>6, <2>1, <2>2, SameCarried
<1>7. OneAtWork' BY <1>1, <1>2, <1>3 DEF OneAtWork
<1>8. /\ output' \in [Streams -> 0..MaxCalls] /\ slotIn' \in [Descriptors -> 0..MaxCalls]
      /\ slotOut' \in [Descriptors -> 0..MaxCalls] /\ arenaOut' \in 0..MaxCalls
      /\ arenaIn' \in 0..MaxCalls /\ active' \in BOOLEAN
      BY <1>1 DEF PoolInv, PoolTypeOK
<1> QED BY <1>1, <1>5, <1>6, <1>7, <1>8, WorkStep

LEMMA CallbackLeaveStep ==
    ASSUME PoolInv, NEW s \in Streams, CallbackLeave(s)
    PROVE  PoolInv'
<1>1. /\ Advance(s, "reduced", "answered") /\ queue' = queue /\ active' = FALSE
      /\ slotOut' = [slotOut EXCEPT ![First(s).desc] = arenaOut] /\ output' = output
      /\ slotIn' = slotIn /\ arenaIn' = arenaIn /\ arenaOut' = arenaOut
      BY DEF CallbackLeave, Desc, First
<1>2. /\ queue[s] # <<>> /\ stage[s] = "reduced" /\ stage'[s] = "answered"
      /\ \A t \in Streams : t # s => stage'[t] = stage[t]
      BY <1>1, Stepped
<1>3. \A t \in Streams : t # s => stage[t] \notin Working
      BY <1>2 DEF PoolInv, OneAtWork, Working
<1>4. First(s).desc \in Descriptors /\ arenaOut \in 0..MaxCalls
      BY <1>2, FirstCall DEF PoolInv, PoolTypeOK
<1>5. /\ slotOut' \in [Descriptors -> 0..MaxCalls] /\ slotOut'[First(s).desc] = arenaOut
      /\ \A d \in Descriptors : d # First(s).desc => slotOut'[d] = slotOut[d]
      BY <1>1, <1>4 DEF PoolInv, PoolTypeOK
<1>6. Carried(s)'
  <2>1. First(s)' = First(s) BY <1>1 DEF First
  <2>2. arenaOut = First(s).id /\ output[s] = 0 BY <1>2 DEF PoolInv, Carried
  <2> QED BY <1>1, <1>2, <1>5, <2>1, <2>2 DEF Carried
<1>7. ASSUME NEW t \in Streams, t # s PROVE Carried(t)'
  <2>1. Carried(t) BY DEF PoolInv
  <2>2. ASSUME stage[t] # "idle"
        PROVE  /\ queue'[t] # <<>> /\ First(t)' = First(t)
               /\ slotOut'[First(t).desc] = slotOut[First(t).desc]
    <3>1. queue[t] # <<>> BY <2>1, <2>2 DEF Carried
    <3>2. First(t).desc \in Descriptors /\ First(t).desc # First(s).desc
          BY <1>2, <1>7, <3>1, FirstCall, FirstApart
    <3> QED BY <1>1, <1>5, <3>1, <3>2 DEF First
  <2> QED BY <1>1, <1>2, <1>7, <2>1, <2>2, SameCarried
<1>8. OneAtWork' BY <1>2, <1>3 DEF OneAtWork, Working
<1>9. /\ output' \in [Streams -> 0..MaxCalls] /\ slotIn' \in [Descriptors -> 0..MaxCalls]
      /\ arenaIn' \in 0..MaxCalls /\ arenaOut' \in 0..MaxCalls /\ active' \in BOOLEAN
      BY <1>1 DEF PoolInv, PoolTypeOK
<1> QED BY <1>1, <1>5, <1>6, <1>7, <1>8, <1>9, WorkStep

LEMMA CopyOutStep ==
    ASSUME PoolInv, NEW s \in Streams, CopyOut(s)
    PROVE  PoolInv' /\ output'[s] = First(s).id /\ First(s).id # 0
<1>1. /\ Advance(s, "answered", "landed") /\ queue' = queue
      /\ output' = [output EXCEPT ![s] = slotOut[First(s).desc]]
      /\ UNCHANGED <<slotIn, slotOut, arenaIn, arenaOut, active>>
      BY DEF CopyOut, Desc, First, dataVars
<1>2. /\ queue[s] # <<>> /\ stage[s] = "answered" /\ stage'[s] = "landed"
      /\ \A t \in Streams : t # s => stage'[t] = stage[t]
      BY <1>1, Stepped
<1>3. First(s).id \in 1..MaxCalls BY <1>2, FirstCall
<1>4. slotOut[First(s).desc] = First(s).id BY <1>2 DEF PoolInv, Carried
<1>5. First(s).id # 0 /\ First(s).id \in 0..MaxCalls BY <1>3, BoundAssumption
<1>6. /\ output' \in [Streams -> 0..MaxCalls] /\ output'[s] = First(s).id
      /\ \A t \in Streams : t # s => output'[t] = output[t]
      BY <1>1, <1>4, <1>5 DEF PoolInv, PoolTypeOK
<1>7. Carried(s)'
  <2>1. First(s)' = First(s) BY <1>1 DEF First
  <2> QED BY <1>1, <1>2, <1>6, <2>1 DEF Carried
<1>8. ASSUME NEW t \in Streams, t # s PROVE Carried(t)'
  <2>1. Carried(t) BY DEF PoolInv
  <2>2. stage[t] # "idle" => queue'[t] # <<>> /\ First(t)' = First(t)
        BY <1>1, <2>1 DEF Carried, First
  <2> QED BY <1>1, <1>2, <1>6, <1>8, <2>1, <2>2, SameCarried
<1>9. OneAtWork' BY <1>1, <1>2 DEF PoolInv, OneAtWork, Working
<1>10. /\ slotIn' \in [Descriptors -> 0..MaxCalls] /\ slotOut' \in [Descriptors -> 0..MaxCalls]
       /\ arenaIn' \in 0..MaxCalls /\ arenaOut' \in 0..MaxCalls /\ active' \in BOOLEAN
       BY <1>1 DEF PoolInv, PoolTypeOK
<1> QED BY <1>1, <1>5, <1>6, <1>7, <1>8, <1>9, <1>10, WorkStep

LEMMA RetireStep ==
    ASSUME PoolInv, NEW s \in Streams, Retire(s)
    PROVE  PoolInv'
<1>1. /\ Advance(s, "landed", "idle") /\ queue' = [queue EXCEPT ![s] = Tail(@)]
      /\ output' = output /\ UNCHANGED <<slotIn, slotOut, arenaIn, arenaOut, active>>
      BY DEF Retire, dataVars
<1>2. /\ queue[s] # <<>> /\ stage'[s] = "idle" /\ Alive /\ fatal' = fatal /\ graphs' = graphs
      /\ \A t \in Streams : t # s => stage'[t] = stage[t]
      BY <1>1, Stepped
<1>3. queue \in [Streams -> Seq(Items)] BY DEF PoolInv, PoolTypeOK, Items
<1>4. /\ queue' \in [Streams -> Seq(Items)]
      /\ \A t \in Streams : t # s => queue'[t] = queue[t]
      /\ \A k \in DOMAIN queue'[s] : k \in Nat /\ k + 1 \in DOMAIN queue[s]
                                     /\ queue'[s][k] = queue[s][k + 1]
  <2>1. queue'[s] = Tail(queue[s]) BY <1>1, <1>3
  <2>2. queue[s] \in Seq(Items) BY <1>3
  <2>3. Tail(queue[s]) \in Seq(Items) BY <1>2, <2>2, Tailed
  <2>4. \A k \in DOMAIN Tail(queue[s]) : k \in Nat /\ k + 1 \in DOMAIN queue[s]
                                         /\ Tail(queue[s])[k] = queue[s][k + 1]
        BY <1>2, <2>2, Tailed
  <2> QED BY <1>1, <1>3, <2>1, <2>3, <2>4
<1>5. PoolTypeOK'
  <2>1. stage' \in [Streams -> {"idle", "staged", "running", "reduced", "answered", "landed"}]
        BY <1>1, Stepped
  <2> QED BY <1>1, <1>4, <2>1, Stepped DEF PoolInv, PoolTypeOK, Items
<1>6. Apart'
  <2>1. \A t \in Streams : \A k \in DOMAIN queue'[t] : \E j \in DOMAIN queue[t] :
            queue'[t][k] = queue[t][j]
        BY <1>4
  <2>2. ASSUME NEW t \in Streams, NEW u \in Streams, t # u,
               NEW j \in DOMAIN queue'[t], NEW k \in DOMAIN queue'[u]
        PROVE  queue'[t][j].desc # queue'[u][k].desc
    <3>1. PICK a \in DOMAIN queue[t] : queue'[t][j] = queue[t][a] BY <2>1
    <3>2. PICK b \in DOMAIN queue[u] : queue'[u][k] = queue[u][b] BY <2>1
    <3> QED BY <2>2, <3>1, <3>2 DEF PoolInv, Apart
  <2> QED BY <2>2 DEF Apart
<1>7. Behind'
  <2>1. ASSUME NEW j \in DOMAIN queue'[s], NEW k \in DOMAIN queue'[s], j # k,
               queue'[s][j].desc = queue'[s][k].desc
        PROVE  queue'[s][j].desc \in graphs
    <3>1. j + 1 \in DOMAIN queue[s] /\ k + 1 \in DOMAIN queue[s] /\ j + 1 # k + 1
          BY <1>4, <2>1
    <3>2. queue'[s][j] = queue[s][j + 1] /\ queue'[s][k] = queue[s][k + 1] BY <1>4, <2>1
    <3> QED BY <2>1, <3>1, <3>2 DEF PoolInv, Behind
  <2>2. \A t \in Streams : t # s =>
            \A j, k \in DOMAIN queue'[t] :
                j # k /\ queue'[t][j].desc = queue'[t][k].desc => queue'[t][j].desc \in graphs
        BY <1>4 DEF PoolInv, Behind
  <2> QED BY <1>2, <2>1, <2>2 DEF Behind
<1>8. ASSUME NEW t \in Streams PROVE Carried(t)'
  <2>1. Carried(t) BY DEF PoolInv
  <2>2. CASE t = s BY <1>2, <2>2 DEF Carried
  <2>3. CASE t # s
    <3>1. stage[t] # "idle" => queue'[t] # <<>> /\ First(t)' = First(t)
          BY <1>4, <2>1, <2>3 DEF Carried, First
    <3> QED BY <1>1, <1>2, <2>1, <2>3, <3>1, SameCarried
  <2> QED BY <2>2, <2>3
<1>9. OneAtWork' BY <1>1, <1>2 DEF PoolInv, OneAtWork, Working
<1>10. Exhausted' BY <1>2 DEF Exhausted, Alive
<1>11. ClosedQuiet'
  <2>1. closing' = closing /\ ready' = ready /\ transport' = transport BY <1>1, Stepped
  <2>2. closing \notin {"destroy", "free", "closed"} BY <1>2 DEF PoolInv, ClosedQuiet
  <2> QED BY <1>2, <2>1, <2>2 DEF PoolInv, ClosedQuiet
<1> QED BY <1>5, <1>6, <1>7, <1>8, <1>9, <1>10, <1>11 DEF PoolInv

LEMMA CallStepStep ==
    ASSUME PoolInv, NEW s \in Streams, CallStep(s) \/ RunFails(s)
    PROVE  PoolInv'
<1>1. CASE CallbackClash(s) \/ RunFails(s)
  <2>1. Die("clash") \/ Die("transport") BY <1>1 DEF CallbackClash, RunFails
  <2> QED BY <2>1, DieStep
<1>2. CASE \/ CopyIn(s) \/ CallbackEnter(s) \/ RunReturns(s)
           \/ CallbackLeave(s) \/ CopyOut(s) \/ Retire(s)
      BY <1>2, CopyInStep, CallbackEnterStep, RunReturnsStep, CallbackLeaveStep, CopyOutStep,
         RetireStep
<1> QED BY <1>1, <1>2 DEF CallStep

\* Steps that leave the streams and the data alone.
LEMMA BesideStep ==
    ASSUME PoolInv, Alive, UNCHANGED <<streamVars, dataVars>>, fatal' = fatal,
           captured' \subseteq Descriptors \ Eager, graphs' \subseteq captured',
           next_eager' \in Eager, next_capture' \in 0..CaptureCount - 1,
           \A d \in graphs : Pending(d) => d \in graphs',
           ready' \in BOOLEAN, transport' \in BOOLEAN,
           closing' \in {"no", "sync", "destroy", "free", "closed"}, ClosedQuiet'
    PROVE  PoolInv'
<1>1. /\ queue' = queue /\ stage' = stage /\ output' = output /\ calls' = calls
      /\ UNCHANGED <<slotIn, slotOut, arenaIn, arenaOut, active>>
      BY DEF streamVars, dataVars
<1>2. PoolTypeOK' BY <1>1 DEF PoolInv, PoolTypeOK
<1>3. Apart' BY <1>1 DEF PoolInv, Apart
<1>4. Behind'
  <2>1. ASSUME NEW s \in Streams, NEW j \in DOMAIN queue[s], NEW k \in DOMAIN queue[s], j # k,
               queue[s][j].desc = queue[s][k].desc
        PROVE  queue[s][j].desc \in graphs'
    <3>1. queue[s][j].desc \in graphs BY <2>1 DEF PoolInv, Behind
    <3>2. Pending(queue[s][j].desc) BY DEF Pending, Held
    <3> QED BY <3>1, <3>2
  <2> QED BY <1>1, <2>1 DEF Behind
<1>5. \A s \in Streams : Carried(s)' BY <1>1 DEF PoolInv, Carried, First
<1>6. OneAtWork' BY <1>1 DEF PoolInv, OneAtWork
<1>7. Exhausted' BY DEF Exhausted, Alive
<1> QED BY <1>2, <1>3, <1>4, <1>5, <1>6, <1>7 DEF PoolInv

LEMMA CaptureStep ==
    ASSUME PoolInv, Capture
    PROVE  PoolInv'
<1> DEFINE i == (next_capture + Min(FreeCapture)) % CaptureCount
<1>1. next_capture \in 0..CaptureCount - 1 /\ captured \subseteq Descriptors \ Eager
      BY DEF PoolInv, PoolTypeOK
<1>2. CASE FreeCapture # {}
  <2>1. EagerCount + i \in Descriptors \ Eager /\ (i + 1) % CaptureCount \in 0..CaptureCount - 1
        BY <1>1, <1>2, CaptureScan
  <2>2. /\ captured' = captured \union {EagerCount + i} /\ graphs' = graphs \union {EagerCount + i}
        /\ next_capture' = (i + 1) % CaptureCount
        /\ UNCHANGED <<streamVars, dataVars>> /\ next_eager' = next_eager /\ fatal' = fatal
        /\ ready' = ready /\ transport' = transport /\ closing' = closing
        /\ Alive /\ closing = "no"
        BY <1>2 DEF Capture, Open, lifeVars
  <2> HIDE DEF i
  <2>3. /\ graphs \subseteq captured /\ next_eager \in Eager
        /\ ready \in BOOLEAN /\ transport \in BOOLEAN
        BY DEF PoolInv, PoolTypeOK
  <2>4. ClosedQuiet' BY <2>2 DEF PoolInv, ClosedQuiet
  <2> QED BY <1>1, <2>1, <2>2, <2>3, <2>4, BesideStep
<1>3. CASE FreeCapture = {}
  <2>1. captured = Descriptors \ Eager BY <1>1, <1>3, CaptureScan
  <2>2. Die("capture exhausted") BY <1>3 DEF Capture
  <2> QED BY <2>1, <2>2, DieStep
<1> QED BY <1>2, <1>3

LEMMA DestroyGraphStep ==
    ASSUME PoolInv, NEW d \in graphs, DestroyGraph(d)
    PROVE  PoolInv'
<1>1. /\ graphs' = graphs \ {d} /\ ~Pending(d) /\ Alive
      /\ UNCHANGED <<streamVars, dataVars>> /\ fatal' = fatal
      /\ captured' = captured /\ next_eager' = next_eager /\ next_capture' = next_capture
      /\ ready' = ready /\ transport' = transport /\ closing' = closing
      /\ queue' = queue
      BY DEF DestroyGraph, cursorVars, lifeVars, streamVars
<1>2. ClosedQuiet' BY <1>1 DEF PoolInv, ClosedQuiet
<1> QED BY <1>1, <1>2, BesideStep DEF PoolInv, PoolTypeOK

LEMMA CloseStepStep ==
    ASSUME PoolInv, CloseCall \/ Close
    PROVE  PoolInv'
<1>1. /\ Alive /\ UNCHANGED <<streamVars, dataVars>> /\ fatal' = fatal /\ graphs' = graphs
      /\ captured' = captured /\ next_eager' = next_eager /\ next_capture' = next_capture
      /\ queue' = queue
      BY DEF CloseCall, Close, CloseSync, CloseDestroy, CloseFree, CloseStep, cursorVars,
             streamVars
<1>2. \/ /\ closing = "no" /\ closing' = "sync" /\ graphs = {}
         /\ ready' = ready /\ transport' = transport
      \/ /\ closing = "sync" /\ closing' = "destroy" /\ \A s \in Streams : queue[s] = <<>>
         /\ ready' = FALSE /\ transport' = transport
      \/ /\ closing = "destroy" /\ closing' = "free" /\ ready' = ready /\ transport' = FALSE
      \/ /\ closing = "free" /\ closing' = "closed" /\ ready' = ready /\ transport' = transport
      BY DEF CloseCall, Close, CloseSync, CloseDestroy, CloseFree, CloseStep
<1>3. /\ ready' \in BOOLEAN /\ transport' \in BOOLEAN
      /\ closing' \in {"no", "sync", "destroy", "free", "closed"}
      BY <1>2 DEF PoolInv, PoolTypeOK
<1>4. ClosedQuiet' BY <1>1, <1>2 DEF PoolInv, ClosedQuiet
<1> QED BY <1>1, <1>3, <1>4, BesideStep DEF PoolInv, PoolTypeOK

LEMMA PoolNextInv == PoolInv /\ [PoolNext]_poolVars => PoolInv'
<1> SUFFICES ASSUME PoolInv, [PoolNext]_poolVars PROVE PoolInv'
    OBVIOUS
<1>1. CASE UNCHANGED poolVars
  <2>1. /\ queue' = queue /\ stage' = stage /\ output' = output /\ calls' = calls
        /\ UNCHANGED <<slotIn, slotOut, arenaIn, arenaOut, active>>
        /\ UNCHANGED <<captured, next_eager, next_capture>>
        /\ UNCHANGED <<ready, transport, closing>> /\ graphs' = graphs /\ fatal' = fatal
        BY <1>1 DEF poolVars, streamVars, dataVars, cursorVars, lifeVars
  <2>2. PoolTypeOK' BY <2>1 DEF PoolInv, PoolTypeOK
  <2>3. Apart' BY <2>1 DEF PoolInv, Apart
  <2>4. Behind' BY <2>1 DEF PoolInv, Behind
  <2>5. \A s \in Streams : Carried(s)' BY <2>1 DEF PoolInv, Carried, First
  <2>6. OneAtWork' /\ ClosedQuiet' BY <2>1 DEF PoolInv, OneAtWork, ClosedQuiet
  <2>7. Exhausted' BY <2>1 DEF PoolInv, Exhausted, Pending, Held
  <2> QED BY <2>2, <2>3, <2>4, <2>5, <2>6, <2>7 DEF PoolInv
<1>2. CASE HipFails
  <2>1. Die("hip") BY <1>2 DEF HipFails
  <2> QED BY <2>1, DieStep
<1>3. CASE \E s \in Streams : \/ Enqueue(s) \/ CallStep(s) \/ RunFails(s)
                              \/ \E d \in graphs : Replay(s, d)
      BY <1>3, EnqueueStep, CallStepStep, ReplayStep
<1>4. CASE Capture \/ \E d \in graphs : DestroyGraph(d)
      BY <1>4, CaptureStep, DestroyGraphStep
<1>5. CASE CloseCall \/ Close BY <1>5, CloseStepStep
<1> QED BY <1>1, <1>2, <1>3, <1>4, <1>5 DEF PoolNext

\* The invariant that the properties of the pool follow from.
THEOREM PoolInvariance == PoolSpec => []PoolInv
<1> QED BY PoolInitInv, PoolNextInv, PTL DEF PoolSpec

\* hip_rdma_backend.cpp:121, for pools of any size, any cursors and any streams: one stream
\* works in a descriptor, only replays of its own graph stand behind each other, and the
\* worker is ended for want of a descriptor only when all of that part are taken.
THEOREM DescriptorOwnedHolds == PoolSpec => []DescriptorOwned
<1>1. PoolInv => DescriptorOwned
  <2> SUFFICES ASSUME PoolInv PROVE DescriptorOwned
      OBVIOUS
  <2>1. ASSUME NEW s \in Streams, NEW t \in Streams,
               NEW j \in DOMAIN queue[s], NEW k \in DOMAIN queue[t],
               queue[s][j].desc = queue[t][k].desc, <<s, j>> # <<t, k>>
        PROVE  s = t /\ queue[s][j].desc \in graphs
    <3>1. s = t BY <2>1 DEF PoolInv, Apart
    <3>2. j # k BY <2>1, <3>1
    <3> QED BY <2>1, <3>1, <3>2 DEF PoolInv, Behind
  <2>2. PoolTypeOK /\ Exhausted BY DEF PoolInv
  <2> QED BY <2>1, <2>2 DEF DescriptorOwned, Exhausted
<1> QED BY <1>1, PoolInvariance, PTL

\* hip_rdma_backend.cpp:188-204: once close has taken the transport away, no stream has a call
\* left, no graph exists that could be replayed, and no call is accepted.
THEOREM CloseWaits ==
    PoolSpec => [](~transport => graphs = {} /\ ~ready /\ \A s \in Streams : queue[s] = <<>>)
<1>1. PoolInv => (~transport => graphs = {} /\ ~ready /\ \A s \in Streams : queue[s] = <<>>)
      BY DEF PoolInv, ClosedQuiet
<1> QED BY <1>1, PoolInvariance, PTL
-----------------------------------------------------------------------------
(***************************************************************************)
(* What the pool promises its callers.                                     *)

CallOf(s) == IF stage[s] = "idle" THEN "none" ELSE "open"
callView == [s \in Streams |-> CallOf(s)]
answerView == [s \in Streams |-> Answer(s)]

\* What a stream sees depends on these.
LEMMA SameView ==
    ASSUME NEW t \in Streams, stage'[t] = stage[t], output'[t] = output[t],
           stage[t] # "idle" => First(t)' = First(t) /\ queue[t] # <<>> /\ queue'[t] # <<>>
    PROVE  CallOf(t)' = CallOf(t) /\ Answer(t)' = Answer(t)
<1>1. CallOf(t)' = CallOf(t) BY DEF CallOf
<1>2. Answer(t)' = Answer(t) BY DEF Answer, First
<1> QED BY <1>1, <1>2

LEMMA Unseen ==
    ASSUME PoolInv, Alive' = Alive,
           \A t \in Streams : CallOf(t)' = CallOf(t) /\ Answer(t)' = Answer(t)
    PROVE  UNCHANGED Promise!promiseVars
<1>1. callView' = callView /\ answerView' = answerView BY DEF callView, answerView
<1>2. (~Alive)' = ~Alive OBVIOUS
<1> QED BY <1>1, <1>2 DEF Promise!promiseVars, callView, answerView, CallOf

LEMMA DieKeeps ==
    ASSUME Alive, NEW why, Die(why), why # "no"
    PROVE  Promise!Die
<1>1. queue' = queue /\ stage' = stage /\ output' = output /\ fatal' = why
      BY DEF Die, streamVars
<1>2. \A t \in Streams : CallOf(t)' = CallOf(t) /\ Answer(t)' = Answer(t)
      BY <1>1 DEF CallOf, Answer
<1>3. callView' = callView /\ answerView' = answerView BY <1>2 DEF callView, answerView
<1>4. (~Alive) = FALSE /\ (~Alive)' = TRUE BY <1>1 DEF Alive
<1> QED BY <1>3, <1>4 DEF Promise!Die, callView, answerView, CallOf

LEMMA PushKeeps ==
    ASSUME PoolInv, NEW s \in Streams, NEW d, Push(s, d), fatal' = fatal
    PROVE  UNCHANGED Promise!promiseVars
<1> DEFINE e == [desc |-> d, id |-> calls + 1]
<1>1. queue' = [queue EXCEPT ![s] = Append(@, e)] /\ stage' = stage /\ output' = output
      BY DEF Push
<1>2. queue \in [Streams -> Seq(Items)] BY DEF PoolInv, PoolTypeOK, Items
<1> HIDE DEF e
<1>3. \A t \in Streams : stage[t] # "idle" =>
          First(t)' = First(t) /\ queue[t] # <<>> /\ queue'[t] # <<>>
  <2> SUFFICES ASSUME NEW t \in Streams, stage[t] # "idle"
               PROVE  First(t)' = First(t) /\ queue[t] # <<>> /\ queue'[t] # <<>>
      OBVIOUS
  <2>1. queue[t] # <<>> BY DEF PoolInv, Carried
  <2>2. queue'[t] = queue[t] \/ queue'[t] = Append(queue[t], e) BY <1>1, <1>2
  <2>3. queue[t] \in Seq(Items \union {e}) /\ e \in Items \union {e}
    <3>1. queue[t] \in Seq(Items) BY <1>2
    <3> QED BY <3>1
  <2>4. Append(queue[t], e) # <<>> /\ Head(Append(queue[t], e)) = Head(queue[t])
        BY <2>1, <2>3, Appended
  <2> QED BY <2>1, <2>2, <2>4 DEF First
<1>4. \A t \in Streams : CallOf(t)' = CallOf(t) /\ Answer(t)' = Answer(t)
      BY <1>1, <1>3, SameView
<1>5. Alive' = Alive BY DEF Alive
<1> QED BY <1>4, <1>5, Unseen

LEMMA CopyInKeeps ==
    ASSUME PoolInv, NEW s \in Streams, CopyIn(s)
    PROVE  Promise!Call(s)
<1>1. Advance(s, "idle", "staged") /\ queue' = queue /\ output' = [output EXCEPT ![s] = 0]
      BY DEF CopyIn
<1>2. /\ queue[s] # <<>> /\ stage[s] = "idle" /\ stage'[s] = "staged" /\ Alive /\ Alive' = Alive
      /\ \A t \in Streams : t # s => stage'[t] = stage[t]
      BY <1>1, Stepped DEF Alive
<1>3. output'[s] = 0 /\ \A t \in Streams : t # s => output'[t] = output[t]
      BY <1>1 DEF PoolInv, PoolTypeOK
<1>4. \A t \in Streams : t # s => CallOf(t)' = CallOf(t) /\ Answer(t)' = Answer(t)
      BY <1>1, <1>2, <1>3 DEF CallOf, Answer
<1>5. CallOf(s) = "none" /\ CallOf(s)' = "open" /\ Answer(s)' = "untouched"
      BY <1>2, <1>3 DEF CallOf, Answer
<1>6. callView[s] = "none" /\ callView' = [callView EXCEPT ![s] = "open"]
      BY <1>4, <1>5 DEF callView
<1>7. answerView' = [answerView EXCEPT ![s] = "untouched"] BY <1>4, <1>5 DEF answerView
<1>8. (~Alive) = FALSE /\ (~Alive)' = ~Alive BY <1>2
<1> QED BY <1>6, <1>7, <1>8 DEF Promise!Call, callView, answerView, CallOf

LEMMA CopyOutKeeps ==
    ASSUME PoolInv, NEW s \in Streams, CopyOut(s)
    PROVE  Promise!Answer(s)
<1>1. /\ Advance(s, "answered", "landed") /\ queue' = queue
      /\ output' = [output EXCEPT ![s] = slotOut[Desc(s)]]
      BY DEF CopyOut
<1>2. /\ queue[s] # <<>> /\ stage[s] = "answered" /\ stage'[s] = "landed"
      /\ Alive /\ Alive' = Alive
      /\ \A t \in Streams : t # s => stage'[t] = stage[t]
      BY <1>1, Stepped DEF Alive
<1>3. /\ output'[s] = First(s).id /\ First(s).id # 0
      /\ \A t \in Streams : t # s => output'[t] = output[t]
      BY <1>1, CopyOutStep DEF PoolInv, PoolTypeOK
<1>4. \A t \in Streams : t # s => CallOf(t)' = CallOf(t) /\ Answer(t)' = Answer(t)
      BY <1>1, <1>2, <1>3 DEF CallOf, Answer
<1>5. CallOf(s) = "open" /\ CallOf(s)' = "open" /\ Answer(s)' = "sum"
      BY <1>1, <1>2, <1>3 DEF CallOf, Answer, First
<1>6. callView[s] = "open" /\ callView' = callView BY <1>4, <1>5 DEF callView
<1>7. answerView' = [answerView EXCEPT ![s] = "sum"] BY <1>4, <1>5 DEF answerView
<1>8. (~Alive) = FALSE /\ (~Alive)' = ~Alive BY <1>2
<1> QED BY <1>6, <1>7, <1>8 DEF Promise!Answer, callView, answerView, CallOf

LEMMA RetireKeeps ==
    ASSUME PoolInv, NEW s \in Streams, Retire(s)
    PROVE  Promise!Return(s)
<1>1. /\ Advance(s, "landed", "idle") /\ queue' = [queue EXCEPT ![s] = Tail(@)]
      /\ output' = output
      BY DEF Retire
<1>2. /\ queue[s] # <<>> /\ stage[s] = "landed" /\ stage'[s] = "idle"
      /\ Alive /\ Alive' = Alive
      /\ \A t \in Streams : t # s => stage'[t] = stage[t]
      BY <1>1, Stepped DEF Alive
<1>3. \A t \in Streams : t # s => queue'[t] = queue[t] BY <1>1 DEF PoolInv, PoolTypeOK
<1>4. output[s] = First(s).id /\ First(s).id # 0
  <2>1. First(s).id \in 1..MaxCalls BY <1>2, FirstCall
  <2>2. First(s).id # 0 BY <2>1, BoundAssumption
  <2> QED BY <1>2, <2>2 DEF PoolInv, Carried
<1>5. \A t \in Streams : t # s => CallOf(t)' = CallOf(t) /\ Answer(t)' = Answer(t)
      BY <1>1, <1>2, <1>3 DEF CallOf, Answer
<1>6. /\ CallOf(s) = "open" /\ CallOf(s)' = "none"
      /\ Answer(s) = "sum" /\ Answer(s)' = "sum"
      BY <1>1, <1>2, <1>4 DEF CallOf, Answer, First
<1>7. callView[s] # "none" /\ callView' = [callView EXCEPT ![s] = "none"]
      BY <1>5, <1>6 DEF callView
<1>8. answerView[s] = "sum" /\ answerView' = answerView BY <1>5, <1>6 DEF answerView
<1>9. (~Alive) = FALSE /\ (~Alive)' = ~Alive BY <1>2
<1> QED BY <1>7, <1>8, <1>9 DEF Promise!Return, callView, answerView, CallOf

\* The callback, from one step to the next.
LEMMA CallbackKeeps ==
    ASSUME PoolInv, NEW s \in Streams, CallbackEnter(s) \/ RunReturns(s) \/ CallbackLeave(s)
    PROVE  UNCHANGED Promise!promiseVars
<1>1. queue' = queue /\ output' = output BY DEF CallbackEnter, RunReturns, CallbackLeave
<1>2. /\ stage[s] # "idle" /\ stage'[s] # "idle" /\ output[s] = 0 /\ Alive' = Alive
      /\ \A t \in Streams : t # s => stage'[t] = stage[t]
  <2>1. \/ Advance(s, "staged", "running") \/ Advance(s, "running", "reduced")
        \/ Advance(s, "reduced", "answered")
        BY DEF CallbackEnter, RunReturns, CallbackLeave
  <2>2. /\ stage[s] \in {"staged", "running", "reduced"}
        /\ stage'[s] \in {"running", "reduced", "answered"}
        /\ fatal' = fatal
        /\ \A t \in Streams : t # s => stage'[t] = stage[t]
        BY <2>1, Stepped
  <2>3. output[s] = 0 BY <2>2 DEF PoolInv, Carried
  <2> QED BY <2>2, <2>3 DEF Alive
<1>3. \A t \in Streams : t # s => CallOf(t)' = CallOf(t) /\ Answer(t)' = Answer(t)
      BY <1>1, <1>2 DEF CallOf, Answer
<1>4. CallOf(s)' = CallOf(s) /\ Answer(s)' = Answer(s) BY <1>1, <1>2 DEF CallOf, Answer
<1> QED BY <1>2, <1>3, <1>4, Unseen

LEMMA BesideKeeps ==
    ASSUME PoolInv, UNCHANGED streamVars, fatal' = fatal
    PROVE  UNCHANGED Promise!promiseVars
<1>1. queue' = queue /\ stage' = stage /\ output' = output BY DEF streamVars
<1>2. \A t \in Streams : CallOf(t)' = CallOf(t) /\ Answer(t)' = Answer(t)
      BY <1>1 DEF CallOf, Answer
<1> QED BY <1>2, Unseen DEF Alive

LEMMA PoolInitKeeps == PoolInit => Promise!PromiseInit
<1> SUFFICES ASSUME PoolInit PROVE Promise!PromiseInit
    OBVIOUS
<1>1. \A s \in Streams : CallOf(s) = "none" /\ Answer(s) = "untouched"
      BY DEF PoolInit, CallOf, Answer
<1>2. /\ callView = [s \in Streams |-> "none"]
      /\ answerView = [s \in Streams |-> "untouched"]
      BY <1>1 DEF callView, answerView
<1>3. (~Alive) = FALSE BY DEF PoolInit, Alive
<1> QED BY <1>2, <1>3 DEF Promise!PromiseInit, callView, answerView, CallOf

LEMMA PoolNextKeeps ==
    PoolInv /\ [PoolNext]_poolVars => [Promise!PromiseNext]_(Promise!promiseVars)
<1> SUFFICES ASSUME PoolInv, [PoolNext]_poolVars
             PROVE  Promise!PromiseNext \/ UNCHANGED Promise!promiseVars
    OBVIOUS
<1>1. ASSUME NEW why \in {"eager exhausted", "capture exhausted", "clash", "transport", "hip"},
             Alive, Die(why)
      PROVE  Promise!PromiseNext
      BY <1>1, DieKeeps DEF Promise!PromiseNext
<1>2. ASSUME NEW s \in Streams, Enqueue(s)
      PROVE  Promise!PromiseNext \/ UNCHANGED Promise!promiseVars
  <2>1. CASE FreeEager = {} BY <1>1, <1>2, <2>1 DEF Enqueue, Open
  <2>2. CASE FreeEager # {}
    <3>1. \E d : Push(s, d) /\ fatal' = fatal BY <1>2, <2>2 DEF Enqueue, TakeEager
    <3> QED BY <3>1, PushKeeps
  <2> QED BY <2>1, <2>2
<1>3. ASSUME NEW s \in Streams, NEW d \in graphs, Replay(s, d)
      PROVE  UNCHANGED Promise!promiseVars
      BY <1>3, PushKeeps DEF Replay
<1>4. ASSUME NEW s \in Streams, CallStep(s) \/ RunFails(s)
      PROVE  Promise!PromiseNext \/ UNCHANGED Promise!promiseVars
  <2>1. CASE CopyIn(s) BY <2>1, CopyInKeeps DEF Promise!PromiseNext
  <2>2. CASE CallbackEnter(s) \/ RunReturns(s) \/ CallbackLeave(s) BY <2>2, CallbackKeeps
  <2>3. CASE CopyOut(s) BY <2>3, CopyOutKeeps DEF Promise!PromiseNext
  <2>4. CASE Retire(s) BY <2>4, RetireKeeps DEF Promise!PromiseNext
  <2>5. CASE CallbackClash(s) \/ RunFails(s) BY <1>1, <2>5 DEF CallbackClash, RunFails
  <2> QED BY <1>4, <2>1, <2>2, <2>3, <2>4, <2>5 DEF CallStep
<1>5. CASE Capture
  <2>1. CASE FreeCapture = {} BY <1>1, <1>5, <2>1 DEF Capture, Open
  <2>2. CASE FreeCapture # {}
    <3>1. UNCHANGED streamVars /\ fatal' = fatal BY <1>5, <2>2 DEF Capture
    <3> QED BY <3>1, BesideKeeps
  <2> QED BY <2>1, <2>2
<1>6. CASE (\E d \in graphs : DestroyGraph(d)) \/ CloseCall \/ Close
  <2>1. UNCHANGED streamVars /\ fatal' = fatal
        BY <1>6 DEF DestroyGraph, CloseCall, Close, CloseSync, CloseDestroy, CloseFree, CloseStep
  <2> QED BY <2>1, BesideKeeps
<1>7. CASE HipFails BY <1>1, <1>7 DEF HipFails
<1>8. CASE UNCHANGED poolVars BY <1>8, BesideKeeps DEF poolVars
<1> QED BY <1>2, <1>3, <1>4, <1>5, <1>6, <1>7, <1>8 DEF PoolNext

\* hip_rdma_backend.py:149-154 and the fail-stop of hip_rdma_backend.cpp:43: the pool
\* implements a back end that abandons no call, for any number of streams and descriptors.
THEOREM ImplementsCollectiveHolds == PoolSpec => ImplementsCollective
<1> QED BY PoolInitKeeps, PoolNextKeeps, PoolInvariance, PTL
        DEF PoolSpec, ImplementsCollective, Promise!PromiseSpec
=============================================================================
