---------------------------- MODULE BackendVote ----------------------------
(***************************************************************************)
(* The start of the RDMA back end on every rank of a tensor-parallel       *)
(* group: create_if_enabled of tools/hip_rdma_backend.py, called directly  *)
(* or through make_backend of patches/strix_hip_rdma_hook.py, with the     *)
(* numerical validator of tools/validate_rccl_ring4.py.                    *)
(*                                                                         *)
(* The ranks agree by all_gather_object on one Gloo group.  Gloo pairs the *)
(* n-th call of every rank, whatever the callers meant by it: posts[r] is  *)
(* what rank r has contributed, call by call, and a rank that waits goes   *)
(* on with the contributions of the same index.                            *)
(***************************************************************************)
EXTENDS Naturals, Sequences

CONSTANTS Ranks,
          Settings       \* values of what the ranks must agree on

VARIABLES
    hooked,    \* called through make_backend, which looks at the local flag first
    enabled,   \* ranks with STRIX_HIP_RDMA_ENABLE=1
    settings,  \* settings[r]: digest of binary, network and numerical mode
    pc,        \* pc[r]: the step of rank r, or how it ended
    posts,     \* posts[r]: contributions of r to the gathers, in order
    native,    \* ranks whose native backend was created
    device,    \* ranks that entered the collectives of the validator
    clean      \* ranks whose validator found no numerical difference

inputs == <<hooked, enabled, settings>>
vars == <<inputs, pc, posts, native, device, clean>>

\* "none": no back end, the others stay in use.  "backend": validated and
\* returned.  "raised": an exception ends the start-up.  "dead": _exit(86),
\* or the process was killed.
Ended == {"none", "backend", "raised", "dead"}
Gone == {"raised", "dead"}

SomeGone == \E p \in Ranks : pc[p] \in Gone

\* What a rank contributes: the vote it belongs to, the verdict, the settings.
Contribution(kind, ok, value) == [kind |-> kind, ok |-> ok, shared |-> value]

Init == /\ hooked \in BOOLEAN
        /\ enabled \in SUBSET Ranks
        /\ settings \in [Ranks -> Settings]
        /\ pc = [r \in Ranks |-> IF hooked THEN "hook" ELSE "enable"]
        /\ posts = [r \in Ranks |-> <<>>]
        /\ native = {} /\ device = {} /\ clean = {}
-----------------------------------------------------------------------------
Goto(r, there) == pc' = [pc EXCEPT ![r] = there]

\* make_backend: off, not the right communicator, or on to the votes.
Hook(r) ==
    /\ pc[r] = "hook"
    /\ IF r \in enabled THEN Goto(r, "enable") \/ Goto(r, "raised")
                        ELSE Goto(r, "none")
    /\ UNCHANGED <<inputs, posts, native, device, clean>>

\* vote(value): contribute and wait for the others.
Post(r, here, wait, kind, ok) ==
    /\ pc[r] = here
    /\ Goto(r, wait)
    /\ posts' = [posts EXCEPT ![r] = Append(@, Contribution(kind, ok, settings[r]))]
    /\ UNCHANGED inputs

PostEnable(r) == /\ Post(r, "enable", "wait_enable", "enable", r \in enabled)
                 /\ UNCHANGED <<native, device, clean>>

\* Preflight: the settings are read and checked, which may fail.
PostMetadata(r) == /\ \E ok \in BOOLEAN : Post(r, "metadata", "wait_metadata", "metadata", ok)
                   /\ UNCHANGED <<native, device, clean>>

\* The library is loaded and its ABI checked, which may fail.
PostLoaded(r) == /\ \E ok \in BOOLEAN : Post(r, "load", "wait_loaded", "loaded", ok)
                 /\ UNCHANGED <<native, device, clean>>

\* Native creation: a bootstrap of its own, with a deadline, that may fail on
\* some ranks only.
PostInitialized(r) ==
    /\ \E ok \in BOOLEAN : /\ Post(r, "initialize", "wait_initialized", "initialized", ok)
                           /\ native' = IF ok THEN native \union {r} ELSE native
    /\ UNCHANGED <<device, clean>>

\* validate(): GPU collectives that need every rank, then the gather of the
\* differences found.
EnterDevice(r) == /\ pc[r] = "validate"
                  /\ Goto(r, "device")
                  /\ device' = device \union {r}
                  /\ UNCHANGED <<inputs, posts, native, clean>>

PostResults(r) ==
    /\ device = Ranks
    /\ \E ok \in BOOLEAN : /\ Post(r, "device", "wait_results", "results", ok)
                           /\ clean' = IF ok THEN clean \union {r} ELSE clean
    /\ UNCHANGED <<native, device>>

\* Seeded fault: the validation is tried again.
ValidatorRaises_Retries(r) ==
    /\ pc[r] = "device" /\ device = Ranks
    /\ Goto(r, "validate")
    /\ UNCHANGED <<inputs, posts, native, device, clean>>

\* The validator raises: its exception is a verdict, but the gather of the
\* differences is skipped.  A rank in the GPU collectives gets out of them
\* only if all entered, or if RCCL notices that a peer is gone.
ValidatorRaises(r) ==
    /\ \/ Post(r, "validate", "wait_validated", "validated", FALSE)
       \/ /\ device = Ranks \/ SomeGone
          /\ Post(r, "device", "wait_validated", "validated", FALSE)
    /\ UNCHANGED <<native, device, clean>>

PostValidated(r) ==
    /\ \/ Post(r, "passed", "wait_validated", "validated", TRUE)
       \/ Post(r, "failed", "wait_validated", "validated", FALSE)
    /\ UNCHANGED <<native, device, clean>>
-----------------------------------------------------------------------------
\* The contributions that the gather r waits in gives it.
Gathered(r) == {posts[p][Len(posts[r])] : p \in Ranks}

Complete(r) == \A p \in Ranks : Len(posts[p]) >= Len(posts[r])

\* An entry of another vote lacks the key that is looked up: KeyError.
Readable(r, kind) == \A c \in Gathered(r) : c.kind = kind
AllOk(r) == \A c \in Gathered(r) : c.ok

Resume(r, wait, there) == /\ pc[r] = wait /\ Complete(r)
                          /\ Goto(r, there)
                          /\ UNCHANGED <<inputs, posts, native, device, clean>>

ReadEnable(r) ==
    Resume(r, "wait_enable", IF \A c \in Gathered(r) : ~c.ok THEN "none"
                             ELSE IF AllOk(r) THEN "metadata" ELSE "raised")

ReadMetadata(r) ==
    Resume(r, "wait_metadata", IF AllOk(r) /\ \A c, d \in Gathered(r) : c.shared = d.shared
                               THEN "load" ELSE "raised")

ReadLoaded(r) == Resume(r, "wait_loaded", IF AllOk(r) THEN "initialize" ELSE "dead")

ReadInitialized(r) == Resume(r, "wait_initialized", IF AllOk(r) THEN "validate" ELSE "dead")

\* Seeded fault: the differences of the peers are gathered and not looked at.
ReadResults_Unread(r) ==
    Resume(r, "wait_results", IF Readable(r, "results") THEN "passed" ELSE "failed")

\* Inside the validator, whose exceptions create_if_enabled catches.
ReadResults(r) ==
    Resume(r, "wait_results", IF Readable(r, "results") /\ AllOk(r) THEN "passed" ELSE "failed")

\* Seeded fault: each rank goes by its own verdict, and falls back to RCCL.
ReadValidated_OwnVerdict(r) ==
    Resume(r, "wait_validated", IF posts[r][Len(posts[r])].ok THEN "backend" ELSE "none")

\* all() stops at the first failed verdict: a KeyError further on is not seen.
ReadValidated(r) ==
    \/ Resume(r, "wait_validated", IF ~Readable(r, "validated") THEN "raised"
                                   ELSE IF AllOk(r) THEN "backend" ELSE "dead")
    \/ /\ Resume(r, "wait_validated", "dead")
       /\ \E c \in Gathered(r) : c.kind = "validated" /\ ~c.ok

\* A gather fails: a peer is gone, or Gloo's timeout.
GatherFails(r) ==
    /\ ~Complete(r)
    /\ \/ /\ pc[r] \in {"wait_enable", "wait_metadata", "wait_loaded",
                        "wait_initialized", "wait_validated"}
          /\ Goto(r, "raised")
       \/ pc[r] = "wait_results" /\ Goto(r, "failed")
    /\ UNCHANGED <<inputs, posts, native, device, clean>>

\* The worker is killed: by an operator, or by the executor of vLLM, which
\* ends a group that lost a worker.
Killed(r) == /\ pc[r] \notin Ended
             /\ Goto(r, "dead")
             /\ UNCHANGED <<inputs, posts, native, device, clean>>

Step(r) == \/ Hook(r) \/ PostEnable(r) \/ PostMetadata(r) \/ PostLoaded(r)
           \/ PostInitialized(r) \/ EnterDevice(r) \/ PostResults(r)
           \/ PostValidated(r)
           \/ ReadEnable(r) \/ ReadMetadata(r) \/ ReadLoaded(r)
           \/ ReadInitialized(r) \/ ReadResults(r) \/ ReadValidated(r)

Next == \E r \in Ranks : \/ Step(r) \/ ValidatorRaises(r)
                         \/ GatherFails(r) \/ Killed(r)

\* The ranks run on, Gloo's timeout ends a gather that never completes, and
\* the executor ends the group when a worker is gone: a rank that waits for it
\* in a GPU collective cannot end by itself.
Spec == /\ Init /\ [][Next]_vars
        /\ \A r \in Ranks : /\ WF_vars(Step(r)) /\ WF_vars(GatherFails(r))
                            /\ WF_vars(SomeGone /\ Killed(r))
-----------------------------------------------------------------------------
\* Every variable has its type; no rank calls more gathers than the protocol.
TypeOK ==
    /\ hooked \in BOOLEAN /\ enabled \subseteq Ranks /\ settings \in [Ranks -> Settings]
    /\ pc \in [Ranks -> Ended \union {"hook", "enable", "metadata", "load", "initialize",
                 "validate", "device", "passed", "failed", "wait_enable", "wait_metadata",
                 "wait_loaded", "wait_initialized", "wait_results", "wait_validated"}]
    /\ \A r \in Ranks :
          /\ Len(posts[r]) <= 6
          /\ \A k \in 1..Len(posts[r]) :
                posts[r][k] \in [kind : {"enable", "metadata", "loaded", "initialized",
                                         "results", "validated"},
                                 ok : BOOLEAN, shared : Settings]
    /\ native \subseteq Ranks /\ device \subseteq Ranks /\ clean \subseteq Ranks

\* No rank uses the RDMA collective while another stays with RCCL: a mixed
\* group would wait for ever in different collectives.
NoSplit == TypeOK /\ \A r, p \in Ranks : pc[r] = "backend" => pc[p] # "none"

\* A returned back end was enabled, created and found bit-exact on every rank,
\* with one binary and one configuration, even when votes got out of step; and
\* no rank creates the native back end before all of them have loaded the same
\* one (hip_rdma_backend.py:222), so nobody waits for a peer that cannot come.
BackendEarned ==
    /\ \A r \in Ranks : pc[r] = "backend" =>
           /\ enabled = Ranks /\ native = Ranks /\ clean = Ranks
           /\ \A p, q \in Ranks : settings[p] = settings[q]
    /\ \A r \in native : \A p \in Ranks :
           Len(posts[p]) >= 3 /\ posts[p][3].ok /\ settings[p] = settings[r]

\* Every start-up comes to an end, also when a validator raised on some ranks.
Decides == <>(\A r \in Ranks : pc[r] \in Ended)
=============================================================================
